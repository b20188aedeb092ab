-------------------------- MODULE TcpStreamProofs --------------------------
(***************************************************************************)
(* The streams of TcpConnection, from the program that writes to the one   *)
(* that reads: what is acknowledged is held by the peer, unit by unit, and *)
(* what the programs see is what TcpService promises.  For windows, an     *)
(* MSS and sequence numbers of any size, and any number of segments, of    *)
(* losses, duplications, delays and refusals.                              *)
(*                                                                         *)
(* The invariant is StreamInv.  It measures everything as a distance from  *)
(* the initial sequence number of the stream it belongs to, where unit j   *)
(* of the stream has number j: the buffers, the queues and the segments    *)
(* on the wire carry unit j at distance j, or what the peer already has.   *)
(* What a socket needs to know of the rest of the system is Env, so that   *)
(* the lemmas about the operators of TcpSocket speak of one socket only:   *)
(* Speaks of what it sends, Hears of what it receives, Right of both.  A   *)
(* step of the other host changes only Env, and only in one direction      *)
(* (Stepped).                                                              *)
(*                                                                         *)
(* Three things are assumed.  ShortStreams: no stream is so long that its  *)
(* numbers are met again; TCP_CMP_SEQ cannot tell such numbers apart.      *)
(* NoHalfClose: no program calls socketShutdown with SOCKET_SD_SEND; MQTT  *)
(* uses SOCKET_SD_BOTH, and with SD_SEND what is read can be false         *)
(* (tcpShutdown enters FIN_WAIT_1 although the FIN of the peer came while  *)
(* it waited).  []FinBehindData: no FIN is sent before the data; the run   *)
(* tcp_shutdown_truncates shows how the code fails to keep it, and a FIN   *)
(* in the place of data is read as the end.                                *)
(***************************************************************************)
EXTENDS TcpConnectionProofs

-----------------------------------------------------------------------------
(* What the rest of the system is to one socket *)

\* Where the stream of h starts: its SYN has distance 0, its first unit 1.
Iss(h) == IF h = "client" THEN ClientIss ELSE ServerIss

\* The states in which tcpProcessSegmentData and tcpReceive are reached by a
\* program that has not shut down.
Hearing == {"SYN_RECEIVED", "ESTABLISHED", "CLOSE_WAIT"}

\* The program of a task in t may still read.
Reading(t) ==
    /\ ~t.closing
    /\ \/ t.at \in {"start", "accept", "connect", "send", "receive", "idle"}
       \/ t.at = "end" /\ t.how # "BOTH"

\* Where a socket stands in the stream of its peer: it has acknowledged no more.
Limit(s, reads, peer) ==
    IF reads /\ s.state \in Hearing THEN Minus(s.rcvNxt, peer) ELSE SeqSpace

Low(h) == Limit(sock[Peer(h)], Reading(task[Peer(h)]), Iss(h))

\* own, written, shut: the stream of h; low: what its peer has acknowledged at
\* most; peer, theirs, over: the stream of the peer; reads, got: what the
\* program of h does with it.
Env(h) ==
    [own |-> Iss(h), peer |-> Iss(Peer(h)),
     written |-> written[h], shut |-> shut[h], low |-> Low(h),
     reads |-> Reading(task[h]), got |-> Len(read[h]),
     theirs |-> written[Peer(h)], over |-> shut[Peer(h)]]

-----------------------------------------------------------------------------
(* What a host sends *)

\* A queued header is for units that are written, or for the FIN behind the last.
HeaderRight(q, e) ==
    LET o == Minus(q.seq, e.own)
    IN  /\ "RST" \notin q.flags
        /\ "SYN" \in q.flags => q.length = 0 /\ o = 0
        /\ "FIN" \in q.flags => q.length = 0 /\ e.shut /\ o = e.written + 1
        /\ q.length > 0 => 1 <= o /\ o + q.length <= e.written + 1

\* So is a segment, and carries those units, except where the peer has been
\* told to have them: tcpSend may have written over what is acknowledged.
SegmentRight(g, own, wrote, over, low) ==
    LET o == Minus(g.seq, own)
    IN  /\ g.flags \cap {"SYN", "FIN", "RST"} # {} => g.data = <<>>
        /\ "SYN" \in g.flags => o = 0
        /\ "FIN" \in g.flags => over /\ o = wrote + 1
        /\ g.data # <<>> =>
            /\ 1 <= o /\ o + Len(g.data) <= wrote + 1
            /\ \A k \in 1 .. Len(g.data) : g.data[k] = o + k - 1 \/ o + k - 1 < low

\* An acknowledgment is for what has been received.
AckBelow(g, peer, limit) ==
    "ACK" \in g.flags /\ "RST" \notin g.flags => Minus(g.ack, peer) <= limit

\* sndUna, sndNxt and sndUser count what is acknowledged, sent and not yet
\* sent of the stream, and no more is written than the buffer holds.
Placed(s, e) ==
    LET u == Minus(s.sndUna, e.own)
        x == Minus(s.sndNxt, e.own)
    IN  /\ s.iss = e.own
        /\ u <= x /\ 1 <= x /\ u <= e.low
        /\ \/ x + s.sndUser = e.written + 1
           \/ e.shut /\ s.sndUser = 0 /\ x = e.written + 2
        /\ e.written + 1 <= u + TxBufferSize

\* The send buffer holds the last units written, each at its place.
Stored(s, e) ==
    s.txBuffer # Released =>
        \A j \in 1 .. e.written :
            j + TxBufferSize > e.written => s.txBuffer[(j - 1) % TxBufferSize] = j

\* The sequence numbers and the buffer are as written.
Ready(s, e) ==
    /\ s.owned => Placed(s, e) /\ Stored(s, e)
    /\ ~s.owned => s.state \in {"CLOSED", "LISTEN", "TIME_WAIT"}
    /\ ~s.owned \/ s.state = "TIME_WAIT" => s.queue = <<>>
    /\ s.state \in {"SYN_SENT"} \cup Hearing => s.txBuffer # Released

\* What leaves the socket, now or when it is sent again, is right both as a
\* part of its stream and as an acknowledgment.
HeaderGood(q, s, e) ==
    /\ HeaderRight(q, e)
    /\ s.txBuffer = Released => q.length = 0
    /\ AckBelow(q, e.peer, Limit(s, e.reads, e.peer))

SegmentGood(g, s, e) ==
    /\ SegmentRight(g, e.own, e.written, e.shut, e.low)
    /\ AckBelow(g, e.peer, Limit(s, e.reads, e.peer))

Speaks(s, e) ==
    /\ Ready(s, e)
    /\ \A i \in DOMAIN s.queue : HeaderGood(s.queue[i], s, e)
    /\ \A i \in DOMAIN s.out : SegmentGood(s.out[i], s, e)

-----------------------------------------------------------------------------
(* What a host has received *)

\* Unit j is at its place in the receive buffer.
Holds(buffer, j) == buffer[(j - 1) % RxBufferSize] = j

\* rcvNxt and rcvUser count what has been received and not yet read; each
\* block received out of order is written by the peer and in the buffer.
Heard(s, e) ==
    LET r == Minus(s.rcvNxt, e.peer)
    IN  /\ e.got + s.rcvUser + 1 = r /\ r <= e.theirs + 1
        /\ \A i \in DOMAIN s.sackBlock :
            LET b == s.sackBlock[i]
            IN  /\ r + Offset(s, b.right) <= e.theirs + 1
                /\ \A k \in Offset(s, b.left) .. Offset(s, b.right) - 1 :
                        Holds(s.rxBuffer, r + k)

\* The FIN has been received, and everything before it.
HeardAll(s, e) ==
    /\ e.over /\ e.got + s.rcvUser = e.theirs
    /\ Minus(s.rcvNxt, e.peer) = e.theirs + 2

\* As long as the program may read, it will read the stream of the peer.
Hears(s, e) ==
    e.reads /\ s.state \in Hearing =>
        /\ s.irs = e.peer
        /\ s.rxBuffer \in [0 .. RxBufferSize - 1 -> Nat]
        /\ \A j \in e.got + 1 .. e.got + s.rcvUser : Holds(s.rxBuffer, j)
        /\ s.state = "SYN_RECEIVED" => s.rcvUser = 0
        /\ IF s.state = "CLOSE_WAIT" THEN HeardAll(s, e) ELSE Heard(s, e)

Right(s, e) == Speaks(s, e) /\ Hears(s, e)

-----------------------------------------------------------------------------
(* The system *)

\* What is on its way to h, however old, is of the stream of its peer.
Wire(h) ==
    \A i \in DOMAIN net[h] :
        /\ SegmentRight(net[h][i], Iss(Peer(h)), written[Peer(h)], shut[Peer(h)],
                        Low(Peer(h)))
        /\ AckBelow(net[h][i], Iss(h), Low(h))

\* The segment acknowledges nothing.
Mute(g) == "ACK" \in g.flags => "RST" \in g.flags

\* The host has heard nothing of its peer yet.
Fresh(h) == task[h].at \in {"start", "accept"} \/ sock[h].state = "SYN_SENT"

\* A host that starts has nothing that could pass for an acknowledgment, so
\* its peer cannot take a segment of another connection for one.
FreshSocket(s) ==
    /\ ~s.probing
    /\ IF s.state = "SYN_SENT"
       THEN /\ s.owned /\ s.rcvUser = 0
            /\ s.rxBuffer \in [0 .. RxBufferSize - 1 -> Nat]
            /\ \A i \in DOMAIN s.queue : Mute(s.queue[i])
       ELSE ~s.owned /\ s.state = "CLOSED" /\ s.sndUser = 0

\* The peer of such a host.
Unheard(s, wrote) ==
    /\ wrote = 0
    /\ s.owned => s.sndUna = s.iss
    /\ s.state \notin {"ESTABLISHED", "CLOSE_WAIT"}

\* Its program has neither read nor written.
Untouched(h) == read[h] = <<>> /\ written[h] = 0

Begins(h) ==
    Fresh(h) =>
        /\ Untouched(h)
        /\ FreshSocket(sock[h])
        /\ Unheard(sock[Peer(h)], written[Peer(h)])
        /\ \A i \in DOMAIN net[Peer(h)] : Mute(net[Peer(h)][i])

\* The program may read: the peer has not been told otherwise.
Live(s) == s.state \in {"CLOSED", "SYN_SENT"} \cup Hearing /\ ~s.closedFlag

\* How far the program of a host has come, and what follows for its socket.
StageOf(t, s, over, wasRead, done) ==
    /\ t.closing => t.at \in {"idle", "closed"}
    /\ t.at \in {"start", "accept"} => s.state = "CLOSED"
    /\ t.at \notin {"start", "accept", "closed"} => s.owned
    /\ t.at \in {"flush", "drain", "fin"} => t.how = "BOTH"
    /\ over => ~Reading(t) /\ t.at \notin {"flush", "drain"}
    /\ done => t.at # "receive"
    /\ Reading(t) => Live(s)
    /\ wasRead = [k \in 1 .. Len(wasRead) |-> k]

Stage(h) == StageOf(task[h], sock[h], shut[h], read[h], ended[h])

ListenerRight ==
    \A i \in DOMAIN sock["listener"].synQueue :
        sock["listener"].synQueue[i].isn = ClientIss

HistoryFits ==
    /\ read \in [Hosts -> Seq(Nat)]
    /\ shut \in [Hosts -> BOOLEAN] /\ ended \in [Hosts -> BOOLEAN]

StreamInv ==
    /\ \A h \in Hosts : Right(sock[h], Env(h)) /\ Wire(h) /\ Begins(h) /\ Stage(h)
    /\ ListenerRight /\ HistoryFits

-----------------------------------------------------------------------------
(* Sending *)

\* The streams are short enough for their positions to be compared.
Short(n) == n \in Nat /\ 2 * (n + RxBufferSize + 2) < SeqSpace

EnvOK(e) ==
    /\ e.own \in SeqNums /\ e.peer \in SeqNums
    /\ Short(e.written) /\ Short(e.theirs)
    /\ e.low \in 0 .. SeqSpace /\ e.got \in Nat

\* What is sent from a queued header is what was written; what is not there
\* any more has been received.
LEMMA SegmentIsRight ==
    ASSUME NEW s, s.txBuffer \in Buffers, s.iss \in SeqNums, s.sndUna \in SeqNums,
           NEW e, EnvOK(e),
           NEW q \in Headers, HeaderRight(q, e),
           q.length > 0 => s.txBuffer # Released /\ Placed(s, e) /\ Stored(s, e)
    PROVE  SegmentRight(Segment(s, q), e.own, e.written, e.shut, e.low)
<1> DEFINE g == Segment(s, q)
           o == Minus(q.seq, e.own)
           d == ReadBuffer(s.txBuffer, s.iss, q.seq, q.length)
<1>1. g.flags = q.flags /\ g.seq = q.seq /\ g.data = d
  BY DEF Segment
<1>2. /\ q.seq \in SeqNums /\ q.length \in Nat /\ e.own \in SeqNums
      /\ e.written \in Nat /\ e.low \in Int
  BY HeaderFields, Sizes DEF EnvOK, Short
<1>3. d \in Seq(Nat) /\ Len(d) = q.length
  BY <1>2, ReadBufferOf
<1>4. o \in Nat
  BY <1>2, MinusIs
<1>5. d # <<>> => q.length > 0
  BY <1>2, <1>3
<1>6. ASSUME q.length > 0, NEW k \in 1 .. q.length
      PROVE  d[k] = o + k - 1 \/ o + k - 1 < e.low
  <2>1. /\ s.txBuffer # Released /\ Placed(s, e) /\ Stored(s, e)
        /\ 1 <= o /\ o + q.length <= e.written + 1
    BY <1>6 DEF HeaderRight
  <2> DEFINE j == o + k - 1
  <2>2. j \in 1 .. e.written
    BY <1>2, <1>4, <2>1
  <2>3. s.txBuffer \in Ring(TxBufferSize) /\ TxBufferSize \in Nat \ {0}
    BY <2>1, TxRing
  <2>4. s.iss = e.own /\ Minus(s.sndUna, e.own) <= e.low
        /\ e.written + 1 <= Minus(s.sndUna, e.own) + TxBufferSize
    BY <2>1 DEF Placed
  <2>5. d[k] = s.txBuffer[(j - 1) % TxBufferSize]
    <3>1. Minus(q.seq, s.iss) = o /\ Minus(q.seq, s.iss) >= 1
      BY <2>1, <2>4
    <3> DEFINE buffer == s.txBuffer
               origin == s.iss
               x == q.seq
               n == q.length
    <3>2. /\ buffer \in Ring(TxBufferSize) /\ origin \in SeqNums /\ x \in SeqNums
          /\ Minus(x, origin) >= 1 /\ n \in Nat /\ k \in 1 .. n
      BY <1>2, <2>3, <3>1, <1>6
    <3> HIDE DEF buffer, origin, x, n
    <3>3. ReadBuffer(buffer, origin, x, n)[k] =
              buffer[(Minus(x, origin) + k - 1 - 1) % TxBufferSize]
      BY <2>3, <3>2, ReadAt
    <3>4. d[k] = s.txBuffer[(Minus(q.seq, s.iss) + k - 1 - 1) % TxBufferSize]
      BY <3>3 DEF buffer, origin, x, n
    <3> HIDE DEF d
    <3>5. (Minus(q.seq, s.iss) + k - 1 - 1) = j - 1
      BY <1>4, <3>1
    <3> QED BY <3>4, <3>5
  <2>6. j + TxBufferSize > e.written => s.txBuffer[(j - 1) % TxBufferSize] = j
    BY <2>1, <2>2 DEF Stored
  <2> HIDE DEF j, d
  <2>7. CASE j + TxBufferSize > e.written
    BY <2>5, <2>6, <2>7 DEF j
  <2>8. CASE ~(j + TxBufferSize > e.written)
    <3> DEFINE u == Minus(s.sndUna, e.own)
    <3>1. u <= e.low /\ e.written + 1 <= u + TxBufferSize /\ j \in Nat /\ TxBufferSize \in Nat
      BY <2>2, <2>3, <2>4
    <3>2. u \in Int
      BY <1>2, MinusIs
    <3> HIDE DEF u
    <3>3. j < e.low
      BY <1>2, <2>8, <3>1, <3>2
    <3> QED BY <3>3 DEF j
  <2> QED BY <2>7, <2>8
<1> HIDE DEF d, g
<1>7. g.flags \cap {"SYN", "FIN", "RST"} # {} => g.data = <<>>
  <2>1. q.length = 0 => d = <<>>
    BY <1>3
  <2>2. g.flags \cap {"SYN", "FIN", "RST"} # {} => q.length = 0
    BY <1>1 DEF HeaderRight
  <2> QED BY <1>1, <2>1, <2>2
<1>8. Minus(g.seq, e.own) = o
  BY <1>1
<1>9. g.data # <<>> =>
        /\ 1 <= o /\ o + Len(g.data) <= e.written + 1
        /\ \A k \in 1 .. Len(g.data) : g.data[k] = o + k - 1 \/ o + k - 1 < e.low
  <2> SUFFICES ASSUME g.data # <<>>
               PROVE  /\ 1 <= o /\ o + Len(g.data) <= e.written + 1
                      /\ \A k \in 1 .. Len(g.data) : g.data[k] = o + k - 1 \/ o + k - 1 < e.low
    OBVIOUS
  <2>1. q.length > 0 /\ Len(g.data) = q.length
    BY <1>1, <1>3, <1>5
  <2>2. 1 <= o /\ o + q.length <= e.written + 1
    BY <2>1 DEF HeaderRight
  <2>3. \A k \in 1 .. q.length : g.data[k] = o + k - 1 \/ o + k - 1 < e.low
    BY <1>1, <1>6, <2>1
  <2> QED BY <2>1, <2>2, <2>3
<1>10. ("SYN" \in g.flags => o = 0) /\ ("FIN" \in g.flags => e.shut /\ o = e.written + 1)
  BY <1>1 DEF HeaderRight
<1> HIDE DEF o
<1>11. SegmentRight(g, e.own, e.written, e.shut, e.low)
  BY <1>7, <1>8, <1>9, <1>10 DEF SegmentRight
<1> QED BY <1>11 DEF g

SpeakFields == {"owned", "state", "iss", "sndUna", "sndNxt", "sndUser", "rcvNxt",
                "queue", "txBuffer", "out"}
HearFields == {"state", "irs", "rcvNxt", "rcvUser", "sackBlock", "rxBuffer"}

LEMMA SpeaksAlike ==
    ASSUME NEW s, NEW t, NEW F, AlikeBut(s, t, F), F \cap SpeakFields = {},
           NEW e, Speaks(s, e)
    PROVE  Speaks(t, e)
<1>1. \A f \in SpeakFields : t[f] = s[f]
  BY DEF AlikeBut, Core, SpeakFields
<1>2. /\ t.owned = s.owned /\ t.state = s.state /\ t.iss = s.iss
      /\ t.sndUna = s.sndUna /\ t.sndNxt = s.sndNxt /\ t.sndUser = s.sndUser
      /\ t.rcvNxt = s.rcvNxt
      /\ t.queue = s.queue /\ t.txBuffer = s.txBuffer /\ t.out = s.out
  BY <1>1 DEF SpeakFields
<1>3. /\ Placed(s, e) => Placed(t, e)
      /\ Stored(s, e) => Stored(t, e)
  BY <1>2 DEF Placed, Stored
<1>4. Ready(t, e)
  BY <1>2, <1>3 DEF Speaks, Ready
<1>5. Limit(t, e.reads, e.peer) = Limit(s, e.reads, e.peer)
  BY <1>2 DEF Limit
<1>6. \A q : HeaderGood(q, s, e) => HeaderGood(q, t, e)
  BY <1>2, <1>5 DEF HeaderGood
<1>7. \A g : SegmentGood(g, s, e) => SegmentGood(g, t, e)
  BY <1>5 DEF SegmentGood
<1> QED BY <1>2, <1>4, <1>6, <1>7 DEF Speaks

LEMMA HearsAlike ==
    ASSUME NEW s, NEW t, NEW F, AlikeBut(s, t, F), F \cap HearFields = {},
           NEW e, Hears(s, e)
    PROVE  Hears(t, e)
<1>1. \A f \in HearFields : t[f] = s[f]
  BY DEF AlikeBut, Core, HearFields
<1>2. /\ t.state = s.state /\ t.irs = s.irs /\ t.rcvNxt = s.rcvNxt
      /\ t.rcvUser = s.rcvUser /\ t.sackBlock = s.sackBlock /\ t.rxBuffer = s.rxBuffer
  BY <1>1 DEF HearFields
<1>3. \A x : Offset(t, x) = Offset(s, x)
  BY <1>2 DEF Offset
<1>4. /\ Heard(s, e) => Heard(t, e)
      /\ HeardAll(s, e) => HeardAll(t, e)
  BY <1>2, <1>3 DEF Heard, HeardAll
<1> QED BY <1>2, <1>4 DEF Hears

LEMMA RightAlike ==
    ASSUME NEW s, NEW t, Differs(s, t, {"probing"}), NEW e, Right(s, e)
    PROVE  Right(t, e)
<1> DEFINE F == {"probing"}
<1>1. AlikeBut(s, t, F)
  BY DEF Differs
<1>2. F \cap SpeakFields = {} /\ F \cap HearFields = {}
  BY DEF SpeakFields, HearFields
<1> HIDE DEF F
<1> QED BY <1>1, <1>2, SpeaksAlike, HearsAlike DEF Right

LEMMA SpeaksOfSame ==
    ASSUME NEW s, NEW t, Differs(s, t, {"probing"}), NEW e, Speaks(s, e)
    PROVE  Speaks(t, e)
<1> DEFINE F == {"probing"}
<1>1. AlikeBut(s, t, F)
  BY DEF Differs
<1>2. F \cap SpeakFields = {}
  BY DEF SpeakFields
<1> HIDE DEF F
<1> QED BY <1>1, <1>2, SpeaksAlike

\* A segment without data is right, and so is a reset.
LEMMA EmptyIsRight ==
    ASSUME NEW s, s.txBuffer \in Buffers, s.iss \in SeqNums, NEW q \in Headers,
           q.length = 0, q.flags \cap {"SYN", "FIN"} = {}, NEW e
    PROVE  SegmentRight(Segment(s, q), e.own, e.written, e.shut, e.low)
<1> DEFINE d == ReadBuffer(s.txBuffer, s.iss, q.seq, q.length)
           g == Segment(s, q)
<1>1. g.flags = q.flags /\ g.data = d
  BY DEF Segment
<1>2. q.seq \in SeqNums /\ q.length \in Nat
  BY HeaderFields
<1>3. d \in Seq(Nat) /\ Len(d) = 0
  BY <1>2, ReadBufferOf
<1> HIDE DEF d, g
<1>4. d = <<>>
  BY <1>3
<1>5. SegmentRight(g, e.own, e.written, e.shut, e.low)
  BY <1>1, <1>4 DEF SegmentRight
<1> QED BY <1>5 DEF g

\* A good header makes a good segment.
LEMMA HeaderSends ==
    ASSUME NEW s, Loose(s), NEW e, EnvOK(e), Ready(s, e), NEW q \in Headers,
           HeaderGood(q, s, e), s.owned
    PROVE  SegmentGood(Segment(s, q), s, e)
<1>1. SegmentRight(Segment(s, q), e.own, e.written, e.shut, e.low)
  BY LooseFields, SegmentIsRight DEF Ready, HeaderGood
<1>2. Segment(s, q).flags = q.flags /\ Segment(s, q).ack = q.ack
  BY DEF Segment
<1>3. AckBelow(Segment(s, q), e.peer, Limit(s, e.reads, e.peer))
  BY <1>2 DEF HeaderGood, AckBelow
<1> QED BY <1>1, <1>3 DEF SegmentGood

\* What is acknowledged is what was received.
LEMMA AckOwn ==
    ASSUME NEW s, s.rcvNxt \in SeqNums, NEW e, EnvOK(e), NEW g, g.ack \in SeqNums,
           \/ g.ack = s.rcvNxt
           \/ "RST" \in g.flags
           \/ "ACK" \notin g.flags
           \/ ~e.reads
           \/ s.state \notin Hearing
    PROVE  AckBelow(g, e.peer, Limit(s, e.reads, e.peer))
<1>1. /\ Minus(s.rcvNxt, e.peer) \in 0 .. SeqSpace - 1
      /\ Minus(g.ack, e.peer) \in 0 .. SeqSpace - 1
      /\ SeqSpace \in Nat
  BY MinusIs DEF EnvOK
<1> QED BY <1>1 DEF AckBelow, Limit

\* Other headers and segments, that are good.
LEMMA SpeaksAnew ==
    ASSUME NEW s, NEW t, AlikeBut(s, t, {"queue", "out"}), NEW e, Speaks(s, e),
           ~s.owned \/ s.state = "TIME_WAIT" => t.queue = <<>>,
           \A i \in DOMAIN t.queue : HeaderGood(t.queue[i], s, e),
           \A i \in DOMAIN t.out : SegmentGood(t.out[i], s, e)
    PROVE  Speaks(t, e)
<1>1. /\ t.owned = s.owned /\ t.state = s.state /\ t.iss = s.iss
      /\ t.sndUna = s.sndUna /\ t.sndNxt = s.sndNxt /\ t.sndUser = s.sndUser
      /\ t.rcvNxt = s.rcvNxt /\ t.txBuffer = s.txBuffer
  BY DEF AlikeBut, Core
<1>2. Limit(t, e.reads, e.peer) = Limit(s, e.reads, e.peer)
  BY <1>1 DEF Limit
<1>3. /\ Placed(s, e) => Placed(t, e)
      /\ Stored(s, e) => Stored(t, e)
  BY <1>1 DEF Placed, Stored
<1>4. Ready(t, e)
  BY <1>1, <1>3 DEF Speaks, Ready
<1>5. \A q : HeaderGood(q, s, e) => HeaderGood(q, t, e)
  BY <1>1, <1>2 DEF HeaderGood
<1>6. \A g : SegmentGood(g, s, e) => SegmentGood(g, t, e)
  BY <1>2 DEF SegmentGood
<1> QED BY <1>4, <1>5, <1>6 DEF Speaks

\* A header is queued.
LEMMA QueuesGood ==
    ASSUME NEW s, Loose(s), NEW e, EnvOK(e), Speaks(s, e), NEW q \in Headers,
           SegmentGood(Segment(s, q), s, e), NEW addToQueue \in BOOLEAN,
           addToQueue => HeaderGood(q, s, e) /\ s.owned /\ s.state # "TIME_WAIT",
           NEW t, AlikeBut(s, t, {"queue", "out"}),
           t.queue = IF addToQueue THEN Append(s.queue, q) ELSE s.queue,
           t.out \in {s.out, Append(s.out, Segment(s, q))}
    PROVE  Speaks(t, e)
<1>1. s.queue \in Seq(Headers) /\ s.out \in Seq(Segments)
  BY LooseFields
<1>2. Segment(s, q) \in Segments
  BY LooseFields, SegmentOf
<1> DEFINE g == Segment(s, q)
<1> HIDE DEF g
<1>3. ~s.owned \/ s.state = "TIME_WAIT" => t.queue = <<>>
  BY DEF Speaks, Ready
<1>4. ASSUME NEW i \in DOMAIN t.queue
      PROVE  HeaderGood(t.queue[i], s, e)
  BY <1>1 DEF Speaks
<1>5. ASSUME NEW i \in DOMAIN t.out
      PROVE  SegmentGood(t.out[i], s, e)
  <2>1. t.out \in {s.out, Append(s.out, g)} /\ SegmentGood(g, s, e) /\ g \in Segments
    BY <1>2 DEF g
  <2> QED BY <1>1, <2>1 DEF Speaks
<1> QED BY <1>3, <1>4, <1>5, SpeaksAnew

LEMMA SendSegmentSpeaks ==
    ASSUME NEW s, Loose(s), NEW e, EnvOK(e), Speaks(s, e),
           NEW flags \in SUBSET Flags, NEW seqNum \in SeqNums, NEW ackNum \in SeqNums,
           NEW length \in 0 .. Mss, NEW addToQueue \in BOOLEAN,
           LET q == Header(s, flags, seqNum, ackNum, length)
           IN  /\ SegmentGood(Segment(s, q), s, e)
               /\ addToQueue => HeaderGood(q, s, e) /\ s.owned /\ s.state # "TIME_WAIT"
    PROVE  Speaks(SendSegment(s, flags, seqNum, ackNum, length, addToQueue), e)
<1> DEFINE q == Header(s, flags, seqNum, ackNum, length)
           t == SendSegment(s, flags, seqNum, ackNum, length, addToQueue)
<1>1. q \in Headers
  BY HeaderOf, Sizes DEF Loose, ReceiveOK
<1>2. AlikeBut(s, t, {"queue", "out"})
  BY LooseFields, SendSegmentDiffers DEF Differs
<1>3. CASE s.nic = "memory"
  BY <1>3 DEF SendSegment
<1>4. CASE s.nic # "memory"
  <2>1. /\ t.queue = IF addToQueue THEN Append(s.queue, q) ELSE s.queue
        /\ t.out \in {s.out, Append(s.out, Segment(s, q))}
    BY <1>4, LooseFields DEF SendSegment, SocketFields
  <2> HIDE DEF t, q
  <2>2. /\ SegmentGood(Segment(s, q), s, e)
        /\ addToQueue => HeaderGood(q, s, e) /\ s.owned /\ s.state # "TIME_WAIT"
    BY DEF q
  <2>3. Speaks(t, e)
    BY <1>1, <1>2, <2>1, <2>2, QueuesGood
  <2> QED BY <2>3 DEF t
<1> QED BY <1>3, <1>4

\* A segment that is not queued and carries nothing.
LEMMA EmptySpeaks ==
    ASSUME NEW s, Loose(s), NEW e, EnvOK(e), Speaks(s, e),
           NEW flags \in SUBSET Flags, NEW seqNum \in SeqNums, NEW ackNum \in SeqNums,
           flags \cap {"SYN", "FIN"} = {},
           "ACK" \in flags /\ "RST" \notin flags => ackNum = s.rcvNxt
    PROVE  Speaks(SendSegment(s, flags, seqNum, ackNum, 0, FALSE), e)
<1> DEFINE q == Header(s, flags, seqNum, ackNum, 0)
           queued == FALSE
           length == 0
<1>1. q \in Headers /\ length \in 0 .. Mss
  <2>1. 0 \in 0 .. Mss
    BY Sizes
  <2> QED BY <2>1, HeaderOf, Sizes DEF Loose, ReceiveOK
<1>2. q.flags = flags /\ q.length = 0 /\ ("ACK" \in flags => q.ack = ackNum)
  BY DEF Header
<1>3. q.ack \in SeqNums
  BY <1>1, HeaderFields
<1> HIDE DEF q
<1>4. SegmentRight(Segment(s, q), e.own, e.written, e.shut, e.low)
  BY <1>1, <1>2, LooseFields, EmptyIsRight
<1>5. Segment(s, q).flags = q.flags /\ Segment(s, q).ack = q.ack
  BY DEF Segment
<1> DEFINE g == Segment(s, q)
<1> HIDE DEF g
<1>6. AckBelow(g, e.peer, Limit(s, e.reads, e.peer))
  <2>1. s.rcvNxt \in SeqNums /\ g.ack \in SeqNums
    BY <1>3, <1>5, LooseFields DEF g
  <2>2. \/ g.ack = s.rcvNxt
        \/ "RST" \in g.flags
        \/ "ACK" \notin g.flags
    BY <1>2, <1>5 DEF g
  <2> QED BY <2>1, <2>2, AckOwn
<1>7. SegmentGood(Segment(s, q), s, e)
  BY <1>4, <1>6 DEF SegmentGood, g
<1>8. queued \in BOOLEAN /\ (queued => FALSE) /\ queued = FALSE /\ length = 0
  OBVIOUS
<1> HIDE DEF queued, length
<1>9. SegmentGood(Segment(s, Header(s, flags, seqNum, ackNum, length)), s, e)
  BY <1>7, <1>8 DEF q
<1>10. Speaks(SendSegment(s, flags, seqNum, ackNum, length, queued), e)
  BY <1>1, <1>8, <1>9, SendSegmentSpeaks
<1> QED BY <1>8, <1>10

LEMMA SendAckSpeaks ==
    ASSUME NEW s, Loose(s), NEW e, EnvOK(e), Speaks(s, e)
    PROVE  Speaks(SendAck(s), e)
<1> DEFINE flags == {"ACK"}
<1>1. flags \in SUBSET Flags /\ flags \cap {"SYN", "FIN"} = {}
  BY DEF Flags
<1>2. s.sndNxt \in SeqNums /\ s.rcvNxt \in SeqNums
  BY LooseFields
<1> HIDE DEF flags
<1>3. Speaks(SendSegment(s, flags, s.sndNxt, s.rcvNxt, 0, FALSE), e)
  BY <1>1, <1>2, EmptySpeaks
<1> QED BY <1>3 DEF SendAck, flags

\* A reset.
LEMMA SendResetSpeaks ==
    ASSUME NEW s, Loose(s), NEW e, EnvOK(e), Speaks(s, e),
           NEW seqNum \in SeqNums, NEW ackNum \in SeqNums
    PROVE  /\ Speaks(SendSegment(s, {"RST"}, seqNum, 0, 0, FALSE), e)
           /\ Speaks(SendSegment(s, {"RST", "ACK"}, seqNum, ackNum, 0, FALSE), e)
<1> DEFINE one == {"RST"}
           two == {"RST", "ACK"}
           zero == 0
<1>1. /\ one \in SUBSET Flags /\ one \cap {"SYN", "FIN"} = {} /\ "RST" \in one
      /\ two \in SUBSET Flags /\ two \cap {"SYN", "FIN"} = {} /\ "RST" \in two
      /\ zero = 0 /\ zero \in SeqNums
  BY Sizes DEF Flags, SeqNums
<1> HIDE DEF one, two, zero
<1>2. Speaks(SendSegment(s, one, seqNum, zero, 0, FALSE), e)
  BY <1>1, EmptySpeaks
<1>3. Speaks(SendSegment(s, two, seqNum, ackNum, 0, FALSE), e)
  BY <1>1, EmptySpeaks
<1> QED BY <1>1, <1>2, <1>3 DEF one, two

LEMMA ResetForSynSpeaks ==
    ASSUME NEW s, Loose(s), NEW e, EnvOK(e), Speaks(s, e), NEW seg \in Segments
    PROVE  Speaks(ResetForSyn(s, seg), e)
<1> DEFINE n == Len(seg.data) + 1
           a == Plus(seg.seq, n)
           zero == 0
<1>1. seg.ack \in SeqNums /\ seg.seq \in SeqNums /\ n \in Int /\ zero \in SeqNums
  BY SegmentFields, Sizes DEF SeqNums
<1> HIDE DEF n
<1>2. a \in SeqNums
  BY <1>1, PlusOf
<1> HIDE DEF a, zero
<1>3. /\ Speaks(SendSegment(s, {"RST"}, seg.ack, 0, 0, FALSE), e)
      /\ Speaks(SendSegment(s, {"RST", "ACK"}, zero, a, 0, FALSE), e)
  BY <1>1, <1>2, SendResetSpeaks
<1> QED BY <1>3 DEF ResetForSyn, a, n, zero

LEMMA RetransmitSegmentSpeaks ==
    ASSUME NEW s, Loose(s), NEW e, EnvOK(e), Speaks(s, e)
    PROVE  Speaks(RetransmitSegment(s), e)
<1> DEFINE t == RetransmitSegment(s)
<1>1. s.queue \in Seq(Headers) /\ DOMAIN s = SocketFields
  BY LooseFields
<1>2. Differs(s, t, {"out"}) /\ t.queue = s.queue
  BY <1>1, RetransmitSegmentDiffers DEF Differs, AlikeBut, Core
<1>3. ASSUME NEW i \in DOMAIN t.out
      PROVE  SegmentGood(t.out[i], s, e)
  <2>1. CASE i \in DOMAIN s.out /\ t.out[i] = s.out[i]
    BY <2>1 DEF Speaks
  <2>2. CASE \E k \in DOMAIN s.queue : t.out[i] = Segment(s, s.queue[k])
    <3>1. PICK k \in DOMAIN s.queue : t.out[i] = Segment(s, s.queue[k])
      BY <2>2
    <3>2. s.queue[k] \in Headers /\ s.owned
      BY <1>1 DEF Speaks, Ready
    <3>3. HeaderGood(s.queue[k], s, e) /\ Ready(s, e)
      BY DEF Speaks
    <3> QED BY <3>1, <3>2, <3>3, HeaderSends
  <2>3. \/ i \in DOMAIN s.out /\ t.out[i] = s.out[i]
        \/ \E k \in DOMAIN s.queue : t.out[i] = Segment(s, s.queue[k])
    BY RetransmitSends
  <2> QED BY <2>1, <2>2, <2>3
<1> HIDE DEF t
<1>4. AlikeBut(s, t, {"queue", "out"})
  BY <1>2, AlikeMore DEF Differs
<1>5. Speaks(t, e)
  BY <1>2, <1>3, <1>4, SpeaksAnew DEF Speaks, Ready
<1> QED BY <1>5 DEF t

\* Where the sender is in its stream.
LEMMA Positions ==
    ASSUME NEW s, Loose(s), NEW e, EnvOK(e), Placed(s, e)
    PROVE  LET u == Minus(s.sndUna, e.own)
               x == Minus(s.sndNxt, e.own)
           IN  /\ u \in Nat /\ x \in Nat /\ u <= x /\ 1 <= x /\ x <= e.written + 2
               /\ InFlight(s) = x - u /\ InFlight(s) <= TxBufferSize + 1
               /\ e.written \in Nat /\ 2 * (e.written + 2) < SeqSpace
               /\ s.sndUser > 0 => x + s.sndUser = e.written + 1
<1> DEFINE u == Minus(s.sndUna, e.own)
           x == Minus(s.sndNxt, e.own)
           w == e.written + 2
<1>1. /\ s.sndUna \in SeqNums /\ s.sndNxt \in SeqNums /\ e.own \in SeqNums
      /\ s.sndUser \in Nat /\ TxBufferSize \in Nat /\ SeqSpace \in Nat /\ RxBufferSize \in Nat
  BY LooseFields, Sizes DEF EnvOK
<1>2. u \in Nat /\ x \in Nat
  BY <1>1, MinusIs
<1>3. e.written \in Nat /\ 2 * (e.written + RxBufferSize + 2) < SeqSpace
  BY DEF EnvOK, Short
<1>4. /\ u <= x /\ 1 <= x
      /\ \/ x + s.sndUser = e.written + 1
         \/ s.sndUser = 0 /\ x = e.written + 2
      /\ e.written + 1 <= u + TxBufferSize
  BY DEF Placed
<1> HIDE DEF u, x
<1>5. x <= w /\ u <= w /\ w \in Nat /\ 2 * w < SeqSpace
  BY <1>1, <1>2, <1>3, <1>4
<1> HIDE DEF w
<1>6. InFlight(s) = x - u
  <2>1. Minus(s.sndUna, e.own) <= w /\ Minus(s.sndNxt, e.own) <= w
    BY <1>5 DEF u, x
  <2>2. Minus(s.sndUna, e.own) <= Minus(s.sndNxt, e.own) =>
            Minus(s.sndNxt, s.sndUna) = Minus(s.sndNxt, e.own) - Minus(s.sndUna, e.own)
    BY <1>1, <1>5, <2>1, OrderOf
  <2> QED BY <1>4, <2>2 DEF InFlight, u, x
<1>7. x - u <= TxBufferSize + 1
  BY <1>1, <1>2, <1>3, <1>4, <1>5 DEF w
<1>8. s.sndUser > 0 => x + s.sndUser = e.written + 1
  BY <1>4
<1> QED BY <1>2, <1>3, <1>4, <1>5, <1>6, <1>7, <1>8 DEF u, x, w

\* More is acknowledged.
LEMMA AdvanceSpeaks ==
    ASSUME NEW s, Loose(s), NEW e, EnvOK(e), Speaks(s, e), s.owned,
           NEW a \in SeqNums, Minus(a, s.sndUna) <= InFlight(s), Minus(a, e.own) <= e.low,
           NEW t, AlikeBut(s, t, {"sndUna"}), t.sndUna = a
    PROVE  Speaks(t, e)
<1>1. /\ t.owned = s.owned /\ t.state = s.state /\ t.iss = s.iss
      /\ t.sndNxt = s.sndNxt /\ t.sndUser = s.sndUser
      /\ t.rcvNxt = s.rcvNxt /\ t.queue = s.queue /\ t.txBuffer = s.txBuffer /\ t.out = s.out
  BY DEF AlikeBut, Core
<1>2. Limit(t, e.reads, e.peer) = Limit(s, e.reads, e.peer)
  BY <1>1 DEF Limit
<1>3. Placed(s, e) /\ Stored(s, e)
  BY DEF Speaks, Ready
<1>4. Placed(t, e)
  <2> DEFINE u == Minus(s.sndUna, e.own)
             x == Minus(s.sndNxt, e.own)
             d == Minus(a, s.sndUna)
             v == Minus(a, e.own)
  <2>1. /\ u \in Nat /\ x \in Nat /\ x <= e.written + 2 /\ InFlight(s) = x - u
        /\ e.written \in Nat /\ 2 * (e.written + 2) < SeqSpace
    BY <1>3, Positions
  <2>2. s.sndUna \in SeqNums /\ e.own \in SeqNums /\ SeqSpace \in Nat /\ TxBufferSize \in Nat
    BY LooseFields, Sizes DEF EnvOK
  <2>3. d \in Nat
    BY <2>2, MinusIs
  <2>4. d <= x - u /\ u + d < SeqSpace
    <3> HIDE DEF u, x, d
    <3>1. d <= InFlight(s)
      BY DEF d
    <3> QED BY <2>1, <2>2, <2>3, <3>1
  <2>5. v = u + d
    BY <2>2, <2>4, MinusAdds
  <2>6. e.written + 1 <= u + TxBufferSize
    BY <1>3 DEF Placed
  <2>7. /\ s.iss = e.own /\ 1 <= x
        /\ \/ x + s.sndUser = e.written + 1
           \/ e.shut /\ s.sndUser = 0 /\ x = e.written + 2
    BY <1>3 DEF Placed
  <2>8. Minus(t.sndUna, e.own) = v /\ Minus(t.sndNxt, e.own) = x /\ v <= e.low
    BY <1>1
  <2> HIDE DEF u, x, d, v
  <2>9. v <= x /\ e.written + 1 <= v + TxBufferSize
    BY <2>1, <2>2, <2>3, <2>4, <2>5, <2>6
  <2> QED BY <1>1, <2>7, <2>8, <2>9 DEF Placed
<1>5. Stored(t, e)
  BY <1>1, <1>3 DEF Stored
<1>6. Ready(t, e)
  BY <1>1, <1>4, <1>5 DEF Speaks, Ready
<1>7. \A q : HeaderGood(q, s, e) => HeaderGood(q, t, e)
  BY <1>1, <1>2 DEF HeaderGood
<1>8. \A g : SegmentGood(g, s, e) => SegmentGood(g, t, e)
  BY <1>2 DEF SegmentGood
<1> QED BY <1>1, <1>6, <1>7, <1>8 DEF Speaks

\* What is acknowledged leaves the queue.
LEMMA UpdateQueueSpeaks ==
    ASSUME NEW s, Loose(s), NEW e, Speaks(s, e)
    PROVE  /\ Differs(s, UpdateRetransmitQueue(s), {"queue"})
           /\ Speaks(UpdateRetransmitQueue(s), e)
<1> DEFINE t == UpdateRetransmitQueue(s)
           S == {q \in Headers : HeaderGood(q, s, e)}
<1>1. s.queue \in Seq(Headers) /\ DOMAIN s = SocketFields
  BY LooseFields
<1>2. s.queue \in Seq(S)
  <2>1. \A i \in 1 .. Len(s.queue) : s.queue[i] \in S
    BY <1>1 DEF Speaks
  <2> QED BY <1>1, <2>1
<1>3. Differs(s, t, {"queue"}) /\ t.queue = PendingSegments(s)
  BY <1>1 DEF UpdateRetransmitQueue, Differs, AlikeBut, Core, SocketFields
<1>4. PendingSegments(s) \in Seq(S)
  <2> HIDE DEF S
  <2> QED BY <1>2, PendingOf
<1>5. s.queue = <<>> => PendingSegments(s) = <<>>
  <2> SUFFICES ASSUME s.queue = <<>> PROVE PendingSegments(s) = <<>>
    OBVIOUS
  <2> DEFINE T == {q \in Headers : FALSE}
  <2>1. s.queue \in Seq(T)
    OBVIOUS
  <2>2. T = {}
    OBVIOUS
  <2> HIDE DEF T
  <2>3. PendingSegments(s) \in Seq(T)
    BY <2>1, PendingOf
  <2>4. \A p \in Seq({}) : p = <<>>
    OBVIOUS
  <2> QED BY <2>2, <2>3, <2>4
<1> HIDE DEF t
<1>6. Speaks(t, e)
  <2>1. AlikeBut(s, t, {"queue", "out"}) /\ t.out = s.out
    BY <1>3 DEF Differs, AlikeBut, Core
  <2>2. \A i \in DOMAIN t.queue : HeaderGood(t.queue[i], s, e)
    BY <1>3, <1>4
  <2>3. ~s.owned \/ s.state = "TIME_WAIT" => t.queue = <<>>
    BY <1>3, <1>5 DEF Speaks, Ready
  <2>4. \A i \in DOMAIN t.out : SegmentGood(t.out[i], s, e)
    BY <2>1 DEF Speaks
  <2> QED BY <2>1, <2>2, <2>3, <2>4, SpeaksAnew
<1> QED BY <1>3, <1>6 DEF t

-----------------------------------------------------------------------------
(* Acknowledgments *)

\* An operation that changes what is in F only, and nothing that should be said.
Talks(s, t, F, e) == Differs(s, t, F) /\ Speaks(t, e)

LEMMA SameTalks ==
    ASSUME NEW s, NEW t, NEW u, NEW F, NEW e, Talks(s, t, F, e), Differs(t, u, {"probing"}),
           "probing" \in F
    PROVE  Talks(s, u, F, e)
<1>1. Differs(s, u, F)
  BY DEF Talks, Differs, AlikeBut
<1>2. Speaks(u, e)
  BY SpeaksOfSame DEF Talks
<1> QED BY <1>1, <1>2 DEF Talks

Answers == {"probing", "sndUna", "queue", "out"}

LEMMA RetransmitTalks ==
    ASSUME NEW s, NEW t, NEW e, EnvOK(e), Talks(s, t, Answers, e), Loose(t)
    PROVE  Talks(s, RetransmitSegment(t), Answers, e)
<1>1. Speaks(RetransmitSegment(t), e)
  BY RetransmitSegmentSpeaks DEF Talks
<1>2. Differs(t, RetransmitSegment(t), {"out"})
  BY LooseFields, RetransmitSegmentDiffers
<1>3. Differs(s, RetransmitSegment(t), Answers)
  BY <1>2 DEF Talks, Differs, AlikeBut, Answers
<1> QED BY <1>1, <1>3 DEF Talks

LEMMA TalksOfSame ==
    ASSUME NEW s, NEW t, NEW u, NEW e, Talks(s, t, Answers, e), Differs(t, u, {})
    PROVE  Talks(s, u, Answers, e)
<1>1. Differs(t, u, {"probing"}) /\ "probing" \in Answers
  BY DEF Differs, AlikeBut, Answers
<1> QED BY <1>1, SameTalks

LEMMA FastRecoveryTalks ==
    ASSUME NEW s, NEW t, NEW e, EnvOK(e), Talks(s, t, Answers, e), Loose(t),
           NEW seg, NEW n
    PROVE  /\ Talks(s, FastRecovery(t, seg, n), Answers, e)
           /\ Talks(s, FastLossRecovery(t, seg), Answers, e)
<1> DEFINE r == RetransmitSegment(t)
           deflated == IF r.cwnd > n THEN r.cwnd - n ELSE r.cwnd
           cwnd == deflated + (IF n >= Mss THEN Mss ELSE 0)
<1>1. Talks(s, r, Answers, e)
  BY RetransmitTalks
<1>2. DOMAIN r = SocketFields /\ DOMAIN t = SocketFields
  BY <1>1, LooseFields DEF Talks, Differs
<1>3. FastRecovery(t, seg, n) =
        IF After(seg.ack, t.recover)
        THEN [t EXCEPT !.cwnd = TxBufferSize, !.congestState = "IDLE"]
        ELSE [r EXCEPT !.cwnd = cwnd]
  BY DEF FastRecovery
<1>4. FastLossRecovery(t, seg) =
        IF After(seg.ack, t.recover) THEN [t EXCEPT !.congestState = "IDLE"] ELSE r
  BY DEF FastLossRecovery
<1> HIDE DEF r, cwnd
<1>5. /\ Differs(t, [t EXCEPT !.cwnd = TxBufferSize, !.congestState = "IDLE"], {})
      /\ Differs(t, [t EXCEPT !.congestState = "IDLE"], {})
      /\ Differs(r, [r EXCEPT !.cwnd = cwnd], {})
  BY <1>2, CongestionDiffers
<1>6. /\ Talks(s, [t EXCEPT !.cwnd = TxBufferSize, !.congestState = "IDLE"], Answers, e)
      /\ Talks(s, [t EXCEPT !.congestState = "IDLE"], Answers, e)
      /\ Talks(s, [r EXCEPT !.cwnd = cwnd], Answers, e)
  BY <1>1, <1>5, TalksOfSame
<1> QED BY <1>1, <1>3, <1>4, <1>6

LEMMA AckNewDataTalks ==
    ASSUME NEW s, NEW t, NEW e, EnvOK(e), Talks(s, t, Answers, e), Loose(t), t.owned,
           NEW seg \in Segments, Minus(seg.ack, t.sndUna) <= InFlight(t),
           Minus(seg.ack, e.own) <= e.low
    PROVE  /\ Talks(s, AckNewData(t, seg), Answers, e)
           /\ AckNewData(t, seg).sndUna = seg.ack
<1> DEFINE n == Minus(seg.ack, t.sndUna) - (IF t.sndUna = t.iss THEN 1 ELSE 0)
           r == [t EXCEPT !.sndUna = seg.ack]
           q == UpdateRetransmitQueue(r)
           u == [q EXCEPT !.dupAckCount = 0]
           v == IF t.congestState = "LOSS_RECOVERY" THEN FastLossRecovery(u, seg) ELSE u
           w == IF t.congestState = "RECOVERY" THEN FastRecovery(q, seg, n)
                ELSE [v EXCEPT !.cwnd = @ + Least(n, Mss)]
<1>1. AckNewData(t, seg) = CutCwnd(w)
  BY DEF AckNewData
<1>2. seg.ack \in SeqNums /\ DOMAIN t = SocketFields
  BY SegmentFields, LooseFields
<1>3. Differs(t, r, {"sndUna"}) /\ r.sndUna = seg.ack /\ Loose(r)
  <2>1. Differs(t, r, {"sndUna"}) /\ r.sndUna = seg.ack
    BY <1>2 DEF Differs, AlikeBut, Core, SocketFields
  <2>2. SendOK(r)
    BY <1>2 DEF Loose, SendOK, SocketFields
  <2>3. SameRest(t, r)
    BY <1>2 DEF SameRest, SameReceiver, SameBlocks, SameWaiter, SocketFields
  <2> QED BY <2>1, <2>2, <2>3, SameRestFits
<1>4. Speaks(r, e)
  BY <1>2, <1>3, AdvanceSpeaks DEF Talks, Differs
<1> HIDE DEF r
<1>5. Talks(s, r, Answers, e)
  BY <1>3, <1>4 DEF Talks, Differs, AlikeBut, Answers
<1>6. Talks(s, q, Answers, e) /\ Loose(q) /\ q.sndUna = seg.ack
  <2>1. Differs(r, q, {"queue"}) /\ Speaks(q, e)
    BY <1>3, <1>4, UpdateQueueSpeaks
  <2>2. Loose(q) /\ q.sndUna = r.sndUna
    BY <1>3, UpdateRetransmitQueueFits
  <2> QED BY <1>3, <1>5, <2>1, <2>2 DEF Talks, Differs, AlikeBut, Answers
<1> HIDE DEF q
<1>7. Talks(s, u, Answers, e) /\ Loose(u) /\ u.sndUna = seg.ack
  <2>1. DOMAIN q = SocketFields
    BY <1>6, LooseFields
  <2>2. Differs(q, u, {})
    BY <2>1, CongestionDiffers
  <2>3. 0 \in 0 .. FastRetransmitThres
    BY DEF FastRetransmitThres
  <2>4. Loose(u)
    BY <1>6, <2>3, DupAckCountFits
  <2>5. u.sndUna = q.sndUna
    BY <2>2 DEF Differs, AlikeBut, Core
  <2> QED BY <1>6, <2>2, <2>4, <2>5, TalksOfSame
<1> HIDE DEF u
<1>8. Talks(s, v, Answers, e) /\ v.sndUna = seg.ack
  <2>1. Talks(u, u, Answers, e)
    BY <1>7, AlikeSelf DEF Talks, Differs
  <2>2. Talks(s, FastLossRecovery(u, seg), Answers, e)
    BY <1>7, FastRecoveryTalks
  <2>3. FastLossRecovery(u, seg).sndUna = u.sndUna
    <3>1. Differs(u, RetransmitSegment(u), {"out"}) /\ Differs(u, [u EXCEPT !.congestState = "IDLE"], {})
      BY <1>7, LooseFields, RetransmitSegmentDiffers, CongestionDiffers
    <3> QED BY <3>1 DEF FastLossRecovery, Differs, AlikeBut, Core
  <2> QED BY <1>7, <2>2, <2>3
<1> HIDE DEF v
<1>9. Talks(s, w, Answers, e) /\ w.sndUna = seg.ack
  <2>1. CASE t.congestState = "RECOVERY"
    <3>1. w = FastRecovery(q, seg, n)
      BY <2>1
    <3> HIDE DEF w, n
    <3>2. Talks(s, FastRecovery(q, seg, n), Answers, e)
      BY <1>6, FastRecoveryTalks
    <3>3. FastRecovery(q, seg, n).sndUna = q.sndUna
      <4> DEFINE y == RetransmitSegment(q)
      <4>1. Differs(q, y, {"out"}) /\ DOMAIN q = SocketFields
        BY <1>6, LooseFields, RetransmitSegmentDiffers
      <4>2. DOMAIN y = SocketFields /\ y.sndUna = q.sndUna
        BY <4>1 DEF Differs, AlikeBut, Core
      <4> HIDE DEF y
      <4> QED BY <4>1, <4>2 DEF FastRecovery, y, SocketFields
    <3> QED BY <1>6, <3>1, <3>2, <3>3
  <2>2. CASE t.congestState # "RECOVERY"
    <3> DEFINE cwnd == v.cwnd + Least(n, Mss)
    <3>1. w = [v EXCEPT !.cwnd = cwnd]
      BY <2>2
    <3> HIDE DEF cwnd
    <3>2. Differs(v, [v EXCEPT !.cwnd = cwnd], {})
      BY <1>8, CongestionDiffers DEF Talks, Differs
    <3>3. [v EXCEPT !.cwnd = cwnd].sndUna = v.sndUna
      BY <3>2 DEF Differs, AlikeBut, Core
    <3> QED BY <1>8, <3>1, <3>2, <3>3, TalksOfSame
  <2> QED BY <2>1, <2>2
<1> HIDE DEF w
<1>10. Differs(w, CutCwnd(w), {})
  BY <1>9, CongestionDiffers DEF Talks, Differs
<1>11. CutCwnd(w).sndUna = w.sndUna
  BY <1>10 DEF Differs, AlikeBut, Core
<1> QED BY <1>1, <1>9, <1>10, <1>11, TalksOfSame

LEMMA AckOldDataTalks ==
    ASSUME NEW s, NEW t, NEW e, EnvOK(e), Talks(s, t, Answers, e), Loose(t),
           NEW seg, NEW duplicate
    PROVE  Talks(s, AckOldData(t, seg, duplicate), Answers, e)
<1> DEFINE count == IF duplicate THEN Least(t.dupAckCount + 1, FastRetransmitThres) ELSE 0
           u == [t EXCEPT !.dupAckCount = count]
           lossLikely == /\ u.dupAckCount >= DupAckThreshold(u)
                         /\ After(seg.ack, Plus(u.recover, 1))
           w == IF t.congestState = "IDLE" /\ lossLikely THEN FastRetransmit(u)
                ELSE IF t.congestState = "RECOVERY" /\ duplicate
                THEN [u EXCEPT !.cwnd = @ + Mss]
                ELSE u
<1>1. AckOldData(t, seg, duplicate) = CutCwnd(w)
  BY DEF AckOldData
<1>2. DOMAIN t = SocketFields
  BY LooseFields
<1>3. count \in 0 .. FastRetransmitThres
  BY DEF FastRetransmitThres, Least, Loose, SendOK
<1> HIDE DEF count
<1>4. Talks(s, u, Answers, e) /\ Loose(u) /\ u.sndNxt = t.sndNxt
  <2>1. Differs(t, u, {})
    BY <1>2, CongestionDiffers
  <2>2. Loose(u) /\ u.sndNxt = t.sndNxt
    BY <1>3, DupAckCountFits
  <2> QED BY <2>1, <2>2, TalksOfSame
<1>5. DOMAIN u = SocketFields
  BY <1>4, LooseFields
<1> HIDE DEF u
<1>6. Talks(s, FastRetransmit(u), Answers, e)
  <2> DEFINE recover == Minus(u.sndNxt, 1)
             r == [u EXCEPT !.recover = recover, !.cwnd = TxBufferSize,
                            !.congestState = "RECOVERY"]
  <2>1. recover \in SeqNums /\ TxBufferSize \in Nat
    BY <1>4, LooseFields, MinusOf, Sizes
  <2>2. FastRetransmit(u) = RetransmitSegment(r)
    BY DEF FastRetransmit
  <2> HIDE DEF recover
  <2>3. Loose(r)
    BY <1>4, <2>1, CongestionFits
  <2>4. Differs(u, r, {})
    BY <1>5, CongestionDiffers
  <2> HIDE DEF r
  <2>5. Talks(s, r, Answers, e)
    BY <1>4, <2>4, TalksOfSame
  <2> QED BY <2>2, <2>3, <2>5, RetransmitTalks
<1>7. Talks(s, [u EXCEPT !.cwnd = @ + Mss], Answers, e)
  <2> DEFINE cwnd == u.cwnd + Mss
  <2>1. Differs(u, [u EXCEPT !.cwnd = cwnd], {})
    <3> HIDE DEF cwnd
    <3> QED BY <1>5, CongestionDiffers
  <2> QED BY <1>4, <2>1, TalksOfSame
<1>8. Talks(s, w, Answers, e)
  <2> HIDE DEF lossLikely
  <2> QED BY <1>4, <1>6, <1>7
<1> HIDE DEF w
<1>9. Differs(w, CutCwnd(w), {})
  BY <1>8, CongestionDiffers DEF Talks, Differs
<1> QED BY <1>1, <1>8, <1>9, TalksOfSame

LEMMA CheckAckTalks ==
    ASSUME NEW s, Loose(s), NEW e, EnvOK(e), Speaks(s, e), s.owned,
           NEW seg \in Segments, ~AckRefused(s, seg), "RST" \notin seg.flags,
           AckBelow(seg, e.own, e.low)
    PROVE  Talks(s, CheckAck(s, seg), Answers, e)
<1> DEFINE t == UpdateSendWindow(s, seg)
           duplicate == IsDuplicateAck(s, seg)
           w == IF After(seg.ack, s.sndUna) THEN AckNewData(t, seg)
                ELSE AckOldData(t, seg, duplicate)
<1>1. DOMAIN s = SocketFields /\ s.sndUna \in SeqNums /\ s.sndNxt \in SeqNums
      /\ seg.ack \in SeqNums
  BY LooseFields, SegmentFields
<1>2. Talks(s, s, Answers, e)
  BY <1>1, AlikeSelf DEF Talks, Differs
<1>3. CASE Before(seg.ack, s.sndUna)
  BY <1>2, <1>3 DEF CheckAck
<1>4. CASE ~Before(seg.ack, s.sndUna)
  <2>1. CheckAck(s, seg) = UpdateEvents(w)
    BY <1>4 DEF CheckAck
  <2>2. Differs(s, t, {"probing"}) /\ Loose(t)
    BY <1>1, WindowsDiffer, UpdateSendWindowFits
  <2>3. /\ t.sndUna = s.sndUna /\ t.sndNxt = s.sndNxt /\ t.owned = s.owned
    BY <2>2 DEF Differs, AlikeBut, Core
  <2> HIDE DEF t
  <2>4. Talks(s, t, Answers, e)
    BY <1>2, <2>2, SameTalks DEF Answers
  <2>5. ASSUME After(seg.ack, s.sndUna)
        PROVE  Talks(s, AckNewData(t, seg), Answers, e)
    <3>1. InFlight(s) <= TxBufferSize + 1 /\ InFlight(t) = InFlight(s)
      BY <2>3, Positions DEF Speaks, Ready, InFlight
    <3>2. ~After(seg.ack, s.sndNxt) /\ "ACK" \in seg.flags
      BY <1>4 DEF AckRefused
    <3> DEFINE most == TxBufferSize + 1
    <3>3. most \in Mosts
      BY DEF Mosts
    <3> HIDE DEF most
    <3>4. InFlight(s) <= most
      BY <3>1 DEF most
    <3>5. Minus(seg.ack, s.sndUna) <= InFlight(s)
      BY <1>1, <1>4, <3>2, <3>3, <3>4, AckedOf
    <3>6. Minus(seg.ack, t.sndUna) <= InFlight(t)
      BY <2>3, <3>1, <3>5
    <3>7. Minus(seg.ack, e.own) <= e.low
      BY <3>2 DEF AckBelow
    <3> QED BY <2>2, <2>3, <2>4, <3>6, <3>7, AckNewDataTalks
  <2>6. Talks(s, AckOldData(t, seg, duplicate), Answers, e)
    <3> HIDE DEF duplicate
    <3> QED BY <2>2, <2>4, AckOldDataTalks
  <2>7. Talks(s, w, Answers, e)
    BY <2>5, <2>6
  <2> HIDE DEF w
  <2>8. Differs(w, UpdateEvents(w), {})
    BY <2>7, EventsDiffer DEF Talks, Differs
  <2> QED BY <2>1, <2>7, <2>8, TalksOfSame
<1> QED BY <1>3, <1>4

-----------------------------------------------------------------------------
(* Data *)

\* What is in one sequence and then another.
LEMMA PlacedSpeaks ==
    ASSUME NEW s, NEW e, Speaks(s, e), NEW t, AlikeBut(s, t, {"sndNxt", "sndUser"}),
           t.owned => Placed(t, e)
    PROVE  Speaks(t, e)
<1>1. /\ t.owned = s.owned /\ t.state = s.state /\ t.iss = s.iss
      /\ t.rcvNxt = s.rcvNxt /\ t.queue = s.queue /\ t.txBuffer = s.txBuffer /\ t.out = s.out
  BY DEF AlikeBut, Core
<1>2. Limit(t, e.reads, e.peer) = Limit(s, e.reads, e.peer)
  BY <1>1 DEF Limit
<1>3. Stored(s, e) => Stored(t, e)
  BY <1>1 DEF Stored
<1>4. Ready(t, e)
  BY <1>1, <1>3 DEF Speaks, Ready
<1>5. \A q : HeaderGood(q, s, e) => HeaderGood(q, t, e)
  BY <1>1, <1>2 DEF HeaderGood
<1>6. \A g : SegmentGood(g, s, e) => SegmentGood(g, t, e)
  BY <1>2 DEF SegmentGood
<1> QED BY <1>1, <1>4, <1>5, <1>6 DEF Speaks

\* A header of data not sent yet.
LEMMA DataIsGood ==
    ASSUME NEW s, Loose(s), NEW e, EnvOK(e), Speaks(s, e), s.state \in Hearing,
           NEW k \in Nat, NEW length \in 1 .. Mss, k + length <= s.sndUser
    PROVE  LET q == Header(s, {"ACK"}, Plus(s.sndNxt, k), s.rcvNxt, length)
           IN  q \in Headers /\ HeaderGood(q, s, e) /\ s.owned
<1> DEFINE flags == {"ACK"}
           seqNum == Plus(s.sndNxt, k)
           q == Header(s, flags, seqNum, s.rcvNxt, length)
           x == Minus(s.sndNxt, e.own)
<1>1. s.owned /\ s.txBuffer # Released
  BY DEF Speaks, Ready, Hearing
<1>2. Placed(s, e)
  BY <1>1 DEF Speaks, Ready
<1>3. /\ x \in Nat /\ 1 <= x /\ x <= e.written + 2
      /\ e.written \in Nat /\ 2 * (e.written + 2) < SeqSpace
      /\ s.sndUser > 0 => x + s.sndUser = e.written + 1
  BY <1>2, Positions
<1>4. /\ s.sndNxt \in SeqNums /\ s.rcvNxt \in SeqNums /\ e.own \in SeqNums /\ SeqSpace \in Nat
      /\ s.sndUser \in Nat /\ Mss \in Nat
  BY LooseFields, Sizes DEF EnvOK
<1> HIDE DEF x
<1>5. s.sndUser > 0 /\ x + k + length <= e.written + 1
  BY <1>3, <1>4
<1>6. k \in 0 .. SeqSpace - 1 /\ k \in Int /\ x + k < SeqSpace
  BY <1>3, <1>4, <1>5
<1>7. seqNum \in SeqNums /\ Minus(seqNum, e.own) = x + k
  BY <1>4, <1>6, PlusOf, MinusOfPlus DEF x
<1> HIDE DEF seqNum
<1>8. flags \in SUBSET Flags /\ flags = {"ACK"}
  BY DEF Flags
<1> HIDE DEF flags
<1>9. length \in 0 .. Mss
  BY <1>4
<1>10. q \in Headers
  <2>1. s.rcvWnd \in 0 .. RxBufferSize
    BY Sizes DEF Loose, ReceiveOK
  <2> QED BY <1>4, <1>7, <1>8, <1>9, <2>1, HeaderOf
<1>11. q.flags = {"ACK"} /\ q.seq = seqNum /\ q.ack = s.rcvNxt /\ q.length = length
  BY <1>8 DEF Header
<1> HIDE DEF q
<1>12. HeaderRight(q, e)
  <2>1. Minus(q.seq, e.own) = x + k /\ 1 <= x + k /\ x + k + q.length <= e.written + 1
    BY <1>3, <1>5, <1>7, <1>11
  <2> QED BY <1>11, <2>1 DEF HeaderRight
<1>13. AckBelow(q, e.peer, Limit(s, e.reads, e.peer))
  BY <1>4, <1>11, AckOwn
<1> QED BY <1>1, <1>10, <1>12, <1>13 DEF HeaderGood, q, flags, seqNum

Speech == {"sndNxt", "sndUser", "queue", "out"}

LEMMA SendDataTalks ==
    ASSUME NEW s, Loose(s), NEW e, EnvOK(e), Speaks(s, e), s.state \in Hearing,
           NEW amount \in Int, amount <= s.sndUser
    PROVE  Talks(s, SendData(s, amount), Speech, e)
<1> DEFINE t == SendData(s, amount)
<1>1. DOMAIN s = SocketFields /\ s.queue \in Seq(Headers) /\ s.out \in Seq(Segments)
      /\ s.sndNxt \in SeqNums /\ s.rcvNxt \in SeqNums /\ s.sndUser \in Nat
      /\ s.sndUser <= TxBufferSize /\ TxBufferSize \in Nat /\ Mss \in Nat /\ Mss >= 1
  BY LooseFields, Sizes
<1>2. s.owned /\ s.state # "TIME_WAIT"
  BY DEF Speaks, Ready, Hearing
<1>3. CASE amount <= 0
  <2>1. t = s
    BY <1>3 DEF SendData
  <2> QED BY <1>1, <2>1, AlikeSelf DEF Talks, Differs
<1>4. CASE ~(amount <= 0) /\ Fails(s)
  <2> DEFINE flags == {"ACK"}
             length == Least(Mss, amount)
             queued == TRUE
             zero == 0
             seqNum == Plus(s.sndNxt, zero)
             q == Header(s, flags, seqNum, s.rcvNxt, length)
  <2>1. length \in 1 .. Mss /\ zero \in Nat /\ zero + length <= s.sndUser /\ zero = 0
        /\ zero \in Int
    BY <1>1, <1>4 DEF Least
  <2>2. seqNum = s.sndNxt
    <3>1. s.sndNxt \in 0 .. SeqSpace - 1 /\ SeqSpace \in Nat /\ zero \in 0 .. SeqSpace
      BY <1>1, <2>1, Sizes DEF SeqNums
    <3> HIDE DEF zero
    <3>2. Plus(s.sndNxt, zero) = IF s.sndNxt + zero < SeqSpace THEN s.sndNxt + zero
                                 ELSE s.sndNxt + zero - SeqSpace
      BY <1>1, <2>1, <3>1, PlusOf
    <3> QED BY <2>1, <3>1, <3>2
  <2> HIDE DEF zero, length
  <2>3. q \in Headers /\ HeaderGood(q, s, e)
    BY <2>1, DataIsGood
  <2>4. SegmentGood(Segment(s, q), s, e)
    BY <1>2, <2>3, HeaderSends DEF Speaks
  <2>5. flags \in SUBSET Flags /\ queued \in BOOLEAN /\ length \in 0 .. Mss
        /\ q = Header(s, flags, s.sndNxt, s.rcvNxt, length)
    BY <1>1, <2>1, <2>2 DEF Flags
  <2> HIDE DEF q, seqNum, flags, queued
  <2>6. Speaks(SendSegment(s, flags, s.sndNxt, s.rcvNxt, length, queued), e)
    BY <1>1, <1>2, <2>3, <2>4, <2>5, SendSegmentSpeaks
  <2>7. t = SendSegment(s, flags, s.sndNxt, s.rcvNxt, length, queued)
    BY <1>4 DEF SendData, flags, length, queued
  <2>8. Differs(s, t, {"queue", "out"})
    BY <1>1, <2>7, SendSegmentDiffers
  <2>9. Differs(s, t, Speech)
    BY <2>8 DEF Differs, AlikeBut, Speech
  <2> QED BY <2>6, <2>7, <2>9 DEF Talks
<1>5. CASE ~(amount <= 0) /\ ~Fails(s)
  <2> DEFINE count == (amount + Mss - 1) \div Mss
             Data(i) == Header(s, {"ACK"}, Plus(s.sndNxt, (i - 1) * Mss), s.rcvNxt,
                               Least(Mss, amount - (i - 1) * Mss))
             queue == s.queue \o [i \in 1 .. count |-> Data(i)]
             out == s.out \o [i \in 1 .. count |-> Segment(s, Data(i))]
             nxt == Plus(s.sndNxt, amount)
             left == s.sndUser - amount
             r == [s EXCEPT !.queue = queue, !.out = out]
  <2>1. /\ DOMAIN t = SocketFields /\ t.queue = queue /\ t.out = out
        /\ t.sndNxt = nxt /\ t.sndUser = left
        /\ \A f \in SocketFields \ {"queue", "out", "sndNxt", "sndUser",
                                    "retransmitTimer", "retransmitCount"} : t[f] = s[f]
    BY <1>1, <1>5 DEF SendData, SocketFields
  <2>2. amount \in 1 .. TxBufferSize
    BY <1>1, <1>5
  <2>3. /\ count \in 1 .. 2
        /\ \A i \in 1 .. count :
             /\ (i - 1) * Mss \in Int
             /\ Least(Mss, amount - (i - 1) * Mss) \in 1 .. Mss
    BY <2>2, CutAtMss
  <2> HIDE DEF count
  <2>4. ASSUME NEW i \in 1 .. count
        PROVE  Data(i) \in Headers /\ HeaderGood(Data(i), s, e) /\ Segment(s, Data(i)) \in Segments
               /\ SegmentGood(Segment(s, Data(i)), s, e)
    <3> DEFINE k == (i - 1) * Mss
               length == Least(Mss, amount - k)
    <3>1. k \in Int /\ length \in 1 .. Mss
      BY <2>3
    <3>2. k \in Nat
      BY <1>1, <2>3
    <3>3. k + length <= s.sndUser
      <4> HIDE DEF k
      <4> QED BY <1>1, <1>5, <3>1 DEF Least
    <3> HIDE DEF k, length
    <3>4. LET q == Header(s, {"ACK"}, Plus(s.sndNxt, k), s.rcvNxt, length)
          IN  q \in Headers /\ HeaderGood(q, s, e)
      BY <3>1, <3>2, <3>3, DataIsGood
    <3>5. Data(i) \in Headers /\ HeaderGood(Data(i), s, e)
      BY <3>4 DEF k, length
    <3> HIDE DEF Data
    <3>6. Segment(s, Data(i)) \in Segments
      BY <3>5, LooseFields, SegmentOf
    <3>7. SegmentGood(Segment(s, Data(i)), s, e)
      BY <1>2, <3>5, HeaderSends DEF Speaks
    <3> QED BY <3>5, <3>6, <3>7
  <2> HIDE DEF Data
  <2>5. ASSUME NEW i \in DOMAIN queue
        PROVE  HeaderGood(queue[i], s, e)
    <3> DEFINE more == [j \in 1 .. count |-> Data(j)]
    <3>1. more \in Seq(Headers) /\ Len(more) = count
      BY <2>3, <2>4
    <3>2. \A j \in 1 .. count : more[j] = Data(j)
      OBVIOUS
    <3>3. queue = s.queue \o more
      OBVIOUS
    <3> HIDE DEF more, queue
    <3>4. \/ i \in DOMAIN s.queue /\ queue[i] = s.queue[i]
          \/ i - Len(s.queue) \in 1 .. Len(more) /\ queue[i] = more[i - Len(s.queue)]
      BY <1>1, <3>1, <3>3, Joined
    <3> QED BY <2>4, <3>1, <3>2, <3>4 DEF Speaks
  <2>6. ASSUME NEW i \in DOMAIN out
        PROVE  SegmentGood(out[i], s, e)
    <3> DEFINE more == [j \in 1 .. count |-> Segment(s, Data(j))]
    <3>1. more \in Seq(Segments) /\ Len(more) = count
      BY <2>3, <2>4
    <3>2. \A j \in 1 .. count : more[j] = Segment(s, Data(j))
      OBVIOUS
    <3>3. out = s.out \o more
      OBVIOUS
    <3> HIDE DEF more, out
    <3>4. \/ i \in DOMAIN s.out /\ out[i] = s.out[i]
          \/ i - Len(s.out) \in 1 .. Len(more) /\ out[i] = more[i - Len(s.out)]
      BY <1>1, <3>1, <3>3, Joined
    <3> QED BY <2>4, <3>1, <3>2, <3>4 DEF Speaks
  <2> HIDE DEF queue, out
  <2>7. /\ DOMAIN r = SocketFields /\ r.queue = queue /\ r.out = out
        /\ \A f \in SocketFields \ {"queue", "out"} : r[f] = s[f]
    BY <1>1 DEF SocketFields
  <2> HIDE DEF r
  <2>8. AlikeBut(s, r, {"queue", "out"})
    BY <2>7 DEF AlikeBut, Core, SocketFields
  <2>9. Speaks(r, e)
    BY <1>2, <2>5, <2>6, <2>7, <2>8, SpeaksAnew
  <2> HIDE DEF t
  <2>10. AlikeBut(r, t, {"sndNxt", "sndUser"})
    BY <2>1, <2>7 DEF AlikeBut, Core, SocketFields
  <2>11. Differs(s, t, Speech)
    BY <2>1 DEF Differs, AlikeBut, Core, SocketFields, Speech
  <2>12. Placed(t, e)
    <3> DEFINE x == Minus(s.sndNxt, e.own)
               u == Minus(s.sndUna, e.own)
    <3>1. Placed(s, e)
      BY <1>2 DEF Speaks, Ready
    <3>2. /\ x \in Nat /\ u \in Nat /\ u <= x /\ 1 <= x /\ x <= e.written + 2
          /\ e.written \in Nat /\ 2 * (e.written + 2) < SeqSpace
          /\ s.sndUser > 0 => x + s.sndUser = e.written + 1
      BY <3>1, Positions
    <3>3. s.iss = e.own /\ u <= e.low /\ e.written + 1 <= u + TxBufferSize
      BY <3>1 DEF Placed
    <3>4. t.iss = s.iss /\ t.sndUna = s.sndUna
      BY <2>11 DEF Differs, AlikeBut, Core, Speech
    <3>5. Minus(nxt, e.own) = x + amount
      <4>1. s.sndNxt \in SeqNums /\ e.own \in SeqNums /\ SeqSpace \in Nat
        BY <1>1, Sizes DEF EnvOK
      <4> HIDE DEF x, u
      <4>2. x + s.sndUser = e.written + 1 /\ amount \in 0 .. SeqSpace - 1 /\ x + amount < SeqSpace
        BY <1>1, <1>5, <3>2, <4>1
      <4> QED BY <4>1, <4>2, MinusOfPlus DEF x
    <3>6. Minus(t.sndNxt, e.own) = x + amount /\ Minus(t.sndUna, e.own) = u
          /\ t.sndUser = s.sndUser - amount
      BY <2>1, <3>4, <3>5
    <3> HIDE DEF x, u
    <3>7. /\ u <= x + amount /\ 1 <= x + amount
          /\ (x + amount) + (s.sndUser - amount) = e.written + 1
      BY <1>1, <1>5, <3>2
    <3> QED BY <3>3, <3>4, <3>6, <3>7 DEF Placed
  <2>13. Speaks(t, e)
    BY <2>9, <2>10, <2>12, PlacedSpeaks
  <2> QED BY <2>11, <2>13 DEF Talks, t
<1> QED BY <1>3, <1>4, <1>5

\* What the sending half of an operation changes.
Sending == {"probing", "sndUna", "sndNxt", "sndUser", "queue", "out"}

LEMMA TalksMore ==
    ASSUME NEW s, NEW t, NEW F, NEW G, NEW e, Talks(s, t, F, e), F \subseteq G
    PROVE  Talks(s, t, G, e)
BY DEF Talks, Differs, AlikeBut

LEMMA TalksSelf ==
    ASSUME NEW s, DOMAIN s = SocketFields, NEW e, Speaks(s, e), NEW F
    PROVE  Talks(s, s, F, e)
BY AlikeSelf DEF Talks, Differs

LEMMA TalksOf ==
    ASSUME NEW s, NEW t, NEW u, NEW e, NEW F, Talks(s, t, F, e), Differs(t, u, F), Speaks(u, e)
    PROVE  Talks(s, u, F, e)
BY DEF Talks, Differs, AlikeBut

LEMMA EventsTalk ==
    ASSUME NEW s, NEW t, NEW e, NEW F, Talks(s, t, F, e), NEW mask
    PROVE  /\ Talks(s, UpdateEvents(t), F, e)
           /\ Talks(s, WaitForEvents(t, mask), F, e)
           /\ Talks(s, Unwatched(t), F, e)
<1>1. DOMAIN t = SocketFields
  BY DEF Talks, Differs
<1>2. /\ Differs(t, UpdateEvents(t), {}) /\ Differs(t, WaitForEvents(t, mask), {})
      /\ Differs(t, Unwatched(t), {})
  BY <1>1, EventsDiffer
<1>3. \A u : Differs(t, u, {}) => Talks(s, u, F, e)
  <2> SUFFICES ASSUME NEW u, Differs(t, u, {}) PROVE Talks(s, u, F, e)
    OBVIOUS
  <2>1. Differs(t, u, {"probing"}) /\ Differs(t, u, F)
    BY DEF Differs, AlikeBut
  <2>2. Speaks(u, e)
    BY <2>1, SpeaksOfSame DEF Talks
  <2> QED BY <2>1, <2>2, TalksOf
<1> QED BY <1>2, <1>3

LEMMA NagleTalks ==
    ASSUME NEW s, NEW t, NEW e, EnvOK(e), Talks(s, t, Sending, e), Loose(t),
           t.state \in Hearing, NEW noDelay
    PROVE  /\ Talks(s, NagleAlgo(t, noDelay), Sending, e)
           /\ Talks(s, OverrideTimeout(t), Sending, e)
<1>1. ASSUME NEW amount \in Int, amount <= t.sndUser
      PROVE  Talks(s, SendData(t, amount), Sending, e)
  <2>1. Talks(t, SendData(t, amount), Speech, e)
    BY <1>1, SendDataTalks DEF Talks
  <2>2. Speech \subseteq Sending
    BY DEF Speech, Sending
  <2>3. Differs(t, SendData(t, amount), Sending)
    BY <2>1, <2>2 DEF Talks, Differs, AlikeBut
  <2> QED BY <2>1, <2>3, TalksOf DEF Talks
<1> DEFINE amount == NagleAmount(t, noDelay)
           due == Least(t.sndUser, UsableWindow(t))
<1>2. amount \in Int /\ amount <= t.sndUser
  BY NagleAmountOf
<1>3. due \in Int /\ due <= t.sndUser
  BY UsableWindowOf, LooseFields DEF Least
<1> HIDE DEF amount, due
<1>4. Talks(s, SendData(t, amount), Sending, e) /\ Talks(s, SendData(t, due), Sending, e)
  BY <1>1, <1>2, <1>3
<1> DEFINE u == SendData(t, amount)
           v == SendData(t, due)
<1> HIDE DEF u, v
<1>5. Talks(s, u, Sending, e) /\ Talks(s, UpdateEvents(u), Sending, e)
      /\ Talks(s, UpdateEvents(v), Sending, e)
  BY <1>4, EventsTalk DEF u, v
<1>6. NagleAlgo(t, noDelay) \in {u, UpdateEvents(u)}
  BY DEF NagleAlgo, amount, u
<1>7. OverrideTimeout(t) = UpdateEvents(v)
  BY DEF OverrideTimeout, due, v
<1> QED BY <1>5, <1>6, <1>7

LEMMA SendPendingTalks ==
    ASSUME NEW s, NEW t, NEW e, EnvOK(e), Talks(s, t, Sending, e), Loose(t),
           t.state \in Hearing
    PROVE  Talks(s, SendPending(t), Sending, e)
BY NagleTalks DEF SendPending

LEMMA LimitIs ==
    ASSUME NEW s, s.rcvNxt \in SeqNums, NEW e, EnvOK(e)
    PROVE  /\ Limit(s, e.reads, e.peer) \in Nat /\ Limit(s, e.reads, e.peer) <= SeqSpace
           /\ ~e.reads \/ s.state \notin Hearing => Limit(s, e.reads, e.peer) = SeqSpace
           /\ e.reads /\ s.state \in Hearing =>
                Limit(s, e.reads, e.peer) = Minus(s.rcvNxt, e.peer)
<1>1. Minus(s.rcvNxt, e.peer) \in 0 .. SeqSpace - 1 /\ SeqSpace \in Nat
  BY MinusIs DEF EnvOK
<1> QED BY <1>1 DEF Limit

LEMMA AckRaised ==
    ASSUME NEW g, g.ack \in SeqNums, NEW peer \in SeqNums, NEW a \in Nat, NEW b \in Nat,
           a <= b, AckBelow(g, peer, a)
    PROVE  AckBelow(g, peer, b)
<1>1. Minus(g.ack, peer) \in 0 .. SeqSpace - 1 /\ SeqSpace \in Nat
  BY MinusIs
<1> QED BY <1>1 DEF AckBelow

\* The receiver moves on: what is queued and sent stays right.
LEMMA SpeaksOn ==
    ASSUME NEW s, Loose(s), NEW e, EnvOK(e), Speaks(s, e),
           NEW t, t.queue = s.queue, t.out = s.out, t.txBuffer = s.txBuffer, Ready(t, e),
           t.rcvNxt \in SeqNums,
           Limit(s, e.reads, e.peer) <= Limit(t, e.reads, e.peer)
    PROVE  Speaks(t, e)
<1> DEFINE a == Limit(s, e.reads, e.peer)
           b == Limit(t, e.reads, e.peer)
<1>1. a \in Nat /\ b \in Nat /\ a <= b
  BY LimitIs, LooseFields
<1>2. e.peer \in SeqNums
  BY DEF EnvOK
<1>3. ASSUME NEW i \in DOMAIN s.queue
      PROVE  HeaderGood(s.queue[i], t, e)
  <2> DEFINE q == s.queue[i]
  <2>1. q \in Headers /\ HeaderGood(q, s, e)
    BY LooseFields DEF Speaks
  <2>2. q.ack \in SeqNums
    BY <2>1, HeaderFields
  <2> HIDE DEF q, a, b
  <2>3. AckBelow(q, e.peer, a)
    BY <2>1 DEF HeaderGood, a
  <2>4. AckBelow(q, e.peer, b)
    BY <1>1, <1>2, <2>2, <2>3, AckRaised
  <2>5. HeaderGood(q, t, e)
    BY <2>1, <2>4 DEF HeaderGood, b
  <2> QED BY <2>5 DEF q
<1>4. ASSUME NEW i \in DOMAIN s.out
      PROVE  SegmentGood(s.out[i], t, e)
  <2> DEFINE g == s.out[i]
  <2>1. g \in Segments /\ SegmentGood(g, s, e)
    BY LooseFields DEF Speaks
  <2>2. g.ack \in SeqNums
    BY <2>1, SegmentFields
  <2> HIDE DEF g, a, b
  <2>3. AckBelow(g, e.peer, a)
    BY <2>1 DEF SegmentGood, a
  <2>4. AckBelow(g, e.peer, b)
    BY <1>1, <1>2, <2>2, <2>3, AckRaised
  <2>5. SegmentGood(g, t, e)
    BY <2>1, <2>4 DEF SegmentGood, b
  <2> QED BY <2>5 DEF g
<1> QED BY <1>3, <1>4 DEF Speaks

\* The state changes: the sender does not.
LEMMA ChangeStateSpeaks ==
    ASSUME NEW s, Loose(s), NEW e, EnvOK(e), Speaks(s, e), NEW newState,
           s.owned \/ newState \in {"CLOSED", "LISTEN", "TIME_WAIT"},
           newState = "TIME_WAIT" => s.queue = <<>>,
           newState \in {"SYN_SENT"} \cup Hearing => s.txBuffer # Released,
           \/ ~e.reads
           \/ newState \notin Hearing
           \/ s.state \in Hearing
    PROVE  Speaks(ChangeState(s, newState), e)
<1> DEFINE t == ChangeState(s, newState)
<1>1. Differs(s, t, {"state", "closedFlag"}) /\ t.state = newState
  BY LooseFields, EventsDiffer
<1> HIDE DEF t
<1>2. /\ t.owned = s.owned /\ t.iss = s.iss
      /\ t.sndUna = s.sndUna /\ t.sndNxt = s.sndNxt /\ t.sndUser = s.sndUser
      /\ t.rcvNxt = s.rcvNxt
      /\ t.queue = s.queue /\ t.txBuffer = s.txBuffer /\ t.out = s.out
  BY <1>1 DEF Differs, AlikeBut, Core
<1>3. /\ Placed(s, e) => Placed(t, e)
      /\ Stored(s, e) => Stored(t, e)
  BY <1>2 DEF Placed, Stored
<1>4. Ready(t, e)
  BY <1>1, <1>2, <1>3 DEF Speaks, Ready
<1>5. s.rcvNxt \in SeqNums /\ t.rcvNxt = s.rcvNxt
  BY <1>2, LooseFields
<1>6. Limit(s, e.reads, e.peer) <= Limit(t, e.reads, e.peer)
  BY <1>1, <1>5, LimitIs
<1>7. Speaks(t, e)
  BY <1>2, <1>4, <1>5, <1>6, SpeaksOn
<1> QED BY <1>7 DEF t

-----------------------------------------------------------------------------
(* Receiving *)

\* Positions in the stream of the peer are ordered as sequence numbers are.
LEMMA StreamOrder ==
    ASSUME NEW e, EnvOK(e), NEW x \in SeqNums, NEW y \in SeqNums,
           Minus(x, e.peer) <= e.theirs + 1 + RxBufferSize,
           Minus(y, e.peer) <= e.theirs + 1 + RxBufferSize
    PROVE  /\ Before(x, y) <=> Minus(x, e.peer) < Minus(y, e.peer)
           /\ After(x, y) <=> Minus(y, e.peer) < Minus(x, e.peer)
           /\ Minus(x, e.peer) <= Minus(y, e.peer) =>
                Minus(y, x) = Minus(y, e.peer) - Minus(x, e.peer)
<1> DEFINE w == e.theirs + 1 + RxBufferSize
<1>1. e.peer \in SeqNums /\ w \in Nat /\ 2 * w < SeqSpace
  BY Sizes DEF EnvOK, Short
<1> HIDE DEF w
<1>2. Minus(x, e.peer) <= w /\ Minus(y, e.peer) <= w
  BY DEF w
<1> QED BY <1>1, <1>2, OrderOf

LEMMA HeardOf ==
    ASSUME NEW s, Loose(s), NEW e, EnvOK(e), Heard(s, e)
    PROVE  LET r == Minus(s.rcvNxt, e.peer)
           IN  /\ r \in Nat /\ r = e.got + s.rcvUser + 1 /\ r <= e.theirs + 1
               /\ e.got \in Nat /\ s.rcvUser \in Nat /\ s.rcvWnd \in Nat /\ e.theirs \in Nat
               /\ RxBufferSize \in Nat /\ SeqSpace \in Nat
               /\ r + s.rcvWnd <= e.got + 1 + RxBufferSize
               /\ r + s.rcvWnd <= e.theirs + 1 + RxBufferSize
               /\ 2 * (e.theirs + RxBufferSize + 2) < SeqSpace
               /\ s.rcvNxt \in SeqNums /\ e.peer \in SeqNums
<1>1. /\ s.rcvNxt \in SeqNums /\ e.peer \in SeqNums /\ s.rcvUser \in Nat /\ s.rcvWnd \in Nat
      /\ s.rcvUser + s.rcvWnd <= RxBufferSize /\ RxBufferSize \in Nat /\ SeqSpace \in Nat
      /\ e.got \in Nat /\ e.theirs \in Nat /\ 2 * (e.theirs + RxBufferSize + 2) < SeqSpace
  BY LooseFields, Sizes DEF EnvOK, Short
<1>2. Minus(s.rcvNxt, e.peer) \in Nat
  BY <1>1, MinusIs
<1> QED BY <1>1, <1>2 DEF Heard

\* What is in the window is ahead of rcvNxt in the stream.
LEMMA PositionOf ==
    ASSUME NEW s, Loose(s), NEW e, EnvOK(e), Heard(s, e), NEW x \in SeqNums,
           Offset(s, x) <= s.rcvWnd
    PROVE  Minus(x, e.peer) = Minus(s.rcvNxt, e.peer) + Offset(s, x)
<1> DEFINE r == Minus(s.rcvNxt, e.peer)
           d == Offset(s, x)
<1>1. /\ r \in Nat /\ s.rcvWnd \in Nat /\ e.theirs \in Nat /\ RxBufferSize \in Nat
      /\ SeqSpace \in Nat /\ r + s.rcvWnd <= e.theirs + 1 + RxBufferSize
      /\ 2 * (e.theirs + RxBufferSize + 2) < SeqSpace
      /\ s.rcvNxt \in SeqNums /\ e.peer \in SeqNums
  BY HeardOf
<1>2. d \in Nat
  BY <1>1, OffsetsAreNats
<1>3. r + d < SeqSpace
  <2> HIDE DEF r
  <2> QED BY <1>1, <1>2
<1>4. Minus(s.rcvNxt, e.peer) + Minus(x, s.rcvNxt) < SeqSpace
  BY <1>3 DEF Offset
<1>5. Minus(x, e.peer) = Minus(s.rcvNxt, e.peer) + Minus(x, s.rcvNxt)
  BY <1>1, <1>4, MinusAdds
<1> QED BY <1>5 DEF Offset

\* The data that is kept is what was written, each unit at its place.
LEMMA TrimmedIsRight ==
    ASSUME NEW s, Loose(s), NEW e, EnvOK(e), Heard(s, e), NEW seg \in Segments,
           seg.data # <<>>, Acceptable(s, seg),
           SegmentRight(seg, e.peer, e.theirs, e.over, Minus(s.rcvNxt, e.peer))
    PROVE  LET end == Plus(seg.seq, Len(seg.data))
               limit == Plus(s.rcvNxt, s.rcvWnd)
               left == IF Before(seg.seq, s.rcvNxt) THEN s.rcvNxt ELSE seg.seq
               right == IF After(end, limit) THEN limit ELSE end
               skipped == Minus(left, seg.seq)
               data == SubSeq(seg.data, skipped + 1, skipped + Minus(right, left))
               r == Minus(s.rcvNxt, e.peer)
           IN  /\ left \in SeqNums /\ right \in SeqNums
               /\ Offset(s, left) <= Offset(s, right) /\ Offset(s, right) <= s.rcvWnd
               /\ r + Offset(s, right) <= e.theirs + 1
               /\ data \in Seq(Nat) /\ Len(data) = Offset(s, right) - Offset(s, left)
               /\ \A k \in 1 .. Len(data) : data[k] = r + Offset(s, left) + k - 1
<1> DEFINE n == Len(seg.data)
           end == Plus(seg.seq, n)
           limit == Plus(s.rcvNxt, s.rcvWnd)
           left == IF Before(seg.seq, s.rcvNxt) THEN s.rcvNxt ELSE seg.seq
           right == IF After(end, limit) THEN limit ELSE end
           skipped == Minus(left, seg.seq)
           d == Minus(right, left)
           data == SubSeq(seg.data, skipped + 1, skipped + d)
           r == Minus(s.rcvNxt, e.peer)
           p == Minus(seg.seq, e.peer)
           a == Offset(s, left)
           b == Offset(s, right)
           w == e.theirs + 1 + RxBufferSize
<1>1. /\ r \in Nat /\ r <= e.theirs + 1
      /\ s.rcvWnd \in Nat /\ e.theirs \in Nat /\ RxBufferSize \in Nat
      /\ SeqSpace \in Nat /\ r + s.rcvWnd <= e.theirs + 1 + RxBufferSize
      /\ 2 * (e.theirs + RxBufferSize + 2) < SeqSpace
      /\ s.rcvNxt \in SeqNums /\ e.peer \in SeqNums
  BY HeardOf
<1>2. /\ seg.seq \in SeqNums /\ seg.data \in Seq(Nat) /\ n \in Nat /\ n >= 1
  BY SegmentFields
<1>3. /\ p \in Nat /\ 1 <= p /\ p + n <= e.theirs + 1
      /\ \A k \in 1 .. n : seg.data[k] = p + k - 1 \/ p + k - 1 < r
  BY <1>1, <1>2, MinusIs DEF SegmentRight
<1>4. /\ left \in SeqNums /\ right \in SeqNums /\ a <= b /\ b <= s.rcvWnd
  BY TrimmedToWindow DEF Loose
<1>5. end \in SeqNums /\ Minus(end, e.peer) = p + n
  <2> HIDE DEF p, n
  <2>1. n \in 0 .. SeqSpace - 1 /\ n \in Int /\ p + n < SeqSpace
    BY <1>1, <1>2, <1>3
  <2>2. Plus(seg.seq, n) \in SeqNums
    BY <1>2, <2>1, PlusOf
  <2>3. Minus(seg.seq, e.peer) + n < SeqSpace
    BY <2>1 DEF p
  <2>4. Minus(Plus(seg.seq, n), e.peer) = Minus(seg.seq, e.peer) + n
    BY <1>1, <1>2, <2>1, <2>3, MinusOfPlus
  <2> QED BY <2>2, <2>4 DEF p
<1>6. limit \in SeqNums /\ Minus(limit, e.peer) = r + s.rcvWnd
  <2> DEFINE m == s.rcvWnd
  <2> HIDE DEF r, m
  <2>1. m \in 0 .. SeqSpace - 1 /\ m \in Int /\ r + m < SeqSpace
    <3> DEFINE y == e.theirs
    <3>1. /\ r \in Nat /\ m \in Nat /\ y \in Nat /\ RxBufferSize \in Nat /\ SeqSpace \in Nat
          /\ r + m <= y + 1 + RxBufferSize /\ 2 * (y + RxBufferSize + 2) < SeqSpace
      BY <1>1 DEF m
    <3> HIDE DEF y
    <3> QED BY <3>1
  <2>2. Plus(s.rcvNxt, m) \in SeqNums
    BY <1>1, <2>1, PlusOf
  <2>3. Minus(s.rcvNxt, e.peer) + m < SeqSpace
    BY <2>1 DEF r
  <2>4. Minus(Plus(s.rcvNxt, m), e.peer) = Minus(s.rcvNxt, e.peer) + m
    BY <1>1, <2>1, <2>3, MinusOfPlus
  <2> QED BY <2>2, <2>4 DEF r, m
<1>7. Minus(left, e.peer) = r + a /\ Minus(right, e.peer) = r + b /\ a \in Nat /\ b \in Nat
  <2> HIDE DEF left, right
  <2>1. a \in Nat /\ b \in Nat
    BY <1>1, <1>4, OffsetsAreNats
  <2>2. Offset(s, left) <= s.rcvWnd /\ Offset(s, right) <= s.rcvWnd
    BY <1>1, <1>4, <2>1
  <2> QED BY <1>4, <2>1, <2>2, PositionOf
<1>8. Minus(s.rcvNxt, e.peer) <= w /\ Minus(seg.seq, e.peer) <= w /\ Minus(end, e.peer) <= w
      /\ Minus(limit, e.peer) <= w /\ Minus(left, e.peer) <= w /\ Minus(right, e.peer) <= w
  <2> DEFINE m == s.rcvWnd
             z == e.theirs
  <2> HIDE DEF r, p, a, b, n, left, right, end, limit
  <2>1. r <= w /\ p <= w /\ p + n <= w /\ r + s.rcvWnd <= w /\ r + a <= w /\ r + b <= w
    <3>1. /\ r \in Nat /\ m \in Nat /\ z \in Nat /\ p \in Nat /\ n \in Nat /\ a \in Nat
          /\ b \in Nat /\ RxBufferSize \in Nat
          /\ r + m <= z + 1 + RxBufferSize /\ p + n <= z + 1 /\ a <= b /\ b <= m
          /\ w = z + 1 + RxBufferSize
      BY <1>1, <1>2, <1>3, <1>4, <1>7
    <3> HIDE DEF m, z, w
    <3>2. r <= w /\ p <= w /\ p + n <= w /\ r + m <= w /\ r + a <= w /\ r + b <= w
      BY <3>1
    <3> QED BY <3>2 DEF m
  <2>2. Minus(s.rcvNxt, e.peer) = r /\ Minus(seg.seq, e.peer) = p
    BY DEF r, p
  <2> HIDE DEF w
  <2> QED BY <1>5, <1>6, <1>7, <2>1, <2>2
<1> HIDE DEF end, limit
<1>9. /\ Before(seg.seq, s.rcvNxt) <=> p < r
      /\ After(end, limit) <=> r + s.rcvWnd < p + n
  <2>1. Before(seg.seq, s.rcvNxt) <=> Minus(seg.seq, e.peer) < Minus(s.rcvNxt, e.peer)
    BY <1>1, <1>2, <1>8, StreamOrder
  <2>2. After(end, limit) <=> Minus(limit, e.peer) < Minus(end, e.peer)
    BY <1>5, <1>6, <1>8, StreamOrder
  <2> QED BY <1>5, <1>6, <2>1, <2>2
<1>10. r + a >= p /\ r + a >= r /\ r + b <= p + n
  <2>1. p < r => left = s.rcvNxt
    BY <1>9
  <2>2. ~(p < r) => left = seg.seq
    BY <1>9
  <2>3. r + s.rcvWnd < p + n => right = limit
    BY <1>9
  <2>4. ~(r + s.rcvWnd < p + n) => right = end
    BY <1>9
  <2>5. Minus(s.rcvNxt, e.peer) = r /\ Minus(seg.seq, e.peer) = p
    OBVIOUS
  <2> HIDE DEF left, right, r, p, a, b
  <2> QED BY <1>1, <1>2, <1>3, <1>5, <1>6, <1>7, <2>1, <2>2, <2>3, <2>4, <2>5
<1>11. skipped = r + a - p
  <2> HIDE DEF left
  <2>1. Minus(seg.seq, e.peer) <= Minus(left, e.peer) =>
            Minus(left, seg.seq) = Minus(left, e.peer) - Minus(seg.seq, e.peer)
    BY <1>2, <1>4, <1>8, StreamOrder
  <2>2. p <= r + a
    <3> HIDE DEF r, a, p
    <3> QED BY <1>1, <1>3, <1>7, <1>10
  <2>3. Minus(left, e.peer) = r + a /\ Minus(seg.seq, e.peer) = p /\ Minus(left, seg.seq) = skipped
    BY <1>7
  <2>4. r \in Int /\ a \in Int /\ p \in Int
    BY <1>1, <1>3, <1>7
  <2> HIDE DEF r, a, p, skipped
  <2> QED BY <2>1, <2>2, <2>3, <2>4
<1>12. d = b - a
  <2> HIDE DEF left, right
  <2>1. Minus(left, e.peer) <= Minus(right, e.peer) =>
            Minus(right, left) = Minus(right, e.peer) - Minus(left, e.peer)
    BY <1>4, <1>8, StreamOrder
  <2>2. (r + b) - (r + a) = b - a /\ r + a <= r + b
    <3> HIDE DEF r, a, b
    <3> QED BY <1>1, <1>4, <1>7
  <2> QED BY <1>7, <2>1, <2>2
<1> HIDE DEF left, right, r, p, a, b, n, skipped, d
<1>13. skipped \in Nat /\ d \in Nat /\ skipped + d <= n
  BY <1>1, <1>2, <1>3, <1>4, <1>7, <1>10, <1>11, <1>12
<1>14. /\ data \in Seq(Nat) /\ Len(data) = d
       /\ \A k \in 1 .. d : data[k] = seg.data[skipped + k]
  <2>1. n = Len(seg.data)
    BY DEF n
  <2>2. \A i \in 1 .. d : skipped + i \in 1 .. n
    BY <1>2, <1>13
  <2>3. data = [i \in 1 .. d |-> seg.data[skipped + i]]
    <3>1. data = [i \in 1 .. 1 + ((skipped + d) - (skipped + 1)) |->
                    seg.data[i + (skipped + 1) - 1]]
      BY <1>2, <1>13, <2>1
    <3>2. 1 + ((skipped + d) - (skipped + 1)) = d
      BY <1>13
    <3>3. \A i \in 1 .. d : i + (skipped + 1) - 1 = skipped + i
      BY <1>13
    <3> QED BY <3>1, <3>2, <3>3
  <2> HIDE DEF data
  <2>4. \A i \in 1 .. d : seg.data[skipped + i] \in Nat
    BY <1>2, <2>1, <2>2
  <2> QED BY <1>13, <2>3, <2>4
<1>15. ASSUME NEW k \in 1 .. d
       PROVE  data[k] = r + a + k - 1
  <2> DEFINE i == skipped + k
  <2>1. i \in 1 .. n /\ p + i - 1 = r + a + k - 1 /\ ~(p + i - 1 < r)
    <3>1. r \in Nat /\ p \in Nat /\ a \in Nat /\ n \in Nat
      BY <1>1, <1>2, <1>3, <1>7
    <3> QED BY <1>11, <1>13, <3>1
  <2>2. data[k] = seg.data[i]
    BY <1>14
  <2> HIDE DEF i, data
  <2>3. seg.data[i] = p + i - 1
    BY <1>3, <2>1
  <2> QED BY <2>1, <2>2, <2>3
<1>16. r + b <= e.theirs + 1
  BY <1>1, <1>2, <1>3, <1>7, <1>10
<1> HIDE DEF data
<1>17. /\ left \in SeqNums /\ right \in SeqNums /\ a <= b /\ b <= s.rcvWnd
       /\ r + b <= e.theirs + 1
       /\ data \in Seq(Nat) /\ Len(data) = b - a
       /\ \A k \in 1 .. Len(data) : data[k] = r + a + k - 1
  BY <1>4, <1>12, <1>14, <1>15, <1>16
<1> QED BY <1>17 DEF left, right, r, a, b, data, skipped, d, end, limit, n

\* What is written keeps what the buffer holds, and holds what was written.
LEMMA BufferHolds ==
    ASSUME NEW s, Loose(s), NEW e, EnvOK(e), Heard(s, e), s.irs = e.peer,
           s.rxBuffer \in Ring(RxBufferSize), NEW left \in SeqNums, NEW data \in Seq(Nat),
           Offset(s, left) + Len(data) <= s.rcvWnd,
           \A k \in 1 .. Len(data) :
                data[k] = Minus(s.rcvNxt, e.peer) + Offset(s, left) + k - 1
    PROVE  LET b == WriteBuffer(s.rxBuffer, s.irs, left, data)
               o == Minus(s.rcvNxt, e.peer) + Offset(s, left)
           IN  /\ b \in Ring(RxBufferSize)
               /\ \A j \in Nat : e.got + 1 <= j /\ j <= e.got + RxBufferSize =>
                    ((o <= j /\ j < o + Len(data)) \/ Holds(s.rxBuffer, j) => Holds(b, j))
<1> DEFINE r == Minus(s.rcvNxt, e.peer)
           a == Offset(s, left)
           n == Len(data)
           m == RxBufferSize
           o == r + a
           g == e.got
           w == s.rcvWnd
           old == s.rxBuffer
           b == WriteBuffer(old, s.irs, left, data)
<1>1. /\ r \in Nat /\ g \in Nat /\ r >= g + 1 /\ w \in Nat /\ m \in Nat \ {0}
      /\ r + w <= g + 1 + m
  <2>1. r \in Nat /\ g \in Nat /\ r = g + s.rcvUser + 1 /\ s.rcvUser \in Nat
    BY HeardOf
  <2>2. w \in Nat /\ m \in Nat /\ r + w <= g + 1 + m
    BY HeardOf
  <2>3. m # 0
    BY Sizes
  <2> HIDE DEF r, g, w
  <2>4. r >= g + 1
    BY <2>1
  <2> QED BY <2>1, <2>2, <2>3, <2>4
<1>2. a \in Nat /\ n \in Nat /\ a + n <= w /\ s.irs \in SeqNums /\ s.rcvNxt \in SeqNums
  BY HeardOf, OffsetsAreNats
<1>3. Minus(left, s.irs) = o
  <2>1. Offset(s, left) <= s.rcvWnd
    <3> HIDE DEF a, w, n
    <3>1. a <= w
      BY <1>1, <1>2
    <3> QED BY <3>1 DEF a, w
  <2> QED BY <2>1, PositionOf
<1>4. \A k \in 1 .. n : data[k] = o + k - 1
  OBVIOUS
<1>5. old \in Ring(m)
  OBVIOUS
<1> HIDE DEF r, a, n, g, w, m, old
<1>6. o \in Nat /\ o >= 1 /\ o >= g + 1 /\ o + n <= g + 1 + m
  BY <1>1, <1>2
<1> HIDE DEF o
<1>7. Overwrites(b, old, m, o, data)
  <2> DEFINE x == s.irs
  <2>1. x \in SeqNums /\ Minus(left, x) = o
    BY <1>2, <1>3
  <2>2. b = WriteBuffer(old, x, left, data)
    BY DEF b
  <2> HIDE DEF x, b
  <2>3. /\ m \in Nat \ {0} /\ old \in Ring(m) /\ left \in SeqNums /\ o \in Nat
        /\ o = Minus(left, x) /\ o >= 1 /\ data \in Seq(Nat)
    BY <1>1, <1>5, <1>6, <2>1
  <2>4. Overwrites(WriteBuffer(old, x, left, data), old, m, o, data)
    BY <2>1, <2>3, WriteAt
  <2> QED BY <2>2, <2>4
<1> HIDE DEF b
<1>8. ASSUME NEW j \in Nat, g + 1 <= j, j <= g + m,
             (o <= j /\ j < o + n) \/ Holds(old, j)
      PROVE  Holds(b, j)
  <2>1. CASE j < o
    <3>1. o + n <= j + m /\ ~(o <= j)
      BY <1>1, <1>2, <1>6, <1>8, <2>1
    <3>2. b[(j - 1) % m] = old[(j - 1) % m] /\ Holds(old, j)
      BY <1>7, <1>8, <2>1, <3>1 DEF n, Overwrites
    <3> QED BY <3>2 DEF Holds, m
  <2>2. CASE o <= j /\ j < o + n
    <3>1. j < o + m /\ j - o + 1 \in 1 .. n /\ o + (j - o + 1) - 1 = j
      BY <1>1, <1>2, <1>6, <1>8, <2>2
    <3>2. b[(j - 1) % m] = data[j - o + 1]
      BY <1>7, <2>2, <3>1 DEF n, Overwrites
    <3>3. data[j - o + 1] = j
      <4> DEFINE k == j - o + 1
      <4>1. k \in 1 .. n /\ o + k - 1 = j
        BY <3>1
      <4> HIDE DEF k
      <4>2. data[k] = j
        BY <1>4, <4>1
      <4> QED BY <4>2 DEF k
    <3> QED BY <3>2, <3>3 DEF Holds, m
  <2>3. CASE o + n <= j
    <3>1. j < o + m /\ o <= j /\ ~(j < o + n)
      BY <1>1, <1>2, <1>6, <1>8, <2>3
    <3>2. b[(j - 1) % m] = old[(j - 1) % m] /\ Holds(old, j)
      BY <1>7, <1>8, <3>1 DEF n, Overwrites
    <3> QED BY <3>2 DEF Holds, m
  <2> QED BY <1>2, <1>6, <2>1, <2>2, <2>3
<1> QED BY <1>7, <1>8 DEF Overwrites, o, r, a, n, g, m, old, b

\* The data, at its place in the stream and in the receive buffer.
Fills(s, e, left, right, data) ==
    /\ left \in SeqNums /\ right \in SeqNums /\ data \in Seq(Nat)
    /\ Offset(s, left) <= Offset(s, right) /\ Offset(s, right) <= s.rcvWnd
    /\ Minus(s.rcvNxt, e.peer) + Offset(s, right) <= e.theirs + 1
    /\ Len(data) = Offset(s, right) - Offset(s, left)
    /\ \A k \in 1 .. Len(data) :
            data[k] = Minus(s.rcvNxt, e.peer) + Offset(s, left) + k - 1

\* What is in the new buffer: what was read of the stream and not consumed, and
\* what the merged blocks say.
LEMMA StoredIsHeld ==
    ASSUME NEW s, Loose(s), NEW e, EnvOK(e), Hears(s, e), e.reads, s.state = "ESTABLISHED",
           NEW low, Apart(s, low), NEW left, NEW right, NEW data, Fills(s, e, left, right, data)
    PROVE  LET b == WriteBuffer(s.rxBuffer, s.irs, left, data)
               r == Minus(s.rcvNxt, e.peer)
           IN  /\ b \in Ring(RxBufferSize)
               /\ \A j \in e.got + 1 .. e.got + s.rcvUser : Holds(b, j)
               /\ InsideAll(s, MergeBlocks(s, left, right),
                            {k \in Nat : Holds(b, r + k)}, e.theirs + 1 - r)
<1> DEFINE b == WriteBuffer(s.rxBuffer, s.irs, left, data)
           r == Minus(s.rcvNxt, e.peer)
           F == {k \in Nat : Holds(b, r + k)}
           top == e.theirs + 1 - r
           g == e.got
           m == RxBufferSize
           w == s.rcvWnd
           u == s.rcvUser
           z == e.theirs
<1>1. /\ s.irs = e.peer /\ s.rxBuffer \in Ring(RxBufferSize) /\ Heard(s, e)
      /\ \A j \in g + 1 .. g + u : Holds(s.rxBuffer, j)
  BY DEF Hears, Hearing, Ring
<1>2. /\ r \in Nat /\ r = g + u + 1 /\ r <= z + 1 /\ g \in Nat /\ u \in Nat /\ w \in Nat
      /\ z \in Nat /\ m \in Nat /\ r + w <= g + 1 + m
  BY <1>1, HeardOf
<1>3. /\ left \in SeqNums /\ right \in SeqNums /\ data \in Seq(Nat)
      /\ Offset(s, left) \in Nat /\ Offset(s, right) \in Nat
      /\ Offset(s, left) <= Offset(s, right) /\ Offset(s, right) <= w
      /\ r + Offset(s, right) <= z + 1
      /\ Len(data) = Offset(s, right) - Offset(s, left)
      /\ \A k \in 1 .. Len(data) : data[k] = r + Offset(s, left) + k - 1
      /\ s.rcvNxt \in SeqNums
  BY <1>1, HeardOf, OffsetsAreNats DEF Fills
<1>4. Offset(s, left) + Len(data) <= w
  BY <1>3
<1> DEFINE o == r + Offset(s, left)
<1>5. /\ b \in Ring(RxBufferSize)
      /\ \A j \in Nat : g + 1 <= j /\ j <= g + m =>
            ((o <= j /\ j < o + Len(data)) \/ Holds(s.rxBuffer, j) => Holds(b, j))
  BY <1>1, <1>3, <1>4, BufferHolds
<1>5a. top = z + 1 - r
  OBVIOUS
<1> HIDE DEF b, g, m, w, u, r, z, top
<1>6. \A j \in g + 1 .. g + u : Holds(b, j)
  <2> HIDE DEF o
  <2>1. ASSUME NEW j \in g + 1 .. g + u
        PROVE  Holds(b, j)
    <3>1. j \in Nat /\ g + 1 <= j /\ j <= g + m
      BY <1>2
    <3> QED BY <1>1, <1>5, <3>1
  <2> QED BY <2>1
<1>7. \A k \in Offset(s, left) .. Offset(s, right) - 1 : k \in F
  <2>1. ASSUME NEW k \in Offset(s, left) .. Offset(s, right) - 1
        PROVE  k \in F
    <3> DEFINE j == r + k
    <3>1. k \in Nat /\ j \in Nat /\ g + 1 <= j /\ j <= g + m /\ o <= j /\ j < o + Len(data)
      BY <1>2, <1>3
    <3> HIDE DEF j, o
    <3>2. Holds(b, j)
      BY <1>5, <3>1
    <3> QED BY <3>1, <3>2 DEF j
  <2> QED BY <2>1
<1>8. \A i \in 1 .. Len(s.sackBlock) : Inside(s, s.sackBlock[i], F, top)
  <2>1. ASSUME NEW i \in 1 .. Len(s.sackBlock)
        PROVE  Inside(s, s.sackBlock[i], F, top)
    <3> DEFINE c == s.sackBlock[i]
    <3>1. s.sackBlock \in Seq(Blocks)
      BY LooseFields
    <3>2. c \in Blocks /\ i \in DOMAIN s.sackBlock /\ Interval(s, c)
      BY <3>1 DEF Apart
    <3>3. /\ r + Offset(s, c.right) <= z + 1
          /\ \A k \in Offset(s, c.left) .. Offset(s, c.right) - 1 : Holds(s.rxBuffer, r + k)
      BY <1>1, <3>2 DEF Heard, r, z
    <3>4. /\ Offset(s, c.left) \in Nat /\ Offset(s, c.right) \in Nat /\ Offset(s, c.right) <= w
      BY <1>3, <3>2, OffsetsAreNats DEF Blocks, Interval, w
    <3> HIDE DEF c
    <3>5. ASSUME NEW k \in Offset(s, c.left) .. Offset(s, c.right) - 1
          PROVE  k \in F
      <4> DEFINE j == r + k
      <4>1. k \in Nat /\ j \in Nat /\ g + 1 <= j /\ j <= g + m /\ Holds(s.rxBuffer, j)
        BY <1>2, <3>3, <3>4
      <4> HIDE DEF j, o
      <4>2. Holds(b, j)
        BY <1>5, <4>1
      <4> QED BY <4>1, <4>2 DEF j
    <3>6. Offset(s, c.right) <= top
      BY <1>2, <1>5a, <3>3, <3>4
    <3> QED BY <3>5, <3>6 DEF Inside, c
  <2> QED BY <2>1
<1>9. Offset(s, right) <= top
  BY <1>2, <1>3, <1>5a
<1> HIDE DEF F
<1>10. InsideAll(s, MergeBlocks(s, left, right), F, top)
  <2>1. ReceiveOK(s) /\ Offset(s, right) <= s.rcvWnd
    BY <1>3 DEF Loose, w
  <2> QED BY <1>3, <1>7, <1>8, <1>9, <2>1, MergeBlocksInside
<1> QED BY <1>5, <1>6, <1>10 DEF F, top, b, r, g, u

\* Which fields of Core the receiver changes.
Taking == {"rcvNxt", "rcvUser", "sackBlock", "rxBuffer"}

LEMMA StoredDiffers ==
    ASSUME NEW s, NEW m, NEW b, NEW q, StoredAs(s, m, b, q)
    PROVE  Differs(s, q, Taking)
BY DEF StoredAs, Differs, AlikeBut, Taking, Storing, Core, SocketFields

LEMMA StoredHears ==
    ASSUME NEW s, Loose(s), NEW e, EnvOK(e), Hears(s, e), e.reads, s.state = "ESTABLISHED",
           NEW low, Apart(s, low), NEW left, NEW right, NEW data, Fills(s, e, left, right, data),
           NEW q, StoredAs(s, MergeBlocks(s, left, right),
                           WriteBuffer(s.rxBuffer, s.irs, left, data), q)
    PROVE  /\ Hears(q, e)
           /\ Minus(s.rcvNxt, e.peer) <= Minus(q.rcvNxt, e.peer)
<1> DEFINE b == WriteBuffer(s.rxBuffer, s.irs, left, data)
           m == MergeBlocks(s, left, right)
           r == Minus(s.rcvNxt, e.peer)
           F == {k \in Nat : Holds(b, r + k)}
           top == e.theirs + 1 - r
           all == <<[left |-> m.left, right |-> m.right]>> \o m.others
           n == Offset(s, m.right)
           g == e.got
           u == s.rcvUser
           w == s.rcvWnd
           z == e.theirs
<1>1. /\ s.irs = e.peer /\ Heard(s, e) /\ s.rcvNxt \in SeqNums /\ e.peer \in SeqNums
      /\ ReceiveOK(s)
  BY LooseFields DEF Hears, Hearing, EnvOK, Loose
<1>2. /\ r \in Nat /\ r = g + u + 1 /\ r <= z + 1 /\ g \in Nat /\ u \in Nat /\ w \in Nat
      /\ z \in Nat /\ r + w <= z + 1 + RxBufferSize /\ RxBufferSize \in Nat
      /\ 2 * (z + RxBufferSize + 2) < SeqSpace /\ SeqSpace \in Nat
  BY <1>1, HeardOf
<1>3. /\ b \in Ring(RxBufferSize) /\ \A j \in g + 1 .. g + u : Holds(b, j)
      /\ InsideAll(s, m, F, top)
  BY StoredIsHeld
<1>4. MergedOK(s, low, m, Len(s.sackBlock))
  BY <1>1, MergeBlocksOf DEF Fills
<1>5. /\ q.irs = e.peer /\ q.state = "ESTABLISHED" /\ q.rxBuffer = b
  BY <1>1 DEF StoredAs, Storing, SocketFields
<1>6. /\ m.left \in SeqNums /\ m.right \in SeqNums /\ m.others \in Seq(Blocks)
      /\ Len(m.others) \in Nat /\ n \in Nat /\ Offset(s, m.left) \in Nat
      /\ Offset(s, m.left) <= n /\ n <= w
  BY <1>1, <1>4, OffsetsAreNats DEF MergedOK, Merges, Interval
<1>7. top = z + 1 - r
  OBVIOUS
<1>8. /\ n <= top /\ \A k \in Offset(s, m.left) .. n - 1 : k \in Nat /\ Holds(b, r + k)
  BY <1>3 DEF InsideAll, Inside
\* What the blocks that are left say, in the old offsets.
<1>9. ASSUME NEW i \in 1 .. Len(m.others)
      PROVE  LET c == m.others[i]
             IN  /\ c.left \in SeqNums /\ c.right \in SeqNums /\ Interval(s, c)
                 /\ Offset(s, c.left) \in Nat /\ Offset(s, c.right) \in Nat
                 /\ Offset(s, c.right) <= top /\ Clear(s, m, c)
                 /\ \A k \in Offset(s, c.left) .. Offset(s, c.right) - 1 : Holds(b, r + k)
  <2> DEFINE c == m.others[i]
  <2>1. c \in Blocks /\ Interval(s, c) /\ Clear(s, m, c)
    BY <1>4, <1>6 DEF MergedOK
  <2>2. Inside(s, c, F, top)
    BY <1>3 DEF InsideAll
  <2> HIDE DEF c
  <2>3. c.left \in SeqNums /\ c.right \in SeqNums
    BY <2>1 DEF Blocks
  <2>4. Offset(s, c.left) \in Nat /\ Offset(s, c.right) \in Nat
    BY <1>1, <2>3, OffsetsAreNats
  <2> QED BY <2>1, <2>2, <2>3, <2>4 DEF Inside, c
<1>10. CASE /\ Offset(s, m.left) > 0
            /\ q.rcvNxt = s.rcvNxt /\ q.rcvUser = s.rcvUser
            /\ q.sackBlock = SubSeq(all, 1, Least(Len(all), MaxSackBlocks))
  <2>1. ASSUME NEW i \in DOMAIN q.sackBlock
        PROVE  LET c == q.sackBlock[i]
               IN  /\ r + Offset(s, c.right) <= z + 1
                   /\ \A k \in Offset(s, c.left) .. Offset(s, c.right) - 1 : Holds(b, r + k)
    <3> DEFINE c == q.sackBlock[i]
               first == [left |-> m.left, right |-> m.right]
               h == Least(Len(all), MaxSackBlocks)
    <3>1. /\ Len(all) = Len(m.others) + 1 /\ all \in Seq(Blocks)
          /\ \A j \in 1 .. Len(all) :
                \/ all[j] = first
                \/ j - 1 \in 1 .. Len(m.others) /\ all[j] = m.others[j - 1]
      <4>1. first \in Blocks
        BY <1>6 DEF Blocks
      <4> HIDE DEF first
      <4>2. <<first>> \in Seq(Blocks) /\ Len(<<first>>) = 1 /\ <<first>>[1] = first
        BY <4>1
      <4>3. all \in Seq(Blocks) /\ Len(all) = 1 + Len(m.others)
        BY <1>6, <4>2, ConcatProperties DEF first
      <4>4. ASSUME NEW j \in 1 .. Len(all)
            PROVE  \/ all[j] = first
                   \/ j - 1 \in 1 .. Len(m.others) /\ all[j] = m.others[j - 1]
        BY <1>6, <4>2, <4>3 DEF first
      <4> QED BY <1>6, <4>3, <4>4
    <3>2. h \in 0 .. Len(all)
      BY <1>6, <3>1, Sizes DEF Least
    <3> HIDE DEF h, first, all
    <3>3. Len(q.sackBlock) = h /\ i \in 1 .. h /\ q.sackBlock[i] = all[i]
      <4>1. \A j \in 1 .. h : all[j] \in Blocks
        BY <1>6, <3>1, <3>2
      <4>2. q.sackBlock = SubSeq(all, 1, h)
        BY <1>10 DEF h, all
      <4>3. Len(q.sackBlock) = h /\ DOMAIN q.sackBlock = 1 .. h
        BY <3>1, <3>2, <4>1, <4>2, SubSeqProperties
      <4> QED BY <3>1, <3>2, <4>1, <4>2, <4>3, SubSeqProperties
    <3>4. i \in 1 .. Len(all)
      BY <1>6, <3>1, <3>2, <3>3
    <3>5. CASE all[i] = first
      <4>1. c.left = m.left /\ c.right = m.right
        BY <3>3, <3>5 DEF first
      <4> HIDE DEF c
      <4>2. Offset(s, c.right) = n /\ Offset(s, c.left) = Offset(s, m.left)
        BY <4>1
      <4> HIDE DEF r, top, n, z, b, m
      <4>3. r + n <= z + 1 /\ \A k \in Offset(s, m.left) .. n - 1 : Holds(b, r + k)
        <5>1. r \in Nat /\ n \in Nat /\ z \in Nat /\ top = z + 1 - r /\ n <= top
          BY <1>2, <1>6, <1>7, <1>8
        <5>2. r + n <= z + 1
          BY <5>1
        <5> QED BY <1>8, <5>2
      <4> QED BY <4>2, <4>3 DEF c
    <3>6. CASE i - 1 \in 1 .. Len(m.others) /\ all[i] = m.others[i - 1]
      <4> DEFINE d == m.others[i - 1]
      <4>1. /\ Offset(s, d.right) \in Nat /\ Offset(s, d.right) <= top
            /\ \A k \in Offset(s, d.left) .. Offset(s, d.right) - 1 : Holds(b, r + k)
        BY <1>9, <3>6
      <4>2. c = d
        BY <3>3, <3>6
      <4> HIDE DEF d, c, b, r, top, z
      <4> QED BY <1>2, <1>7, <4>1, <4>2 DEF c
    <3> QED BY <3>1, <3>4, <3>5, <3>6
  <2>2. Heard(q, e)
    BY <1>1, <1>5, <1>10, <2>1 DEF Heard, Offset
  <2>3. Hears(q, e)
    BY <1>3, <1>5, <1>10, <2>2 DEF Hears, Ring
  <2> QED BY <1>2, <1>10, <2>3
<1>11. CASE /\ Offset(s, m.left) = 0
            /\ q.rcvNxt = Plus(s.rcvNxt, n) /\ q.rcvUser = s.rcvUser + n
            /\ q.sackBlock = m.others
  <2> HIDE DEF b, m, r, top, n, g, u, w, z
  <2>1. n \in 0 .. SeqSpace - 1 /\ r + n < SeqSpace /\ r + n <= z + 1 /\ n \in Int
    BY <1>2, <1>6, <1>7, <1>8
  <2>2. Minus(q.rcvNxt, e.peer) = r + n
    <3>1. Minus(Plus(s.rcvNxt, n), e.peer) = r + n
      BY <1>1, <2>1, MinusOfPlus DEF r
    <3> QED BY <1>11, <3>1
  <2>3. q.rcvUser = u + n
    BY <1>11 DEF u
  <2>4. ASSUME NEW j \in g + 1 .. g + (u + n)
        PROVE  Holds(b, j)
    <3>1. CASE j < r
      <4>1. j \in g + 1 .. g + u
        BY <1>2, <2>1, <3>1
      <4> QED BY <1>3, <4>1 DEF b, g, u
    <3>2. CASE r <= j
      <4> DEFINE k == j - r
      <4>1. k \in Offset(s, m.left) .. n - 1 /\ r + k = j
        BY <1>2, <1>11, <2>1, <3>2
      <4> HIDE DEF k
      <4>2. Holds(b, r + k)
        BY <1>8, <4>1
      <4> QED BY <4>1, <4>2
    <3> QED BY <1>2, <2>1, <3>1, <3>2
  <2>5. ASSUME NEW x \in SeqNums, n <= Offset(s, x), Offset(s, x) <= w
        PROVE  Offset(q, x) = Offset(s, x) - n
    <3> DEFINE v == s.rcvNxt
    <3>1. v \in SeqNums /\ w \in Nat /\ 2 * w < SeqSpace /\ n \in Nat
          /\ n <= Minus(x, v) /\ Minus(x, v) <= w
      BY <1>1, <1>2, <1>6, <2>5 DEF Offset
    <3> HIDE DEF v
    <3>2. Minus(x, Plus(v, n)) = Minus(x, v) - n
      BY <3>1, ClosestOf
    <3> QED BY <1>11, <3>2 DEF Offset, v
  <2>6. ASSUME NEW i \in DOMAIN q.sackBlock
        PROVE  LET c == q.sackBlock[i]
               IN  /\ (r + n) + Offset(q, c.right) <= z + 1
                   /\ \A k \in Offset(q, c.left) .. Offset(q, c.right) - 1 :
                        Holds(b, (r + n) + k)
    <3> DEFINE c == m.others[i]
               x == Offset(s, c.left)
               y == Offset(s, c.right)
    <3>1. i \in 1 .. Len(m.others) /\ q.sackBlock[i] = c
      BY <1>6, <1>11
    <3>2. /\ c.left \in SeqNums /\ c.right \in SeqNums
          /\ x \in Nat /\ y \in Nat /\ x <= y /\ y <= w /\ y <= top
          /\ n < x \/ y < Offset(s, m.left)
          /\ \A k \in x .. y - 1 : Holds(b, r + k)
      BY <1>9, <3>1 DEF Interval, Clear, w, n
    <3>3. n < x
      BY <1>6, <1>11, <3>2
    <3>4. Offset(q, c.left) = x - n /\ Offset(q, c.right) = y - n
      <4>1. n <= Offset(s, c.left) /\ Offset(s, c.left) <= w
            /\ n <= Offset(s, c.right) /\ Offset(s, c.right) <= w
        <5> HIDE DEF x, y
        <5>1. n <= x /\ x <= w /\ n <= y /\ y <= w
          BY <1>2, <1>6, <3>2, <3>3
        <5> QED BY <5>1 DEF x, y
      <4> QED BY <2>5, <3>2, <4>1
    <3> HIDE DEF x, y, c
    <3>5. (r + n) + (y - n) <= z + 1
      BY <1>2, <1>6, <1>7, <3>2
    <3>6. ASSUME NEW k \in x - n .. (y - n) - 1
          PROVE  Holds(b, (r + n) + k)
      <4> DEFINE l == n + k
      <4>1. l \in x .. y - 1 /\ r + l = (r + n) + k
        BY <1>2, <1>6, <3>2
      <4> HIDE DEF l
      <4> QED BY <3>2, <4>1
    <3> QED BY <3>1, <3>4, <3>5, <3>6
  <2>7. Heard(q, e)
    <3>1. g + (u + n) + 1 = r + n /\ r + n <= z + 1
      BY <1>2, <1>6, <2>1
    <3>2. e.got + q.rcvUser + 1 = r + n /\ r + n <= e.theirs + 1 /\ q.rxBuffer = b
      BY <1>5, <2>3, <3>1 DEF g, z, b
    <3>3. \A i \in DOMAIN q.sackBlock :
            LET c == q.sackBlock[i]
            IN  /\ (r + n) + Offset(q, c.right) <= e.theirs + 1
                /\ \A k \in Offset(q, c.left) .. Offset(q, c.right) - 1 :
                        Holds(q.rxBuffer, (r + n) + k)
      BY <2>6, <3>2 DEF z
    <3> QED BY <2>2, <3>2, <3>3 DEF Heard
  <2>8. Hears(q, e)
    <3>1. \A j \in e.got + 1 .. e.got + q.rcvUser : Holds(q.rxBuffer, j)
      BY <1>5, <2>3, <2>4 DEF g, b
    <3>2. q.rxBuffer \in [0 .. RxBufferSize - 1 -> Nat]
      BY <1>3, <1>5 DEF Ring, b
    <3> QED BY <1>5, <2>7, <3>1, <3>2 DEF Hears
  <2>9. r <= r + n
    BY <1>2, <1>6
  <2> QED BY <2>2, <2>8, <2>9 DEF r
<1> QED BY <1>10, <1>11 DEF StoredAs

LEMMA ReadyAlike ==
    ASSUME NEW s, NEW t, NEW F, AlikeBut(s, t, F), NEW e, Ready(s, e),
           F \cap {"owned", "state", "iss", "sndUna", "sndNxt", "sndUser", "queue",
                   "txBuffer"} = {}
    PROVE  Ready(t, e)
<1>1. /\ t.owned = s.owned /\ t.state = s.state /\ t.iss = s.iss
      /\ t.sndUna = s.sndUna /\ t.sndNxt = s.sndNxt /\ t.sndUser = s.sndUser
      /\ t.queue = s.queue /\ t.txBuffer = s.txBuffer
  BY DEF AlikeBut, Core
<1> QED BY <1>1 DEF Ready, Placed, Stored

\* The receiver goes on: it may acknowledge more.
LEMMA TakingSpeaks ==
    ASSUME NEW s, Loose(s), NEW e, EnvOK(e), Speaks(s, e), NEW t, Differs(s, t, Taking),
           t.rcvNxt \in SeqNums,
           e.reads /\ s.state \in Hearing =>
                Minus(s.rcvNxt, e.peer) <= Minus(t.rcvNxt, e.peer)
    PROVE  Speaks(t, e)
<1>1. AlikeBut(s, t, Taking)
  BY DEF Differs
<1>2. t.queue = s.queue /\ t.out = s.out /\ t.txBuffer = s.txBuffer /\ t.state = s.state
  BY <1>1 DEF AlikeBut, Core, Taking
<1>3. Ready(t, e)
  BY <1>1, ReadyAlike DEF Speaks, Taking
<1>4. s.rcvNxt \in SeqNums
  BY LooseFields
<1>5. Limit(s, e.reads, e.peer) <= Limit(t, e.reads, e.peer)
  BY <1>2, <1>4, LimitIs
<1> QED BY <1>2, <1>3, <1>5, SpeaksOn

Taken == Taking \cup {"queue", "out"}

\* What the peer may take as acknowledged grows.
Onward(s, t, e) == Limit(s, e.reads, e.peer) <= Limit(t, e.reads, e.peer)

LEMMA OnwardIf ==
    ASSUME NEW s, s.rcvNxt \in SeqNums, NEW t, t.rcvNxt \in SeqNums, NEW e, EnvOK(e),
           \/ ~e.reads
           \/ t.state \notin Hearing
           \/ s.state \in Hearing /\ Minus(s.rcvNxt, e.peer) <= Minus(t.rcvNxt, e.peer)
           \/ s.state \in Hearing /\ s.rcvNxt = t.rcvNxt
    PROVE  Onward(s, t, e)
<1>1. /\ Limit(s, e.reads, e.peer) \in Nat /\ Limit(s, e.reads, e.peer) <= SeqSpace
      /\ ~e.reads \/ t.state \notin Hearing => Limit(t, e.reads, e.peer) = SeqSpace
      /\ e.reads /\ s.state \in Hearing =>
            Limit(s, e.reads, e.peer) = Minus(s.rcvNxt, e.peer)
      /\ e.reads /\ t.state \in Hearing =>
            Limit(t, e.reads, e.peer) = Minus(t.rcvNxt, e.peer)
  BY LimitIs
<1> QED BY <1>1 DEF Onward

LEMMA StoreDataRight ==
    ASSUME NEW s, Loose(s), NEW e, EnvOK(e), Right(s, e), NEW low \in {0, 1}, Apart(s, low),
           NEW left \in SeqNums, NEW right \in SeqNums,
           Offset(s, left) <= Offset(s, right), Offset(s, right) <= s.rcvWnd, NEW data,
           e.reads /\ s.state \in Hearing =>
                s.state = "ESTABLISHED" /\ Fills(s, e, left, right, data)
    PROVE  LET t == StoreData(s, left, data, UpdateSackBlocks(s, left, right))
           IN  Right(t, e) /\ Differs(s, t, Taken) /\ Onward(s, t, e)
<1> DEFINE t == StoreData(s, left, data, UpdateSackBlocks(s, left, right))
           b == WriteBuffer(s.rxBuffer, s.irs, left, data)
           m == MergeBlocks(s, left, right)
<1>1. PICK q : /\ Loose(q) /\ Apart(q, low)
               /\ StoredAs(s, MergeBlocks(s, left, right),
                           WriteBuffer(s.rxBuffer, s.irs, left, data), q)
               /\ t \in {SendAck(q), UpdateEvents(SendAck(q))}
  BY StoreDataIs
<1> HIDE DEF t
<1>2. Differs(s, q, Taking) /\ q.state = s.state
  BY <1>1, StoredDiffers DEF StoredAs, Storing, SocketFields
<1>3. q.rcvNxt \in SeqNums
  BY <1>1, LooseFields
<1>4. e.reads /\ s.state \in Hearing =>
        Hears(q, e) /\ Minus(s.rcvNxt, e.peer) <= Minus(q.rcvNxt, e.peer)
  BY <1>1, StoredHears DEF Right
<1>5. Hears(q, e)
  BY <1>2, <1>4 DEF Hears
<1>6. Speaks(q, e)
  BY <1>2, <1>3, <1>4, TakingSpeaks DEF Right
<1>7. Speaks(SendAck(q), e) /\ Differs(q, SendAck(q), {"queue", "out"})
  BY <1>1, <1>2, <1>6, SendAckSpeaks, SendAckDiffers DEF Differs
<1>8. Right(SendAck(q), e)
  BY <1>5, <1>7, HearsAlike DEF Right, Differs, HearFields
<1>9. /\ Right(UpdateEvents(SendAck(q)), e)
      /\ Differs(q, UpdateEvents(SendAck(q)), {"queue", "out"})
  <2> DEFINE p == SendAck(q)
  <2>1. Differs(p, UpdateEvents(p), {})
    BY <1>7, EventsDiffer DEF Differs
  <2>2. Differs(p, UpdateEvents(p), {"probing"})
    BY <2>1, DiffersMore
  <2> HIDE DEF p
  <2>3. Right(UpdateEvents(p), e)
    BY <1>8, <2>2, RightAlike DEF p
  <2>4. Differs(q, UpdateEvents(p), {"queue", "out"})
    BY <1>7, <2>1, DiffersOf DEF p
  <2> QED BY <2>3, <2>4 DEF p
<1>10. Right(t, e) /\ Differs(q, t, {"queue", "out"})
  BY <1>1, <1>7, <1>8, <1>9
<1>11. t.rcvNxt = q.rcvNxt /\ t.state = s.state /\ s.rcvNxt \in SeqNums
  BY <1>2, <1>10, LooseFields DEF Differs, AlikeBut, Core
<1>12. Onward(s, t, e)
  <2>1. CASE ~e.reads \/ s.state \notin Hearing
    BY <2>1, <1>3, <1>11, OnwardIf
  <2>2. CASE e.reads /\ s.state \in Hearing
    BY <2>2, <1>3, <1>4, <1>11, OnwardIf
  <2> QED BY <2>1, <2>2
<1> QED BY <1>2, <1>10, <1>12, DiffersOf DEF t, Taken

LEMMA ReceiveTextRight ==
    ASSUME NEW s, Fit(s), s.state \in Receiving, NEW e, EnvOK(e), Right(s, e),
           NEW seg \in Segments, Acceptable(s, seg),
           SegmentRight(seg, e.peer, e.theirs, e.over, Limit(s, e.reads, e.peer))
    PROVE  LET t == ReceiveText(s, seg)
           IN  Right(t, e) /\ Differs(s, t, Taken) /\ Onward(s, t, e)
<1>1. Loose(s) /\ ReceiveOK(s) /\ DOMAIN s = SocketFields
  BY DEF Fit, Bounded, Loose, WaitOK
<1>2. CASE seg.data = <<>>
  <2>1. s.rcvNxt \in SeqNums
    BY <1>1, LooseFields
  <2>2. Onward(s, s, e)
    BY <2>1, LimitIs DEF Onward
  <2> QED BY <1>1, <1>2, <2>2, AlikeSelf DEF ReceiveText, Differs
<1>3. CASE seg.data # <<>>
  <2> DEFINE end == Plus(seg.seq, Len(seg.data))
             limit == Plus(s.rcvNxt, s.rcvWnd)
             left == IF Before(seg.seq, s.rcvNxt) THEN s.rcvNxt ELSE seg.seq
             right == IF After(end, limit) THEN limit ELSE end
             skipped == Minus(left, seg.seq)
             data == SubSeq(seg.data, skipped + 1, skipped + Minus(right, left))
  <2>1. /\ left \in SeqNums /\ right \in SeqNums
        /\ Offset(s, left) <= Offset(s, right) /\ Offset(s, right) <= s.rcvWnd
    BY <1>1, <1>3, TrimmedToWindow
  <2>2. ReceiveText(s, seg) = StoreData(s, left, data, UpdateSackBlocks(s, left, right))
    BY <1>3 DEF ReceiveText, ProcessSegmentData
  <2>3. ASSUME e.reads, s.state \in Hearing
        PROVE  s.state = "ESTABLISHED" /\ Fills(s, e, left, right, data)
    <3>1. s.state = "ESTABLISHED" /\ Heard(s, e)
      BY <2>3 DEF Receiving, Hearing, Right, Hears
    <3>2. SegmentRight(seg, e.peer, e.theirs, e.over, Minus(s.rcvNxt, e.peer))
      BY <2>3 DEF Limit
    <3>3. LET r == Minus(s.rcvNxt, e.peer)
          IN  /\ r + Offset(s, right) <= e.theirs + 1
              /\ data \in Seq(Nat) /\ Len(data) = Offset(s, right) - Offset(s, left)
              /\ \A k \in 1 .. Len(data) : data[k] = r + Offset(s, left) + k - 1
      BY <1>1, <1>3, <3>1, <3>2, TrimmedIsRight
    <3> HIDE DEF left, right, data
    <3> QED BY <2>1, <3>1, <3>3 DEF Fills
  <2> HIDE DEF left, right, data
  <2>4. \E low \in {0, 1} : Apart(s, low)
    BY DEF Fit, BlocksOK, Receiving
  <2> QED BY <1>1, <2>1, <2>2, <2>3, <2>4, StoreDataRight
<1> QED BY <1>2, <1>3

\* Beyond what is received comes the FIN, when it counts.
LEMMA FinIsNext ==
    ASSUME NEW s, Loose(s), NEW e, EnvOK(e), NEW seg \in Segments, NEW low,
           SegmentRight(seg, e.peer, e.theirs, e.over, low), FinReceived(s, seg)
    PROVE  /\ e.over /\ Minus(s.rcvNxt, e.peer) = e.theirs + 1
           /\ Minus(Plus(s.rcvNxt, 1), e.peer) = e.theirs + 2
           /\ Plus(s.rcvNxt, 1) \in SeqNums
<1>1. /\ seg.seq \in SeqNums /\ seg.data = <<>> /\ "FIN" \in seg.flags
      /\ s.rcvNxt = Plus(seg.seq, Len(seg.data))
      /\ e.over /\ Minus(seg.seq, e.peer) = e.theirs + 1
  BY SegmentFields DEF FinReceived, SegmentRight
<1>2. Len(seg.data) = 0
  BY <1>1
<1>3. /\ e.theirs \in Nat /\ 2 * (e.theirs + RxBufferSize + 2) < SeqSpace
      /\ SeqSpace \in Nat /\ RxBufferSize \in Nat /\ e.peer \in SeqNums
  BY Sizes DEF EnvOK, Short
<1>4. Plus(seg.seq, 0) = seg.seq
  <2> DEFINE x == seg.seq
  <2>1. x \in SeqNums /\ x \in Nat /\ x < SeqSpace /\ 0 \in Int /\ 0 \in 0 .. SeqSpace
    BY <1>1, <1>3, SeqNumsAreNats DEF SeqNums
  <2> HIDE DEF x
  <2>2. Plus(x, 0) = IF x + 0 < SeqSpace THEN x + 0 ELSE x + 0 - SeqSpace
    BY <2>1, PlusOf
  <2>3. Plus(x, 0) = x
    BY <1>3, <2>1, <2>2
  <2> QED BY <2>3 DEF x
<1> DEFINE r == s.rcvNxt
           z == e.theirs
<1>5. r = seg.seq
  BY <1>1, <1>2, <1>4
<1>6. r \in SeqNums /\ Minus(r, e.peer) = z + 1
  BY <1>1, <1>5
<1> HIDE DEF r, z
<1>7. Minus(Plus(r, 1), e.peer) = z + 2 /\ Plus(r, 1) \in SeqNums
  <2>1. z \in Nat /\ (z + 1) + 1 < SeqSpace /\ 1 \in 0 .. SeqSpace - 1 /\ (z + 1) + 1 = z + 2
    BY <1>3 DEF z
  <2>2. Minus(Plus(r, 1), e.peer) = (z + 1) + 1
    BY <1>3, <1>6, <2>1, MinusOfPlus
  <2>3. Plus(r, 1) \in SeqNums
    BY <1>6, PlusOf
  <2> QED BY <2>1, <2>2, <2>3
<1> QED BY <1>1, <1>6, <1>7 DEF r, z

\* The acknowledgment of a FIN.
LEMMA AckFinSpeaks ==
    ASSUME NEW s, Loose(s), NEW e, EnvOK(e), Speaks(s, e), Plus(s.rcvNxt, 1) \in SeqNums,
           e.reads /\ s.state \in Hearing =>
                Minus(s.rcvNxt, e.peer) <= Minus(Plus(s.rcvNxt, 1), e.peer)
    PROVE  /\ Speaks(AckFin(s), e) /\ Loose(AckFin(s))
           /\ Differs(s, AckFin(s), {"rcvNxt", "queue", "out"})
           /\ AckFin(s).rcvNxt = Plus(s.rcvNxt, 1)
<1> DEFINE x == Plus(s.rcvNxt, 1)
           t == [s EXCEPT !.rcvNxt = Plus(@, 1)]
<1>1. DOMAIN s = SocketFields /\ SendOK(s) /\ ReceiveOK(s) /\ WaitOK(s)
  BY DEF Loose, WaitOK
<1>2. /\ t.rcvNxt = x /\ DOMAIN t = SocketFields
      /\ \A f \in SocketFields \ {"rcvNxt"} : t[f] = s[f]
  BY <1>1 DEF SocketFields
<1>3. AckFin(s) = SendAck(t)
  BY DEF AckFin
<1> HIDE DEF t
<1>4. Loose(t)
  <2>1. SameSender(s, t) /\ SameWaiter(s, t)
    BY <1>1, <1>2 DEF SameSender, SameWaiter, SocketFields
  <2>2. /\ t.irs = s.irs /\ t.rcvUser = s.rcvUser /\ t.rcvWnd = s.rcvWnd
        /\ t.sackBlock = s.sackBlock
    BY <1>2 DEF SocketFields
  <2>3. ReceiveOK(t)
    BY <1>1, <1>2, <2>2 DEF ReceiveOK
  <2> QED BY <1>1, <2>1, <2>3, SameSenderOK, SameWaiterOK DEF Loose
<1>5. Differs(s, t, {"rcvNxt"})
  BY <1>2 DEF Differs, AlikeBut, Core, SocketFields
<1>6. Differs(s, t, Taking)
  BY <1>5, DiffersMore DEF Taking
<1>7. Speaks(t, e)
  BY <1>2, <1>6, TakingSpeaks
<1>8. Speaks(SendAck(t), e)
  BY <1>4, <1>7, SendAckSpeaks
<1>9. Differs(t, SendAck(t), {"queue", "out"})
  BY <1>2, SendAckDiffers
<1>10. Differs(s, SendAck(t), {"rcvNxt", "queue", "out"})
  BY <1>5, <1>9, DiffersOf
<1>11. SendAck(t).rcvNxt = t.rcvNxt
  BY <1>9 DEF Differs, AlikeBut, Core
<1> QED BY <1>2, <1>3, <1>4, <1>8, <1>10, <1>11, SendAckFits

LEMMA FinOfEstablishedRight ==
    ASSUME NEW s, Fit(s), s.state = "ESTABLISHED", NEW e, EnvOK(e), Right(s, e),
           NEW seg \in Segments,
           SegmentRight(seg, e.peer, e.theirs, e.over, Limit(s, e.reads, e.peer))
    PROVE  LET t == FinOfEstablished(s, seg)
           IN  /\ Right(t, e)
               /\ Differs(s, t, {"rcvNxt", "state", "closedFlag", "queue", "out"})
               /\ t.closedFlag => s.closedFlag
               /\ Onward(s, t, e)
<1> DEFINE t == FinOfEstablished(s, seg)
           F == {"rcvNxt", "state", "closedFlag", "queue", "out"}
<1>1. Loose(s) /\ DOMAIN s = SocketFields /\ s.rcvNxt \in SeqNums
  BY LooseFields DEF Fit, Bounded
<1>2. CASE ~FinReceived(s, seg)
  <2>1. Onward(s, s, e)
    BY <1>1, LimitIs DEF Onward
  <2> QED BY <1>1, <1>2, <2>1, AlikeSelf DEF FinOfEstablished, Differs
<1>3. CASE FinReceived(s, seg)
  <2> DEFINE p == AckFin(s)
             q == ChangeState(p, "CLOSE_WAIT")
  <2>1. /\ e.over /\ Minus(s.rcvNxt, e.peer) = e.theirs + 1
        /\ Minus(Plus(s.rcvNxt, 1), e.peer) = e.theirs + 2
        /\ Plus(s.rcvNxt, 1) \in SeqNums
    BY <1>1, <1>3, FinIsNext
  <2>2. e.theirs \in Nat
    BY DEF EnvOK, Short
  <2>3. /\ Speaks(p, e) /\ Loose(p)
        /\ Differs(s, p, {"rcvNxt", "queue", "out"})
        /\ p.rcvNxt = Plus(s.rcvNxt, 1)
    <3>1. Minus(s.rcvNxt, e.peer) <= Minus(Plus(s.rcvNxt, 1), e.peer)
      BY <2>1, <2>2
    <3> QED BY <1>1, <2>1, <3>1, AckFinSpeaks DEF Right
  <2>4. t = q
    BY <1>3 DEF FinOfEstablished
  <2> HIDE DEF p
  <2>5. /\ Differs(p, q, {"state", "closedFlag"}) /\ q.state = "CLOSE_WAIT"
        /\ q.closedFlag => p.closedFlag
    BY <2>3, EventsDiffer DEF Differs
  <2>6. /\ p.state = "ESTABLISHED" /\ p.txBuffer = s.txBuffer /\ p.owned = s.owned
        /\ p.closedFlag = s.closedFlag
    BY <2>3 DEF Differs, AlikeBut, Core
  <2>7. s.owned /\ s.txBuffer # Released
    BY DEF Right, Speaks, Ready, Hearing
  <2>8. Speaks(q, e)
    BY <2>3, <2>6, <2>7, ChangeStateSpeaks DEF Hearing
  <2> HIDE DEF q
  <2>9. Differs(s, q, F)
    BY <2>3, <2>5, DiffersOf
  <2>10. Hears(q, e)
    <3>1. SUFFICES ASSUME e.reads
                   PROVE  Hears(q, e)
      BY DEF Hears
    <3>2. /\ s.irs = e.peer /\ s.rxBuffer \in [0 .. RxBufferSize - 1 -> Nat]
          /\ \A j \in e.got + 1 .. e.got + s.rcvUser : Holds(s.rxBuffer, j)
          /\ Heard(s, e)
      BY <3>1 DEF Right, Hears, Hearing
    <3>3. q.irs = s.irs /\ q.rxBuffer = s.rxBuffer /\ q.rcvUser = s.rcvUser
      BY <2>9 DEF Differs, AlikeBut, Core
    <3>4. q.rcvNxt = p.rcvNxt
      BY <2>5 DEF Differs, AlikeBut, Core
    <3>5. e.got + s.rcvUser = e.theirs
      <4>1. e.got \in Nat /\ s.rcvUser \in Nat /\ e.got + s.rcvUser + 1 = e.theirs + 1
        BY <1>1, <2>1, <3>2, HeardOf
      <4> DEFINE g == e.got
                 u == s.rcvUser
                 z == e.theirs
      <4>2. g \in Nat /\ u \in Nat /\ z \in Nat /\ g + u + 1 = z + 1
        BY <2>2, <4>1
      <4> HIDE DEF g, u, z
      <4>3. g + u = z
        BY <4>2
      <4> QED BY <4>3 DEF g, u, z
    <3>6. HeardAll(q, e)
      BY <2>1, <2>3, <3>3, <3>4, <3>5 DEF HeardAll
    <3> QED BY <2>5, <3>2, <3>3, <3>6 DEF Hears
  <2>11. Onward(s, q, e)
    <3>1. q.rcvNxt = Plus(s.rcvNxt, 1)
      BY <2>3, <2>5 DEF Differs, AlikeBut, Core
    <3>2. Minus(s.rcvNxt, e.peer) <= Minus(q.rcvNxt, e.peer)
      BY <2>1, <2>2, <3>1
    <3> QED BY <1>1, <2>1, <3>1, <3>2, OnwardIf DEF Hearing
  <2> QED BY <2>4, <2>5, <2>6, <2>8, <2>9, <2>10, <2>11 DEF Right
<1> QED BY <1>2, <1>3

-----------------------------------------------------------------------------
(* What a step of the net task does to a socket *)

\* The socket t a step of the net task takes s to.
Serves(s, t, e) ==
    /\ Loose(t) /\ Right(t, e) /\ Onward(s, t, e)
    /\ s.owned => t.owned
    /\ t.owned => s.owned
    /\ e.reads /\ Live(s) => Live(t)

\* A socket that is in order.
InOrder(s, e) == Fit(s) /\ EnvOK(e) /\ Right(s, e) /\ (e.reads => Live(s))

\* A segment of the peer.
Comes(seg, s, e) ==
    /\ seg \in Segments
    /\ SegmentRight(seg, e.peer, e.theirs, e.over, Limit(s, e.reads, e.peer))
    /\ AckBelow(seg, e.own, e.low)

LEMMA InOrderOf ==
    ASSUME NEW s, NEW e, InOrder(s, e)
    PROVE  /\ Fit(s) /\ Loose(s) /\ EnvOK(e) /\ Right(s, e) /\ Speaks(s, e) /\ Hears(s, e)
           /\ DOMAIN s = SocketFields /\ s.rcvNxt \in SeqNums /\ s.state \in States
           /\ s.state \notin {"CLOSED", "LISTEN", "TIME_WAIT"} => s.owned
           /\ s.state \in {"SYN_SENT"} \cup Hearing => s.txBuffer # Released
<1>1. Loose(s)
  BY DEF InOrder, Fit, Bounded
<1>2. DOMAIN s = SocketFields /\ s.rcvNxt \in SeqNums /\ s.state \in States
  BY <1>1, LooseFields DEF Loose, WaitOK
<1>3. Right(s, e) /\ Speaks(s, e) /\ Hears(s, e)
  BY DEF InOrder, Right
<1>4. Ready(s, e)
  BY <1>3 DEF Speaks
<1>5. s.state \notin {"CLOSED", "LISTEN", "TIME_WAIT"} => s.owned
  BY <1>4 DEF Ready
<1> QED BY <1>1, <1>2, <1>3, <1>4, <1>5 DEF InOrder, Ready

LEMMA ServesOf ==
    ASSUME NEW s, Loose(s), NEW e, EnvOK(e), NEW t, Serves(s, t, e), NEW u, Serves(t, u, e)
    PROVE  Serves(s, u, e)
<1>1. s.rcvNxt \in SeqNums /\ t.rcvNxt \in SeqNums /\ u.rcvNxt \in SeqNums
  BY LooseFields DEF Serves
<1>2. /\ Limit(s, e.reads, e.peer) \in Nat /\ Limit(t, e.reads, e.peer) \in Nat
      /\ Limit(u, e.reads, e.peer) \in Nat
  BY <1>1, LimitIs
<1>3. Onward(s, u, e)
  BY <1>2 DEF Onward, Serves
<1> QED BY <1>3 DEF Serves

LEMMA ServesSelf ==
    ASSUME NEW s, NEW e, InOrder(s, e)
    PROVE  Serves(s, s, e)
<1>1. Loose(s) /\ Right(s, e) /\ EnvOK(e) /\ s.rcvNxt \in SeqNums
  BY InOrderOf
<1>2. Onward(s, s, e)
  BY <1>1, LimitIs DEF Onward
<1> QED BY <1>1, <1>2 DEF Serves

\* Only what is to be sent changes.
LEMMA ServesTalk ==
    ASSUME NEW s, Loose(s), NEW e, EnvOK(e), Right(s, e), NEW t, Loose(t), NEW F,
           Talks(s, t, F, e), F \subseteq Sending
    PROVE  Serves(s, t, e)
<1>1. AlikeBut(s, t, F) /\ Speaks(t, e)
  BY DEF Talks, Differs
<1>2. /\ t.owned = s.owned /\ t.state = s.state /\ t.closedFlag = s.closedFlag
      /\ t.rcvNxt = s.rcvNxt
  BY <1>1 DEF AlikeBut, Core, Sending
<1>3. Hears(t, e)
  BY <1>1, HearsAlike DEF Right, Sending, HearFields
<1>4. s.rcvNxt \in SeqNums
  BY LooseFields
<1>5. Onward(s, t, e)
  BY <1>2, <1>4, LimitIs DEF Onward, Limit
<1> QED BY <1>1, <1>2, <1>3, <1>5 DEF Serves, Right, Live

LEMMA ServesAnswer ==
    ASSUME NEW s, NEW e, InOrder(s, e), NEW t, Loose(t), Differs(s, t, {"queue", "out"}),
           Speaks(t, e)
    PROVE  Serves(s, t, e)
BY InOrderOf, ServesTalk DEF Talks, Sending

\* The connection is over.
LEMMA ServesClose ==
    ASSUME NEW s, NEW e, InOrder(s, e)
    PROVE  Serves(s, ChangeState(s, "CLOSED"), e)
<1> DEFINE t == ChangeState(s, "CLOSED")
<1>1. /\ Fit(s) /\ Loose(s) /\ EnvOK(e) /\ Speaks(s, e) /\ DOMAIN s = SocketFields
      /\ s.rcvNxt \in SeqNums
  BY InOrderOf
<1>2. Loose(t) /\ t.state = "CLOSED"
  BY <1>1, CloseFits DEF Fit, Bounded
<1>3. /\ Differs(s, t, {"state", "closedFlag"})
      /\ s.state \notin {"LAST_ACK", "TIME_WAIT"} => (t.closedFlag => s.closedFlag)
  BY <1>1, EventsDiffer
<1>4. Speaks(t, e)
  BY <1>1, ChangeStateSpeaks DEF Hearing
<1> HIDE DEF t
<1>5. Hears(t, e)
  BY <1>2 DEF Hears, Hearing
<1>6. t.owned = s.owned
  BY <1>3 DEF Differs, AlikeBut, Core
<1>7. t.rcvNxt \in SeqNums
  BY <1>2, LooseFields
<1>8. Onward(s, t, e)
  BY <1>1, <1>2, <1>7, OnwardIf DEF Hearing
<1>9. Live(s) => Live(t)
  BY <1>2, <1>3 DEF Live, Hearing
<1> QED BY <1>2, <1>4, <1>5, <1>6, <1>8, <1>9 DEF Serves, Right, t

LEMMA RefuseServes ==
    ASSUME NEW s, NEW e, InOrder(s, e), NEW seg \in Segments
    PROVE  Serves(s, Refuse(s, seg), e) /\ Serves(s, RefuseAck(s, seg), e)
<1>1. Fit(s) /\ Loose(s) /\ EnvOK(e) /\ Speaks(s, e) /\ DOMAIN s = SocketFields
  BY InOrderOf
<1>2. Serves(s, s, e)
  BY ServesSelf
<1>3. Serves(s, SendAck(s), e)
  <2>1. Loose(SendAck(s)) /\ Differs(s, SendAck(s), {"queue", "out"}) /\ Speaks(SendAck(s), e)
    BY <1>1, SendAckFits, SendAckDiffers, SendAckSpeaks
  <2> QED BY <2>1, ServesAnswer
<1>4. Serves(s, ResetForSyn(s, seg), e)
  <2>1. Loose(ResetForSyn(s, seg)) /\ Speaks(ResetForSyn(s, seg), e)
    BY <1>1, ResetForSynFits, ResetForSynSpeaks DEF Fit, Bounded
  <2>2. Differs(s, ResetForSyn(s, seg), {"queue", "out"})
    BY <1>1, SendSegmentDiffers DEF ResetForSyn
  <2> QED BY <2>1, <2>2, ServesAnswer
<1>5. Serves(s, ChangeState(s, "CLOSED"), e)
  BY ServesClose
<1>6. Serves(s, Refuse(s, seg), e)
  BY <1>2, <1>3, <1>4, <1>5 DEF Refuse
<1>7. Serves(s, RefuseAck(s, seg), e)
  BY <1>2, <1>3 DEF RefuseAck
<1> QED BY <1>6, <1>7

LEMMA ServesInOrder ==
    ASSUME NEW s, NEW e, InOrder(s, e), NEW t, Fit(t), Serves(s, t, e)
    PROVE  InOrder(t, e)
BY DEF InOrder, Serves

\* What was right of the data stays right when more has been received.
LEMMA SegmentRaised ==
    ASSUME NEW g \in Segments, NEW own \in SeqNums, NEW wrote, NEW over,
           NEW a \in Nat, NEW b \in Nat, a <= b, SegmentRight(g, own, wrote, over, a)
    PROVE  SegmentRight(g, own, wrote, over, b)
<1> DEFINE o == Minus(g.seq, own)
<1>1. o \in Nat
  BY SegmentFields, MinusIs
<1>2. ASSUME NEW k \in 1 .. Len(g.data), o + k - 1 < a
      PROVE  o + k - 1 < b
  <2>1. Len(g.data) \in Nat
    BY SegmentFields
  <2>2. k \in Nat
    BY <2>1
  <2> HIDE DEF o
  <2> QED BY <1>1, <1>2, <2>2
<1> QED BY <1>2 DEF SegmentRight

LEMMA ComesOn ==
    ASSUME NEW s, NEW e, EnvOK(e), s.rcvNxt \in SeqNums, NEW t, t.rcvNxt \in SeqNums,
           Onward(s, t, e), NEW seg, Comes(seg, s, e)
    PROVE  Comes(seg, t, e)
<1>1. /\ Limit(s, e.reads, e.peer) \in Nat /\ Limit(t, e.reads, e.peer) \in Nat
      /\ e.peer \in SeqNums
  BY LimitIs DEF EnvOK
<1> QED BY <1>1, SegmentRaised DEF Comes, Onward

LEMMA ServesComes ==
    ASSUME NEW s, NEW e, InOrder(s, e), NEW t, Serves(s, t, e), NEW seg, Comes(seg, s, e)
    PROVE  Comes(seg, t, e)
BY InOrderOf, ComesOn, LooseFields DEF Serves

LEMMA CheckAckServes ==
    ASSUME NEW s, NEW e, InOrder(s, e), s.owned, NEW seg, Comes(seg, s, e),
           ~Refused(s, seg), ~AckRefused(s, seg)
    PROVE  LET t == CheckAck(s, seg)
           IN  /\ Serves(s, t, e) /\ InOrder(t, e) /\ Comes(seg, t, e)
               /\ t.state = s.state /\ Acceptable(t, seg) /\ Talks(s, t, Answers, e)
<1> DEFINE t == CheckAck(s, seg)
<1>1. /\ Fit(s) /\ Loose(s) /\ EnvOK(e) /\ Speaks(s, e) /\ Right(s, e)
  BY InOrderOf
<1>2. seg \in Segments /\ AckBelow(seg, e.own, e.low) /\ "RST" \notin seg.flags
      /\ Acceptable(s, seg)
  BY DEF Comes, Refused
<1>3. Fit(t) /\ Keeps(s, t)
  BY <1>1, <1>2, CheckAckFits
<1>4. Talks(s, t, Answers, e)
  BY <1>1, <1>2, CheckAckTalks
<1> HIDE DEF t
<1>5. Serves(s, t, e)
  <2>1. Loose(t) /\ Answers \subseteq Sending
    BY <1>3 DEF Fit, Bounded, Answers, Sending
  <2> QED BY <1>1, <1>4, <2>1, ServesTalk
<1>6. t.rcvNxt = s.rcvNxt /\ t.rcvWnd = s.rcvWnd /\ t.state = s.state
  BY <1>3 DEF Keeps, SameReceiver, SameBlocks
<1>7. Acceptable(t, seg)
  BY <1>2, <1>6 DEF Acceptable, InWindow
<1> QED BY <1>3, <1>4, <1>5, <1>6, <1>7, ServesInOrder, ServesComes DEF t

LEMMA ReceiveTextServes ==
    ASSUME NEW s, NEW e, InOrder(s, e), s.state \in Receiving, NEW seg, Comes(seg, s, e),
           Acceptable(s, seg)
    PROVE  LET t == ReceiveText(s, seg)
           IN  /\ Serves(s, t, e) /\ InOrder(t, e) /\ Comes(seg, t, e) /\ t.state = s.state
               /\ Differs(s, t, Taken)
<1> DEFINE t == ReceiveText(s, seg)
<1>1. /\ Fit(s) /\ Loose(s) /\ EnvOK(e) /\ Right(s, e)
  BY InOrderOf
<1>2. /\ seg \in Segments
      /\ SegmentRight(seg, e.peer, e.theirs, e.over, Limit(s, e.reads, e.peer))
  BY DEF Comes
<1>3. Fit(t) /\ Loose(t) /\ t.state = s.state
  BY <1>1, <1>2, ReceiveTextFits DEF Fit, Bounded
<1>4. Right(t, e) /\ Differs(s, t, Taken) /\ Onward(s, t, e)
  BY <1>1, <1>2, ReceiveTextRight
<1> HIDE DEF t
<1>5. t.owned = s.owned /\ t.closedFlag = s.closedFlag
  BY <1>4 DEF Differs, AlikeBut, Core, Taken, Taking
<1>6. Serves(s, t, e)
  BY <1>3, <1>4, <1>5 DEF Serves, Live
<1> QED BY <1>3, <1>4, <1>6, ServesInOrder, ServesComes DEF t

LEMMA SendPendingServes ==
    ASSUME NEW s, NEW e, InOrder(s, e), s.state \in Hearing
    PROVE  Serves(s, SendPending(s), e)
<1>1. /\ Fit(s) /\ Loose(s) /\ EnvOK(e) /\ Speaks(s, e) /\ Right(s, e) /\ DOMAIN s = SocketFields
  BY InOrderOf
<1>2. Talks(s, s, Sending, e)
  BY <1>1, TalksSelf
<1>3. Talks(s, SendPending(s), Sending, e)
  BY <1>1, <1>2, SendPendingTalks
<1>4. Loose(SendPending(s))
  BY <1>1, SendPendingFits DEF Fit, Bounded
<1> QED BY <1>1, <1>3, <1>4, ServesTalk

LEMMA FinOfEstablishedServes ==
    ASSUME NEW s, NEW e, InOrder(s, e), s.state = "ESTABLISHED", NEW seg, Comes(seg, s, e)
    PROVE  LET t == FinOfEstablished(s, seg)
           IN  /\ Serves(s, t, e) /\ InOrder(t, e)
               /\ t.state \in {"ESTABLISHED", "CLOSE_WAIT"}
<1> DEFINE t == FinOfEstablished(s, seg)
<1>1. /\ Fit(s) /\ EnvOK(e) /\ Right(s, e)
  BY InOrderOf
<1>2. Fit(t) /\ Loose(t) /\ t.state \in {"ESTABLISHED", "CLOSE_WAIT"}
  BY <1>1, FinOfEstablishedFits DEF Fit, Bounded
<1>3. /\ Right(t, e) /\ Differs(s, t, {"rcvNxt", "state", "closedFlag", "queue", "out"})
      /\ t.closedFlag => s.closedFlag
      /\ Onward(s, t, e)
  BY <1>1, FinOfEstablishedRight DEF Comes
<1> HIDE DEF t
<1>4. t.owned = s.owned
  BY <1>3 DEF Differs, AlikeBut, Core
<1>5. Serves(s, t, e)
  BY <1>2, <1>3, <1>4 DEF Serves, Live, Hearing
<1> QED BY <1>2, <1>5, ServesInOrder DEF t

LEMMA StateEstablishedServes ==
    ASSUME NEW s, NEW e, InOrder(s, e), s.state = "ESTABLISHED", NEW seg, Comes(seg, s, e)
    PROVE  Serves(s, StateEstablished(s, seg), e)
<1>1. seg \in Segments /\ Loose(s) /\ EnvOK(e) /\ s.owned
  BY InOrderOf DEF Comes
<1>2. CASE Refused(s, seg)
  BY <1>1, <1>2, RefuseServes DEF StateEstablished
<1>3. CASE ~Refused(s, seg) /\ AckRefused(s, seg)
  BY <1>1, <1>3, RefuseServes DEF StateEstablished
<1>4. CASE ~Refused(s, seg) /\ ~AckRefused(s, seg)
  <2> DEFINE t == CheckAck(s, seg)
             u == ReceiveText(t, seg)
             v == FinOfEstablished(u, seg)
  <2>1. StateEstablished(s, seg) = SendPending(v)
    BY <1>4 DEF StateEstablished
  <2>2. /\ Serves(s, t, e) /\ InOrder(t, e) /\ Comes(seg, t, e)
        /\ t.state = "ESTABLISHED" /\ Acceptable(t, seg)
    BY <1>1, <1>4, CheckAckServes
  <2> HIDE DEF t
  <2>3. Serves(t, u, e) /\ InOrder(u, e) /\ Comes(seg, u, e) /\ u.state = "ESTABLISHED"
    BY <2>2, ReceiveTextServes DEF Receiving
  <2> HIDE DEF u
  <2>4. Serves(u, v, e) /\ InOrder(v, e) /\ v.state \in {"ESTABLISHED", "CLOSE_WAIT"}
    BY <2>3, FinOfEstablishedServes
  <2> HIDE DEF v
  <2>5. Serves(v, SendPending(v), e)
    BY <2>4, SendPendingServes DEF Hearing
  <2>6. Loose(t) /\ Loose(u)
    BY <2>2, <2>3 DEF Serves
  <2>7. Serves(t, v, e)
    BY <1>1, <2>3, <2>4, <2>6, ServesOf
  <2>8. Serves(t, SendPending(v), e)
    BY <1>1, <2>5, <2>6, <2>7, ServesOf
  <2> QED BY <1>1, <2>1, <2>2, <2>8, ServesOf
<1> QED BY <1>2, <1>3, <1>4

\* The connection is established.
LEMMA EstablishServes ==
    ASSUME NEW s, NEW e, InOrder(s, e), s.state = "SYN_RECEIVED", NEW seg, Comes(seg, s, e)
    PROVE  LET t == ChangeState(InitSendWindow(s, seg), "ESTABLISHED")
           IN  /\ Serves(s, t, e) /\ InOrder(t, e) /\ Comes(seg, t, e)
               /\ t.state = "ESTABLISHED"
<1> DEFINE r == InitSendWindow(s, seg)
           t == ChangeState(r, "ESTABLISHED")
<1>1. /\ Fit(s) /\ Loose(s) /\ EnvOK(e) /\ Right(s, e) /\ Speaks(s, e) /\ Hears(s, e)
      /\ DOMAIN s = SocketFields /\ s.owned /\ s.txBuffer # Released /\ s.rcvNxt \in SeqNums
  BY InOrderOf DEF Hearing
<1>2. seg \in Segments
  BY DEF Comes
<1>3. Loose(r) /\ SameRest(s, r) /\ r.cwnd = s.cwnd /\ Differs(s, r, {})
  BY <1>1, <1>2, InitSendWindowFits, WindowsDiffer
<1>4. Differs(s, r, {"probing"})
  BY <1>3, DiffersMore
<1>5. Speaks(r, e)
  BY <1>1, <1>4, SpeaksOfSame
<1> HIDE DEF r
<1>6. r.owned /\ r.txBuffer # Released /\ r.state = "SYN_RECEIVED" /\ DOMAIN r = SocketFields
  BY <1>1, <1>3 DEF Differs, AlikeBut, Core
<1>7. Speaks(t, e)
  BY <1>1, <1>3, <1>5, <1>6, ChangeStateSpeaks DEF Hearing
<1>8. /\ Differs(r, t, {"state", "closedFlag"}) /\ t.state = "ESTABLISHED"
      /\ t.closedFlag => r.closedFlag
  BY <1>6, EventsDiffer
<1>9. Fit(t)
  <2>1. Apart(s, 1) /\ s.cwnd <= TxBufferSize
    BY <1>1 DEF Fit, Bounded, BlocksOK
  <2>2. MayEnter(r, "ESTABLISHED")
    BY <1>3, <2>1, SameBlocksApart DEF MayEnter, SameRest, SameReceiver, States
  <2> QED BY <1>3, <2>1, <2>2, ChangeStateFits DEF Fit, Bounded
<1> HIDE DEF t
<1>10. Differs(s, t, {"state", "closedFlag"})
  BY <1>3, <1>8, DiffersOf
<1>11. /\ t.irs = s.irs /\ t.rxBuffer = s.rxBuffer /\ t.rcvUser = s.rcvUser
       /\ t.rcvNxt = s.rcvNxt /\ t.sackBlock = s.sackBlock /\ t.owned = s.owned
       /\ r.closedFlag = s.closedFlag
  BY <1>3, <1>10 DEF Differs, AlikeBut, Core
<1>12. Hears(t, e)
  <2>1. SUFFICES ASSUME e.reads
                 PROVE  Hears(t, e)
    BY DEF Hears
  <2>2. /\ s.irs = e.peer /\ s.rxBuffer \in [0 .. RxBufferSize - 1 -> Nat]
        /\ \A j \in e.got + 1 .. e.got + s.rcvUser : Holds(s.rxBuffer, j)
        /\ Heard(s, e)
    BY <1>1, <2>1 DEF Hears, Hearing
  <2>3. Heard(t, e)
    BY <1>11, <2>2 DEF Heard, Offset
  <2> QED BY <1>8, <1>11, <2>2, <2>3 DEF Hears
<1>13. Onward(s, t, e)
  BY <1>1, <1>11, OnwardIf DEF Hearing
<1>14. Serves(s, t, e)
  BY <1>7, <1>8, <1>9, <1>11, <1>12, <1>13 DEF Serves, Right, Fit, Bounded, Live, Hearing
<1> QED BY <1>8, <1>9, <1>14, ServesInOrder, ServesComes DEF t, r

LEMMA SendResetServes ==
    ASSUME NEW s, NEW e, InOrder(s, e), NEW seg \in Segments
    PROVE  /\ Serves(s, SendSegment(s, {"RST"}, seg.ack, 0, 0, FALSE), e)
           /\ InOrder(SendSegment(s, {"RST"}, seg.ack, 0, 0, FALSE), e)
           /\ Differs(s, SendSegment(s, {"RST"}, seg.ack, 0, 0, FALSE), {"queue", "out"})
<1> DEFINE rst == {"RST"}
           none == 0
           new == seg.ack
           queued == FALSE
           a == SendSegment(s, rst, new, none, none, queued)
<1>1. rst \in SUBSET Flags /\ none \in SeqNums /\ none \in 0 .. Mss /\ new \in SeqNums
      /\ queued \in BOOLEAN
  <2>1. none \in SeqNums /\ none \in 0 .. Mss
    BY Sizes DEF SeqNums
  <2>2. new \in SeqNums
    BY SegmentFields
  <2> QED BY <2>1, <2>2 DEF Flags
<1>2. Loose(s) /\ Fit(s) /\ EnvOK(e) /\ Speaks(s, e) /\ DOMAIN s = SocketFields
  BY InOrderOf
<1>3. Speaks(a, e)
  <2>1. Speaks(SendSegment(s, {"RST"}, new, 0, 0, FALSE), e)
    BY <1>1, <1>2, SendResetSpeaks
  <2> QED BY <2>1
<1> HIDE DEF rst, none, new, queued
<1>4. Fit(a)
  BY <1>1, <1>2, SendSegmentKeeps
<1>5. Differs(s, a, {"queue", "out"})
  BY <1>2, SendSegmentDiffers
<1>6. Loose(a)
  BY <1>4 DEF Fit, Bounded
<1> HIDE DEF a
<1>7. Serves(s, a, e)
  BY <1>3, <1>5, <1>6, ServesAnswer
<1>8. InOrder(a, e)
  BY <1>4, <1>7, ServesInOrder
<1> QED BY <1>5, <1>7, <1>8 DEF a, rst, none, new, queued

LEMMA StateSynReceivedServes ==
    ASSUME NEW s, NEW e, InOrder(s, e), s.state = "SYN_RECEIVED", NEW seg, Comes(seg, s, e)
    PROVE  Serves(s, StateSynReceived(s, seg), e)
<1> DEFINE t == ChangeState(InitSendWindow(s, seg), "ESTABLISHED")
           a == SendSegment(s, {"RST"}, seg.ack, 0, 0, FALSE)
           b == StateEstablished(t, seg)
<1>1. StateSynReceived(s, seg) \in {s, Refuse(s, seg), a, b}
  BY DEF StateSynReceived
<1>2. seg \in Segments /\ Loose(s) /\ EnvOK(e)
  BY InOrderOf DEF Comes
<1>3. Serves(s, s, e) /\ Serves(s, Refuse(s, seg), e) /\ Serves(s, a, e)
  BY <1>2, ServesSelf, RefuseServes, SendResetServes
<1>4. Serves(s, t, e) /\ InOrder(t, e) /\ Comes(seg, t, e) /\ t.state = "ESTABLISHED"
  BY EstablishServes
<1> HIDE DEF t
<1>5. Serves(t, b, e)
  BY <1>4, StateEstablishedServes
<1>6. Serves(s, b, e)
  BY <1>2, <1>4, <1>5, ServesOf
<1> HIDE DEF a, b
<1> QED BY <1>1, <1>3, <1>6

LEMMA StateCloseWaitServes ==
    ASSUME NEW s, NEW e, InOrder(s, e), s.state = "CLOSE_WAIT", NEW seg, Comes(seg, s, e)
    PROVE  Serves(s, StateCloseWait(s, seg), e)
<1>1. seg \in Segments /\ Loose(s) /\ EnvOK(e) /\ s.owned
  BY InOrderOf DEF Comes
<1>2. CASE Refused(s, seg)
  BY <1>1, <1>2, RefuseServes DEF StateCloseWait
<1>3. CASE ~Refused(s, seg) /\ AckRefused(s, seg)
  BY <1>1, <1>3, RefuseServes DEF StateCloseWait
<1>4. CASE ~Refused(s, seg) /\ ~AckRefused(s, seg)
  <2> DEFINE t == CheckAck(s, seg)
  <2>1. Serves(s, t, e) /\ InOrder(t, e) /\ t.state = "CLOSE_WAIT"
    BY <1>1, <1>4, CheckAckServes
  <2>2. StateCloseWait(s, seg) = SendPending(t)
    BY <1>4 DEF StateCloseWait
  <2> HIDE DEF t
  <2>3. Serves(t, SendPending(t), e)
    BY <2>1, SendPendingServes DEF Hearing
  <2> QED BY <1>1, <2>1, <2>2, <2>3, ServesOf
<1> QED BY <1>2, <1>3, <1>4

LEMMA StateLastAckServes ==
    ASSUME NEW s, NEW e, InOrder(s, e), NEW seg, Comes(seg, s, e)
    PROVE  Serves(s, StateLastAck(s, seg), e)
<1>1. seg \in Segments
  BY DEF Comes
<1>2. StateLastAck(s, seg) \in {s, Refuse(s, seg), ChangeState(s, "CLOSED")}
  BY DEF StateLastAck
<1> QED BY <1>1, <1>2, ServesSelf, RefuseServes, ServesClose

-----------------------------------------------------------------------------
(* The states in which the program does not read any more *)

\* A socket that has only to end, with what is known of it between two parts
\* of a step.
Closing(s, e) == Loose(s) /\ EnvOK(e) /\ Speaks(s, e) /\ ~e.reads /\ s.owned

LEMMA ClosingServes ==
    ASSUME NEW s, NEW e, Closing(s, e), NEW t, Loose(t), Speaks(t, e), t.owned = s.owned
    PROVE  Serves(s, t, e)
<1>1. s.rcvNxt \in SeqNums /\ t.rcvNxt \in SeqNums
  BY LooseFields DEF Closing
<1>2. Onward(s, t, e)
  BY <1>1, OnwardIf DEF Closing
<1> QED BY <1>2 DEF Serves, Closing, Right, Hears

LEMMA ClosingOf ==
    ASSUME NEW s, NEW e, InOrder(s, e),
           s.state \notin {"CLOSED", "SYN_SENT", "LISTEN", "TIME_WAIT"} \cup Hearing
    PROVE  Closing(s, e)
BY InOrderOf DEF InOrder, Live, Closing

LEMMA ClosingChanges ==
    ASSUME NEW s, NEW e, Closing(s, e), NEW newState,
           newState \notin {"SYN_SENT", "TIME_WAIT"} \cup Hearing,
           Loose(ChangeState(s, newState))
    PROVE  Serves(s, ChangeState(s, newState), e)
<1> DEFINE t == ChangeState(s, newState)
<1>1. Speaks(t, e)
  BY ChangeStateSpeaks DEF Closing
<1>2. Differs(s, t, {"state", "closedFlag"})
  BY EventsDiffer, LooseFields DEF Closing
<1>3. t.owned = s.owned
  BY <1>2 DEF Differs, AlikeBut, Core
<1> QED BY <1>1, <1>3, ClosingServes

LEMMA DeleteSpeaks ==
    ASSUME NEW s, DOMAIN s = SocketFields, NEW e, Speaks(s, e),
           s.state \notin {"SYN_SENT"} \cup Hearing
    PROVE  LET t == DeleteControlBlock(s)
           IN  /\ Speaks(t, e) /\ t.queue = <<>>
               /\ Differs(s, t, {"queue", "txBuffer", "rxBuffer"})
<1> DEFINE t == DeleteControlBlock(s)
<1>1. /\ t.queue = <<>> /\ t.txBuffer = Released
      /\ Differs(s, t, {"queue", "txBuffer", "rxBuffer"})
  BY DEF DeleteControlBlock, Differs, AlikeBut, Core, SocketFields
<1> HIDE DEF t
<1>2. /\ t.owned = s.owned /\ t.state = s.state /\ t.iss = s.iss /\ t.sndUna = s.sndUna
      /\ t.sndNxt = s.sndNxt /\ t.sndUser = s.sndUser /\ t.rcvNxt = s.rcvNxt
      /\ t.out = s.out
  BY <1>1 DEF Differs, AlikeBut, Core
<1>3. Ready(t, e)
  BY <1>1, <1>2 DEF Speaks, Ready, Placed, Stored
<1>4. DOMAIN t.queue = {}
  BY <1>1
<1>5. \A i \in DOMAIN t.out : SegmentGood(t.out[i], t, e)
  BY <1>2 DEF Speaks, SegmentGood, Limit
<1>6. Speaks(t, e)
  BY <1>3, <1>4, <1>5 DEF Speaks
<1> QED BY <1>1, <1>6 DEF t

LEMMA TimeWaitServes ==
    ASSUME NEW s, NEW e, Closing(s, e), Bounded(s), s.state \notin {"SYN_SENT"} \cup Hearing
    PROVE  Serves(s, EnterTimeWait(s), e)
<1> DEFINE d == DeleteControlBlock(s)
           t == ChangeState(d, "TIME_WAIT")
<1>1. DOMAIN s = SocketFields /\ EnterTimeWait(s) = t
  BY LooseFields DEF Closing, EnterTimeWait
<1>2. /\ Speaks(d, e) /\ d.queue = <<>>
      /\ Differs(s, d, {"queue", "txBuffer", "rxBuffer"})
  BY <1>1, DeleteSpeaks DEF Closing
<1>3. Loose(d) /\ Loose(t)
  BY <1>1, DeleteControlBlockFits, EnterTimeWaitFits DEF Bounded, Fit
<1> HIDE DEF d
<1>4. d.owned = s.owned /\ DOMAIN d = SocketFields
  BY <1>2 DEF Differs, AlikeBut, Core
<1>5. Speaks(t, e)
  BY <1>2, <1>3, <1>4, ChangeStateSpeaks DEF Closing, Hearing
<1>6. Differs(d, t, {"state", "closedFlag"})
  BY <1>4, EventsDiffer
<1>7. t.owned = s.owned
  BY <1>4, <1>6 DEF Differs, AlikeBut, Core
<1> QED BY <1>1, <1>3, <1>5, <1>7, ClosingServes

LEMMA AckFinServes ==
    ASSUME NEW s, NEW e, Closing(s, e), Bounded(s)
    PROVE  LET t == AckFin(s)
           IN  /\ Serves(s, t, e) /\ Closing(t, e) /\ Bounded(t) /\ t.state = s.state
<1>1. Plus(s.rcvNxt, 1) \in SeqNums
  <2>1. s.rcvNxt \in SeqNums
    BY LooseFields DEF Closing
  <2> DEFINE r == s.rcvNxt
  <2> HIDE DEF r
  <2>2. r \in SeqNums => Plus(r, 1) \in SeqNums
    BY PlusOf
  <2> QED BY <2>1, <2>2 DEF r
<1>2. /\ Speaks(AckFin(s), e) /\ Loose(AckFin(s))
      /\ Differs(s, AckFin(s), {"rcvNxt", "queue", "out"})
  BY <1>1, AckFinSpeaks DEF Closing
<1>3. AckFin(s).owned = s.owned /\ AckFin(s).state = s.state
  BY <1>2 DEF Differs, AlikeBut, Core
<1>4. Bounded(AckFin(s))
  BY AckFinFits
<1> QED BY <1>2, <1>3, <1>4, ClosingServes DEF Closing

LEMMA ClosingOn ==
    ASSUME NEW s, NEW e, Closing(s, e), NEW t, Serves(s, t, e)
    PROVE  Closing(t, e)
BY DEF Closing, Serves, Right

LEMMA ClosingPath ==
    ASSUME NEW s, NEW e, Closing(s, e), NEW t, Serves(s, t, e), NEW u, Serves(t, u, e)
    PROVE  Serves(s, u, e)
BY ServesOf DEF Closing

LEMMA FinInFinWaitServes ==
    ASSUME NEW s, NEW e, InOrder(s, e), s.state \in {"FIN_WAIT_1", "FIN_WAIT_2"}, NEW seg
    PROVE  Serves(s, FinInFinWait1(s, seg), e) /\ Serves(s, FinInFinWait2(s, seg), e)
<1> DEFINE r == AckFin(s)
           a == EnterTimeWait(r)
           b == ChangeState(r, "CLOSING")
<1>1. FinInFinWait1(s, seg) \in {s, a, b} /\ FinInFinWait2(s, seg) \in {s, a}
  BY DEF FinInFinWait1, FinInFinWait2
<1>2. Serves(s, s, e)
  BY ServesSelf
<1>3. Closing(s, e) /\ Bounded(s)
  BY ClosingOf DEF Hearing, InOrder, Fit
<1>4. Serves(s, r, e) /\ Closing(r, e) /\ Bounded(r) /\ r.state = s.state
  BY <1>3, AckFinServes
<1> HIDE DEF r
<1>5. Serves(r, a, e)
  BY <1>4, TimeWaitServes DEF Hearing
<1>6. Serves(r, b, e)
  <2>1. MayEnter(r, "CLOSING")
    BY DEF MayEnter, States
  <2>2. Loose(b)
    BY <1>4, <2>1, ChangeStateFits DEF Bounded
  <2> QED BY <1>4, <2>2, ClosingChanges DEF Hearing
<1>7. Serves(s, a, e) /\ Serves(s, b, e)
  BY <1>3, <1>4, <1>5, <1>6, ClosingPath
<1> HIDE DEF a, b
<1> QED BY <1>1, <1>2, <1>7

LEMMA StateFinWait1Serves ==
    ASSUME NEW s, NEW e, InOrder(s, e), s.state = "FIN_WAIT_1", NEW seg, Comes(seg, s, e)
    PROVE  Serves(s, StateFinWait1(s, seg), e)
<1> DEFINE t == CheckAck(s, seg)
           u == AckInFinWait1(t, seg)
           v == ReceiveText(u, seg)
           w == FinInFinWait1(v, seg)
<1>1. seg \in Segments /\ s.owned /\ Closing(s, e)
  BY InOrderOf, ClosingOf DEF Comes, Hearing
<1>2. CASE Refused(s, seg)
  BY <1>1, <1>2, RefuseServes DEF StateFinWait1
<1>3. CASE ~Refused(s, seg) /\ AckRefused(s, seg)
  BY <1>1, <1>3, RefuseServes DEF StateFinWait1
<1>4. CASE ~Refused(s, seg) /\ ~AckRefused(s, seg)
  <2>1. StateFinWait1(s, seg) = w
    BY <1>4 DEF StateFinWait1
  <2>2. /\ Serves(s, t, e) /\ InOrder(t, e) /\ Comes(seg, t, e)
        /\ t.state = "FIN_WAIT_1" /\ Acceptable(t, seg)
    BY <1>1, <1>4, CheckAckServes
  <2> HIDE DEF t
  <2>3. /\ Serves(t, u, e) /\ InOrder(u, e) /\ Comes(seg, u, e) /\ Acceptable(u, seg)
        /\ u.state \in {"FIN_WAIT_1", "FIN_WAIT_2"}
    <3> DEFINE x == ChangeState(t, "FIN_WAIT_2")
    <3>1. u \in {t, x}
      BY DEF AckInFinWait1
    <3>2. Fit(t) /\ Closing(t, e)
      BY <2>2, ClosingOf DEF Hearing, InOrder
    <3>3. MayEnter(t, "FIN_WAIT_2")
      BY <2>2, <3>2 DEF MayEnter, States, Fit, BlocksOK
    <3>4. Fit(x) /\ SameReceiver(t, x) /\ x.state = "FIN_WAIT_2"
      BY <3>2, <3>3, ChangeStateFits DEF Fit, Bounded
    <3>5. Serves(t, x, e)
      BY <3>2, <3>4, ClosingChanges DEF Hearing, Fit, Bounded
    <3> HIDE DEF x
    <3>6. InOrder(x, e) /\ Comes(seg, x, e)
      BY <2>2, <3>4, <3>5, ServesInOrder, ServesComes
    <3>7. Acceptable(x, seg)
      BY <2>2, <3>4 DEF Acceptable, InWindow, SameReceiver, SameBlocks
    <3>8. Serves(t, t, e)
      BY <2>2, ServesSelf
    <3> HIDE DEF u
    <3> QED BY <2>2, <3>1, <3>4, <3>5, <3>6, <3>7, <3>8
  <2> HIDE DEF u
  <2>4. Serves(u, v, e) /\ InOrder(v, e) /\ v.state = u.state
    BY <2>3, ReceiveTextServes DEF Receiving
  <2> HIDE DEF v
  <2>5. Serves(v, w, e)
    BY <2>3, <2>4, FinInFinWaitServes
  <2> HIDE DEF w
  <2>6. Closing(t, e) /\ Closing(u, e)
    BY <1>1, <2>2, <2>3, ClosingOn
  <2>7. Serves(s, u, e)
    BY <1>1, <2>2, <2>3, ClosingPath
  <2>8. Serves(u, w, e)
    BY <2>4, <2>5, <2>6, ClosingPath
  <2> QED BY <1>1, <2>1, <2>7, <2>8, ClosingPath
<1> QED BY <1>2, <1>3, <1>4

LEMMA StateFinWait2Serves ==
    ASSUME NEW s, NEW e, InOrder(s, e), s.state = "FIN_WAIT_2", NEW seg, Comes(seg, s, e)
    PROVE  Serves(s, StateFinWait2(s, seg), e)
<1> DEFINE t == CheckAck(s, seg)
           v == ReceiveText(t, seg)
           w == FinInFinWait2(v, seg)
<1>1. seg \in Segments /\ s.owned /\ Closing(s, e)
  BY InOrderOf, ClosingOf DEF Comes, Hearing
<1>2. CASE Refused(s, seg)
  BY <1>1, <1>2, RefuseServes DEF StateFinWait2
<1>3. CASE ~Refused(s, seg) /\ AckRefused(s, seg)
  BY <1>1, <1>3, RefuseServes DEF StateFinWait2
<1>4. CASE ~Refused(s, seg) /\ ~AckRefused(s, seg)
  <2>1. StateFinWait2(s, seg) = w
    BY <1>4 DEF StateFinWait2
  <2>2. /\ Serves(s, t, e) /\ InOrder(t, e) /\ Comes(seg, t, e)
        /\ t.state = "FIN_WAIT_2" /\ Acceptable(t, seg)
    BY <1>1, <1>4, CheckAckServes
  <2> HIDE DEF t
  <2>3. Serves(t, v, e) /\ InOrder(v, e) /\ v.state = "FIN_WAIT_2"
    BY <2>2, ReceiveTextServes DEF Receiving
  <2> HIDE DEF v
  <2>4. Serves(v, w, e)
    BY <2>3, FinInFinWaitServes
  <2> HIDE DEF w
  <2>5. Serves(s, v, e)
    BY <1>1, <2>2, <2>3, ClosingPath
  <2> QED BY <1>1, <2>1, <2>4, <2>5, ClosingPath
<1> QED BY <1>2, <1>3, <1>4

LEMMA StateClosingServes ==
    ASSUME NEW s, NEW e, InOrder(s, e), s.state = "CLOSING", NEW seg, Comes(seg, s, e)
    PROVE  Serves(s, StateClosing(s, seg), e)
<1> DEFINE t == CheckAck(s, seg)
           u == EnterTimeWait(t)
<1>1. seg \in Segments /\ s.owned /\ Closing(s, e)
  BY InOrderOf, ClosingOf DEF Comes, Hearing
<1>2. CASE Refused(s, seg)
  BY <1>1, <1>2, RefuseServes DEF StateClosing
<1>3. CASE ~Refused(s, seg) /\ AckRefused(s, seg)
  BY <1>1, <1>3, RefuseServes DEF StateClosing
<1>4. CASE ~Refused(s, seg) /\ ~AckRefused(s, seg)
  <2>1. StateClosing(s, seg) \in {t, u}
    BY <1>4 DEF StateClosing, AckInClosing
  <2>2. Serves(s, t, e) /\ InOrder(t, e) /\ t.state = "CLOSING"
    BY <1>1, <1>4, CheckAckServes
  <2> HIDE DEF t
  <2>3. Closing(t, e) /\ Bounded(t)
    BY <2>2, ClosingOf DEF Hearing, InOrder, Fit
  <2>4. Serves(t, u, e)
    BY <2>2, <2>3, TimeWaitServes DEF Hearing
  <2>5. Serves(s, u, e)
    BY <1>1, <2>2, <2>4, ClosingPath
  <2> HIDE DEF u
  <2> QED BY <2>1, <2>2, <2>5
<1> QED BY <1>2, <1>3, <1>4

-----------------------------------------------------------------------------
(* The states without a connection *)

LEMMA ResetIsRight ==
    ASSUME NEW seg, NEW own, NEW wrote, NEW over, NEW low, NEW peer, NEW limit
    PROVE  /\ SegmentRight(ResetSegment(seg), own, wrote, over, low)
           /\ AckBelow(ResetSegment(seg), peer, limit)
           /\ Mute(ResetSegment(seg))
<1>1. /\ ResetSegment(seg).flags \in {{"RST"}, {"RST", "ACK"}}
      /\ ResetSegment(seg).data = <<>>
  BY DEF ResetSegment
<1> QED BY <1>1 DEF SegmentRight, AckBelow, Mute

LEMMA AnswerServes ==
    ASSUME NEW s, NEW e, InOrder(s, e), NEW seg \in Segments
    PROVE  Serves(s, [s EXCEPT !.out = Append(@, ResetSegment(seg))], e)
<1> DEFINE d == ResetSegment(seg)
           t == [s EXCEPT !.out = Append(@, d)]
<1>1. /\ Fit(s) /\ Loose(s) /\ EnvOK(e) /\ Speaks(s, e) /\ DOMAIN s = SocketFields
  BY InOrderOf
<1>2. Loose(t)
  BY <1>1, AnswerFits DEF Fit, Bounded
<1>3. SegmentGood(d, s, e)
  BY ResetIsRight DEF SegmentGood
<1>4. d \in Segments /\ s.out \in Seq(Segments)
  BY <1>1, ResetSegmentOf, LooseFields
<1> HIDE DEF d
<1>5. Differs(s, t, {"queue", "out"}) /\ t.queue = s.queue /\ t.out = Append(s.out, d)
  BY <1>1 DEF Differs, AlikeBut, Core, SocketFields
<1> HIDE DEF t
<1>6. \A i \in DOMAIN t.out : SegmentGood(t.out[i], s, e)
  <2>1. \A i \in DOMAIN s.out : SegmentGood(s.out[i], s, e)
    BY <1>1 DEF Speaks
  <2> QED BY <1>3, <1>4, <1>5, <2>1
<1>7. Speaks(t, e)
  <2>1. /\ ~s.owned \/ s.state = "TIME_WAIT" => t.queue = <<>>
        /\ \A i \in DOMAIN t.queue : HeaderGood(t.queue[i], s, e)
        /\ AlikeBut(s, t, {"queue", "out"})
    BY <1>1, <1>5 DEF Speaks, Ready, Differs
  <2> QED BY <1>1, <1>6, <2>1, SpeaksAnew
<1> QED BY <1>2, <1>5, <1>7, ServesAnswer DEF t, d

LEMMA StateClosedServes ==
    ASSUME NEW s, NEW e, InOrder(s, e), NEW seg \in Segments
    PROVE  Serves(s, StateClosed(s, seg), e)
<1>1. StateClosed(s, seg) \in {s, [s EXCEPT !.out = Append(@, ResetSegment(seg))]}
  BY DEF StateClosed
<1> QED BY <1>1, AnswerServes, ServesSelf

LEMMA SameServes ==
    ASSUME NEW s, NEW e, InOrder(s, e), NEW t, Loose(t), Differs(s, t, {})
    PROVE  Serves(s, t, e)
<1>1. /\ Loose(s) /\ EnvOK(e) /\ Speaks(s, e) /\ Right(s, e)
  BY InOrderOf
<1>2. Differs(s, t, {"probing"})
  BY DiffersMore
<1>3. Talks(s, t, {"probing"}, e)
  BY <1>1, <1>2, SpeaksOfSame DEF Talks
<1> QED BY <1>1, <1>3, ServesTalk DEF Sending

LEMMA StateListenServes ==
    ASSUME NEW s, NEW e, InOrder(s, e), NEW src \in Hosts, NEW seg \in Segments
    PROVE  Serves(s, StateListen(s, src, seg), e)
<1> DEFINE item == [src |-> src, isn |-> seg.seq]
           queued == Append(s.synQueue, item)
           r == [s EXCEPT !.synQueue = queued]
           t == UpdateEvents(r)
<1>1. StateListen(s, src, seg) \in {s, [s EXCEPT !.out = Append(@, ResetSegment(seg))], t}
  BY DEF StateListen
<1>2. Fit(s) /\ DOMAIN s = SocketFields
  BY InOrderOf
<1>3. ASSUME StateListen(s, src, seg) = t
      PROVE  Serves(s, StateListen(s, src, seg), e)
  <2>1. Loose(StateListen(s, src, seg))
    BY <1>2, StateListenFits DEF Fit, Bounded
  <2> HIDE DEF queued
  <2>2. Differs(s, r, {}) /\ DOMAIN r = SocketFields
    BY <1>2 DEF Differs, AlikeBut, Core, SocketFields
  <2> HIDE DEF r
  <2>3. Differs(r, t, {})
    BY <2>2, EventsDiffer
  <2>4. Differs(s, t, {})
    BY <2>2, <2>3, DiffersOf
  <2> QED BY <1>3, <2>1, <2>4, SameServes
<1> HIDE DEF t
<1> QED BY <1>1, <1>3, AnswerServes, ServesSelf

LEMMA FreeRight ==
    ASSUME NEW s, Loose(s), NEW e, EnvOK(e), Speaks(s, e)
    PROVE  LET t == Free(s)
           IN  /\ Right(t, e) /\ DOMAIN t = SocketFields
               /\ t.owned = FALSE /\ t.state = "CLOSED" /\ t.closedFlag = FALSE
               /\ t.probing = FALSE /\ t.out = s.out /\ t.rcvNxt \in SeqNums
<1> DEFINE t == Free(s)
<1>1. DOMAIN Unused = SocketFields /\ Unused.rcvNxt \in SeqNums
  BY UnusedFits, LooseFields DEF Fit, Bounded
<1>2. /\ DOMAIN t = SocketFields
      /\ \A f \in SocketFields \ {"out", "nic"} : t[f] = Unused[f]
      /\ t.out = s.out
  BY <1>1 DEF Free, SocketFields
<1>3. /\ Unused.owned = FALSE /\ Unused.state = "CLOSED" /\ Unused.closedFlag = FALSE
      /\ Unused.probing = FALSE /\ Unused.queue = <<>>
  BY DEF Unused
<1> HIDE DEF t
<1>4. /\ t.owned = FALSE /\ t.state = "CLOSED" /\ t.closedFlag = FALSE
      /\ t.probing = FALSE /\ t.queue = <<>> /\ t.rcvNxt \in SeqNums
  BY <1>1, <1>2, <1>3 DEF SocketFields
<1>5. Ready(t, e)
  BY <1>4 DEF Ready, Hearing
<1>6. \A i \in DOMAIN t.queue : HeaderGood(t.queue[i], t, e)
  BY <1>4
<1>7. \A i \in DOMAIN t.out : SegmentGood(t.out[i], t, e)
  <2>1. SUFFICES ASSUME NEW i \in DOMAIN s.out
                 PROVE  SegmentGood(s.out[i], t, e)
    BY <1>2
  <2>2. SegmentGood(s.out[i], s, e)
    BY DEF Speaks
  <2>3. s.out[i] \in Segments
    BY LooseFields
  <2>4. AckBelow(s.out[i], e.peer, Limit(t, e.reads, e.peer))
    BY <1>4, <2>3, SegmentFields, AckOwn DEF Hearing
  <2> QED BY <2>2, <2>4 DEF SegmentGood
<1>8. Hears(t, e)
  BY <1>4 DEF Hears, Hearing
<1> QED BY <1>2, <1>4, <1>5, <1>6, <1>7, <1>8 DEF Right, Speaks, t

LEMMA DisposeServes ==
    ASSUME NEW s, NEW e, InOrder(s, e)
    PROVE  Serves(s, Dispose(s), e)
<1> DEFINE t == Free(s)
<1>1. Fit(s) /\ Loose(s) /\ EnvOK(e) /\ Speaks(s, e) /\ s.rcvNxt \in SeqNums
  BY InOrderOf
<1>2. Dispose(s) = IF s.owned THEN s ELSE t
  BY DEF Dispose
<1>3. /\ Right(t, e) /\ t.owned = FALSE /\ t.state = "CLOSED" /\ t.closedFlag = FALSE
      /\ t.rcvNxt \in SeqNums
  BY <1>1, FreeRight
<1>4. Loose(t)
  BY <1>1, FreeFits DEF Fit, Bounded
<1> HIDE DEF t
<1>5. Onward(s, t, e)
  BY <1>1, <1>3, OnwardIf DEF Hearing
<1>6. ~s.owned => Serves(s, t, e)
  BY <1>3, <1>4, <1>5 DEF Serves, Live
<1> QED BY <1>2, <1>6, ServesSelf DEF t

LEMMA StateTimeWaitServes ==
    ASSUME NEW s, NEW e, InOrder(s, e), NEW seg \in Segments
    PROVE  Serves(s, StateTimeWait(s, seg), e)
<1> DEFINE t == ChangeState(s, "CLOSED")
<1>1. StateTimeWait(s, seg) \in {Dispose(t), Refuse(s, seg), SendAck(s), s}
  BY DEF StateTimeWait
<1>2. Fit(s) /\ Loose(s) /\ EnvOK(e) /\ Speaks(s, e) /\ DOMAIN s = SocketFields
  BY InOrderOf
<1>3. Serves(s, t, e) /\ InOrder(t, e)
  BY <1>2, ServesClose, CloseFits, ServesInOrder
<1> HIDE DEF t
<1>4. Serves(s, Dispose(t), e)
  BY <1>2, <1>3, DisposeServes, ServesOf
<1>5. Serves(s, SendAck(s), e)
  <2>1. Loose(SendAck(s)) /\ Differs(s, SendAck(s), {"queue", "out"}) /\ Speaks(SendAck(s), e)
    BY <1>2, SendAckFits, SendAckDiffers, SendAckSpeaks
  <2> QED BY <2>1, ServesAnswer
<1> QED BY <1>1, <1>4, <1>5, RefuseServes, ServesSelf

-----------------------------------------------------------------------------
(* The handshake *)

\* What is queued and sent acknowledges nothing, or what was received.
Acks(g, s) == Mute(g) \/ g.ack = s.rcvNxt

Answered(s) ==
    /\ \A i \in DOMAIN s.queue : Acks(s.queue[i], s)
    /\ \A i \in DOMAIN s.out : Acks(s.out[i], s)

LEMMA SentIs ==
    ASSUME NEW s, Loose(s), NEW flags \in SUBSET Flags, NEW seqNum \in SeqNums,
           NEW ackNum \in SeqNums, NEW length \in 0 .. Mss, NEW addToQueue \in BOOLEAN
    PROVE  LET t == SendSegment(s, flags, seqNum, ackNum, length, addToQueue)
               q == Header(s, flags, seqNum, ackNum, length)
           IN  /\ q \in Headers /\ q.flags = flags /\ q.seq = seqNum /\ q.length = length
               /\ q.ack = IF "ACK" \in flags THEN ackNum ELSE 0
               /\ Segment(s, q).flags = q.flags /\ Segment(s, q).ack = q.ack
               /\ t.queue \in {s.queue, Append(s.queue, q)}
               /\ ~addToQueue => t.queue = s.queue
               /\ t.out \in {s.out, Append(s.out, Segment(s, q))}
<1> DEFINE q == Header(s, flags, seqNum, ackNum, length)
           t == SendSegment(s, flags, seqNum, ackNum, length, addToQueue)
<1>1. q \in Headers
  <2>1. s.rcvWnd \in 0 .. RxBufferSize
    BY Sizes DEF Loose, ReceiveOK
  <2> QED BY <2>1, HeaderOf
<1>2. /\ q.flags = flags /\ q.seq = seqNum /\ q.length = length
      /\ q.ack = IF "ACK" \in flags THEN ackNum ELSE 0
  BY DEF Header
<1>3. Segment(s, q).flags = q.flags /\ Segment(s, q).ack = q.ack
  BY DEF Segment
<1>4. /\ t.queue \in {s.queue, Append(s.queue, q)}
      /\ ~addToQueue => t.queue = s.queue
      /\ t.out \in {s.out, Append(s.out, Segment(s, q))}
  BY LooseFields DEF SendSegment, SocketFields
<1> QED BY <1>1, <1>2, <1>3, <1>4

LEMMA Appended ==
    ASSUME NEW S, NEW p \in Seq(S), NEW x \in S, NEW i \in DOMAIN Append(p, x)
    PROVE  (i \in DOMAIN p /\ Append(p, x)[i] = p[i]) \/ Append(p, x)[i] = x
OBVIOUS

LEMMA SentAnswered ==
    ASSUME NEW s, Loose(s), Answered(s), NEW flags \in SUBSET Flags, NEW seqNum \in SeqNums,
           NEW ackNum \in SeqNums, NEW length \in 0 .. Mss, NEW addToQueue \in BOOLEAN,
           "ACK" \in flags => ackNum = s.rcvNxt
    PROVE  Answered(SendSegment(s, flags, seqNum, ackNum, length, addToQueue))
<1> DEFINE q == Header(s, flags, seqNum, ackNum, length)
           g == Segment(s, q)
           t == SendSegment(s, flags, seqNum, ackNum, length, addToQueue)
<1>1. /\ q \in Headers /\ q.flags = flags /\ q.seq = seqNum /\ q.length = length
      /\ q.ack = IF "ACK" \in flags THEN ackNum ELSE 0
      /\ g.flags = q.flags /\ g.ack = q.ack
      /\ t.queue \in {s.queue, Append(s.queue, q)}
      /\ ~addToQueue => t.queue = s.queue
      /\ t.out \in {s.out, Append(s.out, g)}
  BY SentIs
<1>0. g \in Segments
  BY <1>1, SegmentOf DEF Loose, SendOK
<1>2. Differs(s, t, {"queue", "out"}) /\ s.queue \in Seq(Headers) /\ s.out \in Seq(Segments)
  BY LooseFields, SendSegmentDiffers
<1> HIDE DEF q, g, t
<1>3. t.rcvNxt = s.rcvNxt
  BY <1>2 DEF Differs, AlikeBut, Core
<1>4. Acks(q, t) /\ Acks(g, t)
  BY <1>1, <1>3 DEF Acks, Mute
<1>5. \A i \in DOMAIN t.queue : Acks(t.queue[i], t)
  <2>1. \A i \in DOMAIN s.queue : Acks(s.queue[i], t)
    BY <1>3 DEF Answered, Acks
  <2>2. ASSUME NEW i \in DOMAIN t.queue
        PROVE  (i \in DOMAIN s.queue /\ t.queue[i] = s.queue[i]) \/ t.queue[i] = q
    <3>1. CASE t.queue = s.queue
      BY <3>1
    <3>2. CASE t.queue = Append(s.queue, q)
      BY <1>1, <1>2, <3>2, Appended
    <3> QED BY <1>1, <3>1, <3>2
  <2> QED BY <1>4, <2>1, <2>2
<1>6. \A i \in DOMAIN t.out : Acks(t.out[i], t)
  <2>1. \A i \in DOMAIN s.out : Acks(s.out[i], t)
    BY <1>3 DEF Answered, Acks
  <2>2. ASSUME NEW i \in DOMAIN t.out
        PROVE  (i \in DOMAIN s.out /\ t.out[i] = s.out[i]) \/ t.out[i] = g
    <3>1. CASE t.out = s.out
      BY <3>1
    <3>2. CASE t.out = Append(s.out, g)
      BY <1>0, <1>2, <3>2, Appended
    <3> QED BY <1>1, <3>1, <3>2
  <2> QED BY <1>4, <2>1, <2>2
<1> QED BY <1>5, <1>6 DEF Answered, t

\* The SYN, and the SYN that answers one.
LEMMA SynSpeaks ==
    ASSUME NEW s, Loose(s), NEW e, EnvOK(e), Speaks(s, e), s.owned, s.state # "TIME_WAIT",
           NEW flags, flags \in {{"SYN"}, {"SYN", "ACK"}},
           NEW seqNum, seqNum = s.iss, NEW ackNum \in SeqNums,
           "ACK" \in flags => ackNum = s.rcvNxt
    PROVE  Speaks(SendSegment(s, flags, seqNum, ackNum, 0, TRUE), e)
<1> DEFINE none == 0
           queued == TRUE
           q == Header(s, flags, seqNum, ackNum, none)
<1>1. /\ flags \in SUBSET Flags /\ seqNum \in SeqNums /\ none \in 0 .. Mss
      /\ queued \in BOOLEAN /\ none = 0 /\ s.rcvNxt \in SeqNums
  BY LooseFields, Sizes DEF Flags
<1> HIDE DEF none, queued
<1>2. /\ q \in Headers /\ q.flags = flags /\ q.seq = seqNum /\ q.length = none
      /\ q.ack = IF "ACK" \in flags THEN ackNum ELSE 0
  BY <1>1, SentIs
<1> HIDE DEF q
<1>3. HeaderRight(q, e)
  <2>1. s.iss = e.own /\ e.own \in SeqNums
    BY DEF Speaks, Ready, Placed, EnvOK
  <2>2. Minus(q.seq, e.own) = 0
    BY <1>2, <2>1, MinusIs
  <2>3. ~(q.length > 0) /\ q.length = 0 /\ "RST" \notin q.flags /\ "FIN" \notin q.flags
    BY <1>1, <1>2
  <2> QED BY <2>2, <2>3 DEF HeaderRight
<1>4. AckBelow(q, e.peer, Limit(s, e.reads, e.peer))
  BY <1>1, <1>2, HeaderFields, AckOwn
<1>5. HeaderGood(q, s, e)
  BY <1>1, <1>2, <1>3, <1>4 DEF HeaderGood
<1>6. Ready(s, e)
  BY DEF Speaks
<1>7. SegmentGood(Segment(s, q), s, e)
  BY <1>2, <1>5, <1>6, HeaderSends
<1>8. Speaks(SendSegment(s, flags, seqNum, ackNum, none, queued), e)
  BY <1>1, <1>5, <1>7, SendSegmentSpeaks DEF q
<1> QED BY <1>8 DEF none, queued

\* A socket that is about to hear of its peer.
Beginning(s, e) ==
    /\ Loose(s) /\ EnvOK(e) /\ Speaks(s, e) /\ Answered(s)
    /\ s.owned /\ s.txBuffer # Released
    /\ s.irs = e.peer /\ s.rcvNxt = Plus(e.peer, 1)
    /\ e.got = 0 /\ s.rcvUser = 0 /\ s.sackBlock = <<>>
    /\ s.rxBuffer \in [0 .. RxBufferSize - 1 -> Nat]

\* It hears what follows the SYN of the peer.
Begun(t, e) ==
    /\ Right(t, e) /\ t.owned
    /\ t.state \in {"ESTABLISHED", "SYN_RECEIVED"}
    /\ t.rcvNxt \in SeqNums /\ Minus(t.rcvNxt, e.peer) = 1

LEMMA BeginningBegins ==
    ASSUME NEW s, NEW e, Beginning(s, e), NEW newState \in {"ESTABLISHED", "SYN_RECEIVED"}
    PROVE  LET t == ChangeState(s, newState)
           IN  Begun(t, e) /\ (~s.closedFlag => ~t.closedFlag) /\ t.state = newState
<1> DEFINE t == ChangeState(s, newState)
<1>1. /\ Loose(s) /\ EnvOK(e) /\ Speaks(s, e) /\ Ready(s, e)
      /\ s.queue \in Seq(Headers) /\ s.out \in Seq(Segments)
      /\ DOMAIN s = SocketFields /\ s.rcvNxt \in SeqNums
  BY LooseFields DEF Beginning, Speaks
<1>2. /\ Differs(s, t, {"state", "closedFlag"}) /\ t.state = newState
      /\ t.closedFlag => s.closedFlag
  BY <1>1, EventsDiffer
<1> HIDE DEF t
<1>3. /\ t.owned = s.owned /\ t.iss = s.iss /\ t.irs = s.irs
      /\ t.sndUna = s.sndUna /\ t.sndNxt = s.sndNxt /\ t.sndUser = s.sndUser
      /\ t.rcvNxt = s.rcvNxt /\ t.rcvUser = s.rcvUser /\ t.sackBlock = s.sackBlock
      /\ t.queue = s.queue /\ t.txBuffer = s.txBuffer /\ t.out = s.out
      /\ t.rxBuffer = s.rxBuffer
  BY <1>2 DEF Differs, AlikeBut, Core
<1>4. Ready(t, e)
  <2>1. /\ Placed(s, e) => Placed(t, e)
        /\ Stored(s, e) => Stored(t, e)
    BY <1>3 DEF Placed, Stored
  <2> QED BY <1>1, <1>2, <1>3, <2>1 DEF Ready, Beginning
<1>5. \A i \in DOMAIN t.queue : HeaderGood(t.queue[i], t, e)
  <2> SUFFICES ASSUME NEW i \in DOMAIN s.queue
               PROVE  HeaderGood(s.queue[i], t, e)
    BY <1>3
  <2> DEFINE q == s.queue[i]
  <2>1. q \in Headers /\ HeaderGood(q, s, e) /\ Acks(q, s)
    BY <1>1 DEF Speaks, Beginning, Answered
  <2> HIDE DEF q
  <2>2. q.ack \in SeqNums
    BY <2>1, HeaderFields
  <2>3. AckBelow(q, e.peer, Limit(t, e.reads, e.peer))
    BY <1>1, <1>3, <2>1, <2>2, AckOwn DEF Acks, Mute
  <2>4. HeaderGood(q, t, e)
    BY <1>3, <2>1, <2>3 DEF HeaderGood
  <2> QED BY <2>4 DEF q
<1>6. \A i \in DOMAIN t.out : SegmentGood(t.out[i], t, e)
  <2> SUFFICES ASSUME NEW i \in DOMAIN s.out
               PROVE  SegmentGood(s.out[i], t, e)
    BY <1>3
  <2> DEFINE g == s.out[i]
  <2>1. g \in Segments /\ SegmentGood(g, s, e) /\ Acks(g, s)
    BY <1>1 DEF Speaks, Beginning, Answered
  <2> HIDE DEF g
  <2>2. g.ack \in SeqNums
    BY <2>1, SegmentFields
  <2>3. AckBelow(g, e.peer, Limit(t, e.reads, e.peer))
    BY <1>1, <1>3, <2>1, <2>2, AckOwn DEF Acks, Mute
  <2>4. SegmentGood(g, t, e)
    BY <2>1, <2>3 DEF SegmentGood
  <2> QED BY <2>4 DEF g
<1>7. t.rcvNxt \in SeqNums /\ Minus(t.rcvNxt, e.peer) = 1
  <2> DEFINE p == e.peer
             one == 1
             r == Minus(Plus(p, one), p)
  <2>1. p \in SeqNums /\ t.rcvNxt = Plus(p, 1) /\ SeqSpace > 2 /\ SeqSpace \in Nat
    BY <1>3, Sizes DEF EnvOK, Beginning
  <2>2. Minus(p, p) = 0
    BY <2>1, MinusIs
  <2>3. one \in 0 .. SeqSpace - 1 /\ one = 1
    BY <2>1
  <2>4. r = Minus(t.rcvNxt, e.peer)
    BY <2>1
  <2> HIDE DEF p, one
  <2>5. r = IF Minus(p, p) + one < SeqSpace THEN Minus(p, p) + one
            ELSE Minus(p, p) + one - SeqSpace
    BY <2>1, <2>3, MinusOfPlus
  <2> HIDE DEF r
  <2>6. r = 1
    BY <2>1, <2>2, <2>3, <2>5
  <2> QED BY <1>1, <1>3, <2>4, <2>6
<1>8. Hears(t, e)
  <2>1. e.theirs \in Nat
    BY <1>1 DEF EnvOK, Short
  <2>2. /\ t.irs = e.peer /\ t.rcvUser = 0 /\ t.sackBlock = <<>> /\ e.got = 0
        /\ t.rxBuffer \in [0 .. RxBufferSize - 1 -> Nat] /\ t.state # "CLOSE_WAIT"
    BY <1>2, <1>3 DEF Beginning
  <2>3. Heard(t, e)
    BY <1>7, <2>1, <2>2 DEF Heard
  <2>4. \A j \in e.got + 1 .. e.got + t.rcvUser : FALSE
    BY <2>2
  <2> QED BY <2>2, <2>3, <2>4 DEF Hears
<1>9. Speaks(t, e)
  BY <1>4, <1>5, <1>6 DEF Speaks
<1>10. Begun(t, e)
  BY <1>2, <1>3, <1>7, <1>8, <1>9 DEF Begun, Right, Beginning
<1> QED BY <1>2, <1>10 DEF t

\* What tcpStateSynSent makes of the SYN: the socket before the answer.
LEMMA SynTaken ==
    ASSUME NEW s, NEW e, InOrder(s, e), s.state = "SYN_SENT", FreshSocket(s), s.out = <<>>,
           e.got = 0, NEW seg, Comes(seg, s, e), "SYN" \in seg.flags, "RST" \notin seg.flags,
           "ACK" \in seg.flags => seg.ack = s.sndNxt
    PROVE  LET una == IF "ACK" \in seg.flags THEN seg.ack ELSE s.sndUna
               next == Plus(seg.seq, 1)
               r == [s EXCEPT !.irs = seg.seq, !.rcvNxt = next, !.sndUna = una]
               t == UpdateRetransmitQueue(r)
               u == [t EXCEPT !.cwnd = Least(3 * Mss, TxBufferSize)]
           IN  /\ Beginning(u, e) /\ u.state = "SYN_SENT"
               /\ u.closedFlag = s.closedFlag /\ u.iss = s.iss /\ u.sndUna = una
<1> DEFINE acked == "ACK" \in seg.flags
           una == IF acked THEN seg.ack ELSE s.sndUna
           next == Plus(seg.seq, 1)
           r0 == [s EXCEPT !.sndUna = una]
           r == [s EXCEPT !.irs = seg.seq, !.rcvNxt = next, !.sndUna = una]
           t == UpdateRetransmitQueue(r)
           cwnd == Least(3 * Mss, TxBufferSize)
           u == [t EXCEPT !.cwnd = cwnd]
           T == {q \in Headers : Mute(q)}
<1>1. /\ Fit(s) /\ Loose(s) /\ EnvOK(e) /\ Speaks(s, e) /\ Ready(s, e)
      /\ DOMAIN s = SocketFields /\ s.owned /\ s.txBuffer # Released
      /\ s.rcvNxt \in SeqNums /\ s.sndUna \in SeqNums /\ s.sndNxt \in SeqNums
      /\ s.queue \in Seq(Headers) /\ s.sackBlock = <<>> /\ s.rcvUser = 0
      /\ s.rxBuffer \in [0 .. RxBufferSize - 1 -> Nat]
      /\ \A i \in DOMAIN s.queue : Mute(s.queue[i])
  BY InOrderOf, LooseFields DEF Speaks, FreshSocket, Fit, BlocksOK
<1>2. /\ seg \in Segments /\ seg.seq \in SeqNums /\ seg.ack \in SeqNums
      /\ AckBelow(seg, e.own, e.low)
      /\ SegmentRight(seg, e.peer, e.theirs, e.over, Limit(s, e.reads, e.peer))
  BY SegmentFields DEF Comes
<1>3. seg.seq = e.peer
  <2> DEFINE x == seg.seq
             y == e.peer
  <2>1. Minus(x, y) = 0 /\ x \in SeqNums /\ y \in SeqNums
    BY <1>1, <1>2 DEF SegmentRight, EnvOK
  <2> HIDE DEF x, y
  <2>2. Minus(x, y) = 0 => x = y
    BY <2>1, MinusIs
  <2> QED BY <2>1, <2>2 DEF x, y
<1>4. una \in SeqNums /\ next \in SeqNums
  BY <1>1, <1>2, PlusOf
<1>5. Speaks(r0, e)
  <2>1. AlikeBut(s, r0, {"sndUna"}) /\ r0.sndUna = una
    BY <1>1 DEF AlikeBut, Core, SocketFields
  <2>2. CASE acked
    <3>1. una = s.sndNxt /\ una = seg.ack
      BY <2>2
    <3>2. InFlight(s) \in Nat /\ Minus(una, s.sndUna) <= InFlight(s)
      BY <1>1, <3>1, MinusIs DEF InFlight
    <3>3. Minus(una, e.own) <= e.low
      BY <1>2, <2>2 DEF AckBelow
    <3> HIDE DEF una, r0
    <3> QED BY <1>1, <1>4, <2>1, <3>2, <3>3, AdvanceSpeaks
  <2>3. CASE ~acked
    <3>1. AlikeBut(s, r0, {})
      BY <1>1, <2>3 DEF AlikeBut, Core, SocketFields
    <3> HIDE DEF r0
    <3> QED BY <1>1, <3>1, SpeaksAlike
  <2> QED BY <2>2, <2>3
<1>6. /\ DOMAIN r0 = SocketFields
      /\ AlikeBut(r0, r, {"irs", "rcvNxt"})
      /\ r.irs = seg.seq /\ r.rcvNxt = next /\ r.sndUna = una
      /\ r0.state = "SYN_SENT" /\ r0.rcvNxt = s.rcvNxt
      /\ DOMAIN r = SocketFields
  BY <1>1 DEF AlikeBut, Core, SocketFields
<1>7. /\ r.owned = s.owned /\ r.state = s.state /\ r.iss = s.iss
      /\ r.sndNxt = s.sndNxt /\ r.sndUser = s.sndUser /\ r.rcvUser = s.rcvUser
      /\ r.queue = s.queue /\ r.sackBlock = s.sackBlock /\ r.txBuffer = s.txBuffer
      /\ r.rxBuffer = s.rxBuffer /\ r.closedFlag = s.closedFlag /\ r.out = s.out
      /\ r0.queue = s.queue /\ r0.out = s.out /\ r0.txBuffer = s.txBuffer
  BY <1>1 DEF SocketFields
<1>8. Loose(r0) /\ Loose(r)
  <2>1. SendOK(r) /\ SendOK(r0)
    BY <1>1, <1>4 DEF SendOK, SocketFields, Loose
  <2>2. ReceiveOK(r) /\ ReceiveOK(r0)
    BY <1>1, <1>2, <1>4 DEF ReceiveOK, SocketFields, Loose
  <2>3. SameWaiter(s, r) /\ SameWaiter(s, r0)
    BY <1>1 DEF SameWaiter, SocketFields
  <2> HIDE DEF r, r0
  <2> QED BY <1>1, <2>1, <2>2, <2>3, SameWaiterOK DEF Loose
<1> HIDE DEF r, r0, una, next, cwnd
<1>9. Speaks(r, e)
  <2>1. Ready(r, e)
    BY <1>5, <1>6, ReadyAlike DEF Speaks
  <2>2. Limit(r0, e.reads, e.peer) <= Limit(r, e.reads, e.peer)
    BY <1>1, <1>4, <1>6, <1>7, LimitIs DEF Hearing
  <2> QED BY <1>1, <1>4, <1>5, <1>6, <1>7, <1>8, <2>1, <2>2, SpeaksOn
<1>10. /\ Loose(t) /\ Speaks(t, e) /\ Differs(r, t, {"queue"})
       /\ t.queue = PendingSegments(r)
  <2>1. t.queue = PendingSegments(r)
    BY <1>6 DEF UpdateRetransmitQueue, SocketFields
  <2> QED BY <1>8, <1>9, <2>1, UpdateRetransmitQueueFits, UpdateQueueSpeaks
<1>11. t.queue \in Seq(T)
  <2>1. r.queue \in Seq(T)
    <3>1. \A i \in 1 .. Len(s.queue) : s.queue[i] \in T
      BY <1>1
    <3> QED BY <1>1, <1>7, <3>1
  <2> HIDE DEF T
  <2> QED BY <1>10, <2>1, PendingOf
<1> HIDE DEF t
<1>12. Loose(u) /\ Differs(t, u, {})
  <2>1. DOMAIN t = SocketFields
    BY <1>10 DEF Differs
  <2>2. cwnd \in Nat
    BY Sizes DEF Least, cwnd
  <2> QED BY <1>10, <2>1, <2>2, CwndFits, CongestionDiffers
<1> HIDE DEF u
<1>13. /\ Differs(t, u, {"probing"}) /\ Differs(r, u, {"queue"}) /\ u.queue = t.queue
  BY <1>10, <1>12, DiffersMore, DiffersOf DEF Differs, AlikeBut, Core
<1>14. Speaks(u, e)
  BY <1>10, <1>13, SpeaksOfSame
<1>15. /\ u.owned = s.owned /\ u.state = s.state /\ u.iss = s.iss /\ u.sndUna = una
       /\ u.irs = seg.seq /\ u.rcvNxt = next
       /\ u.rcvUser = s.rcvUser /\ u.sackBlock = s.sackBlock /\ u.txBuffer = s.txBuffer
       /\ u.rxBuffer = s.rxBuffer /\ u.closedFlag = s.closedFlag /\ u.out = <<>>
  BY <1>6, <1>7, <1>13 DEF Differs, AlikeBut, Core
<1>16. Answered(u)
  <2>1. \A i \in DOMAIN u.queue : Mute(u.queue[i])
    BY <1>11, <1>13
  <2>2. u.out = <<>>
    BY <1>15
  <2> QED BY <2>1, <2>2 DEF Answered, Acks
<1>17. Beginning(u, e)
  BY <1>1, <1>3, <1>12, <1>14, <1>15, <1>16 DEF Beginning, next
<1> QED BY <1>15, <1>17 DEF u, t, r, cwnd, una, next

LEMMA BeginningSame ==
    ASSUME NEW s, NEW e, Beginning(s, e), NEW t, Loose(t), Differs(s, t, {})
    PROVE  Beginning(t, e)
<1>1. /\ t.owned = s.owned /\ t.irs = s.irs /\ t.rcvNxt = s.rcvNxt /\ t.queue = s.queue
      /\ t.rcvUser = s.rcvUser /\ t.sackBlock = s.sackBlock /\ t.txBuffer = s.txBuffer
      /\ t.rxBuffer = s.rxBuffer /\ t.out = s.out
  BY DEF Differs, AlikeBut, Core
<1>2. Speaks(t, e)
  BY SpeaksOfSame, DiffersMore DEF Beginning
<1>3. Answered(t)
  BY <1>1 DEF Beginning, Answered, Acks
<1> QED BY <1>1, <1>2, <1>3 DEF Beginning

LEMMA BeginningSends ==
    ASSUME NEW s, NEW e, Beginning(s, e), s.state # "TIME_WAIT"
    PROVE  /\ Beginning(SendAck(s), e) /\ Differs(s, SendAck(s), {"queue", "out"})
           /\ Beginning(SendSegment(s, {"SYN", "ACK"}, s.iss, s.rcvNxt, 0, TRUE), e)
           /\ Differs(s, SendSegment(s, {"SYN", "ACK"}, s.iss, s.rcvNxt, 0, TRUE),
                      {"queue", "out"})
<1> DEFINE iss == s.iss
           una == s.sndNxt
           nxt == s.rcvNxt
           ack == {"ACK"}
           synAck == {"SYN", "ACK"}
           none == 0
           queued == TRUE
           not == FALSE
           t == SendSegment(s, ack, una, nxt, none, not)
           u == SendSegment(s, synAck, iss, nxt, none, queued)
<1>1. /\ Loose(s) /\ EnvOK(e) /\ Speaks(s, e) /\ Answered(s) /\ DOMAIN s = SocketFields
      /\ s.owned
  BY LooseFields DEF Beginning
<1>2. /\ iss \in SeqNums /\ una \in SeqNums /\ nxt \in SeqNums /\ nxt = s.rcvNxt
      /\ iss = s.iss /\ none \in 0 .. Mss /\ queued \in BOOLEAN /\ not \in BOOLEAN
      /\ ack \in SUBSET Flags /\ synAck \in SUBSET Flags
      /\ synAck = {"SYN", "ACK"}
  BY <1>1, LooseFields, Sizes DEF Flags
<1>3. Speaks(t, e) /\ Speaks(u, e)
  <2>1. Speaks(t, e)
    BY <1>1, SendAckSpeaks DEF SendAck
  <2>2. Speaks(SendSegment(s, synAck, iss, nxt, 0, TRUE), e)
    <3> HIDE DEF iss, nxt, synAck
    <3> QED BY <1>1, <1>2, SynSpeaks
  <2> QED BY <2>1, <2>2
<1>4. t = SendAck(s) /\ u = SendSegment(s, {"SYN", "ACK"}, s.iss, s.rcvNxt, 0, TRUE)
  BY DEF SendAck
<1> HIDE DEF iss, una, nxt, ack, synAck, none, queued, not
<1>5. /\ Loose(t) /\ Answered(t) /\ Differs(s, t, {"queue", "out"})
      /\ Loose(u) /\ Answered(u) /\ Differs(s, u, {"queue", "out"})
  <2>1. Loose(t) /\ Loose(u)
    BY <1>1, <1>2, SendSegmentFits
  <2>2. Answered(t) /\ Answered(u)
    BY <1>1, <1>2, SentAnswered
  <2> QED BY <1>1, <2>1, <2>2, SendSegmentDiffers
<1> HIDE DEF t, u
<1>6. ASSUME NEW v, v \in {t, u}
      PROVE  Beginning(v, e)
  <2>1. Differs(s, v, {"queue", "out"}) /\ Loose(v) /\ Answered(v) /\ Speaks(v, e)
    BY <1>3, <1>5, <1>6
  <2>2. /\ v.owned = s.owned /\ v.irs = s.irs /\ v.rcvNxt = s.rcvNxt
        /\ v.rcvUser = s.rcvUser /\ v.sackBlock = s.sackBlock /\ v.txBuffer = s.txBuffer
        /\ v.rxBuffer = s.rxBuffer
    BY <2>1 DEF Differs, AlikeBut, Core
  <2> QED BY <2>1, <2>2 DEF Beginning
<1> QED BY <1>4, <1>5, <1>6

LEMMA StateSynSentRight ==
    ASSUME NEW s, NEW e, InOrder(s, e), s.state = "SYN_SENT", FreshSocket(s), s.out = <<>>,
           e.got = 0, NEW seg, Comes(seg, s, e)
    PROVE  LET t == StateSynSent(s, seg)
           IN  \/ /\ Serves(s, t, e) /\ t.state = "SYN_SENT" /\ FreshSocket(t)
                  /\ \A i \in DOMAIN t.out : Mute(t.out[i])
               \/ Serves(s, t, e) /\ t.state = "CLOSED"
               \/ Loose(t) /\ Begun(t, e) /\ (e.reads => Live(t))
<1> DEFINE acked == "ACK" \in seg.flags
           una == IF acked THEN seg.ack ELSE s.sndUna
           next == Plus(seg.seq, 1)
           r == [s EXCEPT !.irs = seg.seq, !.rcvNxt = next, !.sndUna = una]
           t == UpdateRetransmitQueue(r)
           u == [t EXCEPT !.cwnd = Least(3 * Mss, TxBufferSize)]
           new == seg.ack
           none == 0
           a == SendSegment(s, {"RST"}, seg.ack, 0, 0, FALSE)
           b == ChangeState(s, "CLOSED")
           v == InitSendWindow(u, seg)
           c == ChangeState(SendAck(v), "ESTABLISHED")
           d == SendSegment(u, {"SYN", "ACK"}, u.iss, u.rcvNxt, 0, TRUE)
           f == ChangeState(d, "SYN_RECEIVED")
           z == StateSynSent(s, seg)
<1>1. /\ Fit(s) /\ Loose(s) /\ DOMAIN s = SocketFields /\ seg \in Segments
      /\ e.reads => ~s.closedFlag
  BY InOrderOf DEF Comes, InOrder, Live
<1>2. \/ z \in {s, a, b}
      \/ /\ "SYN" \in seg.flags /\ "RST" \notin seg.flags
         /\ acked => seg.ack = s.sndNxt
         /\ z \in {c, f}
  <2>1. r = [s EXCEPT !.irs = seg.seq, !.rcvNxt = Plus(seg.seq, 1),
                      !.sndUna = IF acked THEN seg.ack ELSE @]
    BY <1>1
  <2> HIDE DEF r
  <2> QED BY <2>1 DEF StateSynSent
<1>3. CASE z = s
  <2>1. \A i \in DOMAIN s.out : Mute(s.out[i])
    OBVIOUS
  <2> QED BY <1>3, <2>1, ServesSelf
<1>4. CASE z = a
  <2>1. Serves(s, a, e) /\ Differs(s, a, {"queue", "out"})
    BY <1>1, SendResetServes
  <2>2. a.queue = s.queue
    BY <1>1 DEF SendSegment, SocketFields
  <2>5. \A i \in DOMAIN a.out : Mute(a.out[i])
    <3> DEFINE q == Header(s, {"RST"}, seg.ack, 0, 0)
               g == Segment(s, q)
    <3>1. a.out \in {<<>>, <<g>>}
      BY <1>1 DEF SendSegment, SocketFields
    <3>2. Mute(g)
      BY DEF Mute, Segment, Header
    <3> HIDE DEF a, g
    <3> QED BY <3>1, <3>2
  <2> HIDE DEF a
  <2>3. /\ a.state = s.state /\ a.probing = s.probing /\ a.owned = s.owned
        /\ a.rcvUser = s.rcvUser /\ a.rxBuffer = s.rxBuffer
    BY <2>1 DEF Differs, AlikeBut, Core
  <2>4. FreshSocket(a)
    BY <2>2, <2>3 DEF FreshSocket
  <2> QED BY <1>4, <2>1, <2>3, <2>4, <2>5
<1>5. CASE z = b
  <2>1. Serves(s, b, e) /\ b.state = "CLOSED"
    BY <1>1, ServesClose, EventsDiffer
  <2> QED BY <1>5, <2>1
<1>6. CASE z \notin {s, a, b}
  <2>1. /\ "SYN" \in seg.flags /\ "RST" \notin seg.flags /\ (acked => seg.ack = s.sndNxt)
        /\ z \in {c, f}
    BY <1>2, <1>6
  <2>2. Beginning(u, e) /\ u.state = "SYN_SENT" /\ u.closedFlag = s.closedFlag
    <3>1. /\ Comes(seg, s, e) /\ (("ACK" \in seg.flags) => seg.ack = s.sndNxt)
          /\ "SYN" \in seg.flags /\ "RST" \notin seg.flags
      BY <2>1
    <3>2. LET a1 == IF "ACK" \in seg.flags THEN seg.ack ELSE s.sndUna
              n1 == Plus(seg.seq, 1)
              r1 == [s EXCEPT !.irs = seg.seq, !.rcvNxt = n1, !.sndUna = a1]
              t1 == UpdateRetransmitQueue(r1)
              u1 == [t1 EXCEPT !.cwnd = Least(3 * Mss, TxBufferSize)]
          IN  /\ Beginning(u1, e) /\ u1.state = "SYN_SENT"
              /\ u1.closedFlag = s.closedFlag /\ u1.iss = s.iss /\ u1.sndUna = a1
      BY <3>1, SynTaken
    <3> QED BY <3>2
  <2>0. z = StateSynSent(s, seg) /\ Fit(z)
    BY <1>1, StateSynSentFits
  <2> HIDE DEF u, z
  <2>3. Loose(u) /\ DOMAIN u = SocketFields
    BY <2>2, LooseFields DEF Beginning
  <2>4. Loose(v) /\ Differs(u, v, {})
    BY <1>1, <2>3, InitSendWindowFits, WindowsDiffer
  <2> HIDE DEF v
  <2>5. Beginning(v, e) /\ v.state = "SYN_SENT" /\ v.closedFlag = s.closedFlag
    BY <2>2, <2>4, BeginningSame DEF Differs, AlikeBut, Core
  <2>6. Beginning(SendAck(v), e) /\ Differs(v, SendAck(v), {"queue", "out"})
    BY <2>5, BeginningSends
  <2>7. SendAck(v).closedFlag = s.closedFlag
    BY <2>5, <2>6 DEF Differs, AlikeBut, Core
  <2>8. Begun(c, e) /\ (~s.closedFlag => ~c.closedFlag)
    BY <2>6, <2>7, BeginningBegins
  <2>9. Beginning(d, e) /\ Differs(u, d, {"queue", "out"})
    BY <2>2, BeginningSends
  <2> HIDE DEF d
  <2>10. d.closedFlag = s.closedFlag
    BY <2>2, <2>9 DEF Differs, AlikeBut, Core
  <2>11. Begun(f, e) /\ (~s.closedFlag => ~f.closedFlag)
    BY <2>9, <2>10, BeginningBegins
  <2> HIDE DEF c, f
  <2>12. Begun(z, e) /\ (e.reads => ~z.closedFlag)
    BY <1>1, <2>1, <2>8, <2>11
  <2>13. Loose(z) /\ (e.reads => Live(z))
    BY <2>0, <2>12 DEF Begun, Live, Hearing, Fit, Bounded
  <2> QED BY <2>0, <2>12, <2>13
<1> QED BY <1>3, <1>4, <1>5, <1>6

\* In every other state.
LEMMA ProcessStateServes ==
    ASSUME NEW s, NEW e, InOrder(s, e), s.state # "SYN_SENT", NEW src \in Hosts, NEW seg,
           Comes(seg, s, e)
    PROVE  Serves(s, ProcessState(s, src, seg), e)
<1> DEFINE t == ProcessState(s, src, seg)
<1>1. s.state \in States /\ seg \in Segments
  BY InOrderOf DEF Comes
<1>2. s.state = "CLOSED" => Serves(s, t, e)
  BY <1>1, StateClosedServes DEF ProcessState
<1>3. s.state = "LISTEN" => Serves(s, t, e)
  BY <1>1, StateListenServes DEF ProcessState
<1>4. s.state = "SYN_RECEIVED" => Serves(s, t, e)
  BY StateSynReceivedServes DEF ProcessState
<1>5. s.state = "ESTABLISHED" => Serves(s, t, e)
  BY StateEstablishedServes DEF ProcessState
<1>6. s.state = "CLOSE_WAIT" => Serves(s, t, e)
  BY StateCloseWaitServes DEF ProcessState
<1>7. s.state = "LAST_ACK" => Serves(s, t, e)
  BY StateLastAckServes DEF ProcessState
<1>8. s.state = "FIN_WAIT_1" => Serves(s, t, e)
  BY StateFinWait1Serves DEF ProcessState
<1>9. s.state = "FIN_WAIT_2" => Serves(s, t, e)
  BY StateFinWait2Serves DEF ProcessState
<1>10. s.state = "CLOSING" => Serves(s, t, e)
  BY StateClosingServes DEF ProcessState
<1>11. s.state = "TIME_WAIT" => Serves(s, t, e)
  BY <1>1, StateTimeWaitServes DEF ProcessState
<1> HIDE DEF t
<1>12. Serves(s, t, e)
  BY <1>1, <1>2, <1>3, <1>4, <1>5, <1>6, <1>7, <1>8, <1>9, <1>10, <1>11 DEF States
<1> QED BY <1>12 DEF t

-----------------------------------------------------------------------------
(* The timers *)

LEMMA RetransmitTimeoutServes ==
    ASSUME NEW s, NEW e, InOrder(s, e)
    PROVE  Serves(s, RetransmitTimeout(s), e)
<1> DEFINE cwnd == Least(Mss, TxBufferSize)
           recover == Minus(s.sndNxt, 1)
           t == [s EXCEPT !.cwnd = cwnd, !.recover = recover,
                          !.congestState = "LOSS_RECOVERY"]
           r == RetransmitSegment(t)
           a == [r EXCEPT !.retransmitCount = @ + 1]
           q == ChangeState(s, "CLOSED")
           p == ChangeState(t, "CLOSED")
           b == [p EXCEPT !.retransmitTimer = FALSE]
<1>1. RetransmitTimeout(s) = IF s.retransmitCount < MaxRetries THEN a ELSE b
  BY DEF RetransmitTimeout
<1>2. /\ Fit(s) /\ Loose(s) /\ EnvOK(e) /\ Speaks(s, e) /\ Right(s, e) /\ DOMAIN s = SocketFields
      /\ s.sndNxt \in SeqNums
  BY InOrderOf, LooseFields
<1>3. Loose(RetransmitTimeout(s)) /\ Fit(RetransmitTimeout(s))
  BY <1>2, RetransmitTimeoutGoes DEF Goes, Fit, Bounded
<1>4. Loose(t) /\ Fit(t) /\ Differs(s, t, {})
  <2>1. /\ cwnd \in Nat /\ cwnd <= TxBufferSize /\ recover \in SeqNums
    <3>1. cwnd \in Nat /\ cwnd <= TxBufferSize
      BY Sizes DEF Least
    <3>2. recover \in SeqNums
      BY <1>2, MinusOf
    <3> QED BY <3>1, <3>2
  <2> HIDE DEF cwnd, recover
  <2>2. SendOK(t)
    BY <1>2, <2>1 DEF Loose, SendOK, SocketFields
  <2>3. SameRest(s, t) /\ t.cwnd = cwnd
    BY <1>2 DEF SameRest, SameReceiver, SameBlocks, SameWaiter, SocketFields
  <2>4. Differs(s, t, {})
    BY <1>2 DEF Differs, AlikeBut, Core, SocketFields
  <2>5. BlocksOK(s)
    BY <1>2 DEF Fit
  <2> HIDE DEF t
  <2>6. Loose(t)
    BY <1>2, <2>2, <2>3, SameRestFits
  <2>7. Fit(t)
    BY <2>1, <2>3, <2>5, <2>6, RestKeeps
  <2> QED BY <2>4, <2>6, <2>7
<1> HIDE DEF t
<1>5. Serves(s, t, e) /\ InOrder(t, e) /\ Speaks(t, e) /\ DOMAIN t = SocketFields
  <2>1. Serves(s, t, e)
    BY <1>4, SameServes
  <2> QED BY <1>4, <2>1, ServesInOrder, InOrderOf
<1>6. ASSUME RetransmitTimeout(s) = a
      PROVE  Serves(t, a, e)
  <2>1. Differs(t, r, {"out"}) /\ Speaks(r, e) /\ Loose(r)
    BY <1>2, <1>4, <1>5, RetransmitSegmentDiffers, RetransmitSegmentSpeaks,
       RetransmitSegmentFits
  <2> HIDE DEF r
  <2>2. Differs(r, a, {})
    BY <2>1 DEF Differs, AlikeBut, Core, SocketFields
  <2>3. Differs(t, a, {"queue", "out"}) /\ Differs(r, a, {"probing"})
    BY <2>1, <2>2, DiffersMore, DiffersOf
  <2>4. Speaks(a, e)
    BY <2>1, <2>3, SpeaksOfSame
  <2>5. Loose(a)
    BY <1>3, <1>6
  <2> QED BY <1>5, <2>3, <2>4, <2>5, ServesAnswer
<1>7. ASSUME RetransmitTimeout(s) = b
      PROVE  Serves(t, b, e)
  <2>1. Serves(t, p, e) /\ Fit(p)
    BY <1>4, <1>5, ServesClose, CloseFits
  <2>2. InOrder(p, e)
    BY <1>5, <2>1, ServesInOrder
  <2> HIDE DEF p
  <2>3. DOMAIN p = SocketFields
    BY <2>2, InOrderOf
  <2>4. Differs(p, b, {})
    BY <2>3 DEF Differs, AlikeBut, Core, SocketFields
  <2>5. Loose(b)
    BY <1>3, <1>7
  <2>6. Serves(p, b, e)
    BY <2>2, <2>4, <2>5, SameServes
  <2> QED BY <1>2, <1>4, <2>1, <2>6, ServesOf
<1> QED BY <1>1, <1>2, <1>5, <1>6, <1>7, ServesOf

LEMMA PersistTimeoutServes ==
    ASSUME NEW s, NEW e, InOrder(s, e)
    PROVE  Serves(s, PersistTimeout(s), e)
<1> DEFINE before == Minus(s.sndNxt, 1)
           now == s.rcvNxt
           none == 0
           not == FALSE
           ack == {"ACK"}
           t == SendSegment(s, {"ACK"}, before, now, 0, FALSE)
           a == [t EXCEPT !.wndProbeCount = @ + 1]
<1>1. PersistTimeout(s) \in {a, ChangeState(s, "CLOSED")}
  BY DEF PersistTimeout
<1>2. /\ Fit(s) /\ Loose(s) /\ EnvOK(e) /\ Speaks(s, e) /\ DOMAIN s = SocketFields
      /\ s.sndNxt \in SeqNums /\ before \in SeqNums /\ now \in SeqNums /\ now = s.rcvNxt
  BY InOrderOf, LooseFields, MinusOf
<1>3. Loose(PersistTimeout(s))
  BY <1>2, PersistTimeoutGoes DEF Goes, Fit, Bounded
<1> HIDE DEF before, now
<1>4. Speaks(t, e) /\ Differs(s, t, {"queue", "out"})
  <2>1. ack \in SUBSET Flags /\ ack \cap {"SYN", "FIN"} = {} /\ ack = {"ACK"}
    BY DEF Flags
  <2> HIDE DEF ack
  <2>2. Speaks(SendSegment(s, ack, before, now, 0, FALSE), e)
    BY <1>2, <2>1, EmptySpeaks
  <2> QED BY <1>2, <2>1, <2>2, SendSegmentDiffers
<1> HIDE DEF t
<1>5. ASSUME PersistTimeout(s) = a
      PROVE  Serves(s, a, e)
  <2>1. Differs(t, a, {})
    BY <1>4 DEF Differs, AlikeBut, Core, SocketFields
  <2>2. Differs(s, a, {"queue", "out"}) /\ Differs(t, a, {"probing"})
    BY <1>4, <2>1, DiffersMore, DiffersOf
  <2>3. Speaks(a, e)
    BY <1>4, <2>2, SpeaksOfSame
  <2> QED BY <1>3, <1>5, <2>2, <2>3, ServesAnswer
<1> QED BY <1>1, <1>5, ServesClose

LEMMA OverrideTimeoutServes ==
    ASSUME NEW s, NEW e, InOrder(s, e), s.state \in {"ESTABLISHED", "CLOSE_WAIT"}
    PROVE  Serves(s, OverrideTimeout(s), e)
<1>1. /\ Fit(s) /\ Loose(s) /\ EnvOK(e) /\ Speaks(s, e) /\ Right(s, e) /\ DOMAIN s = SocketFields
  BY InOrderOf
<1>2. Talks(s, OverrideTimeout(s), Sending, e)
  <2>1. Talks(s, s, Sending, e)
    BY <1>1, TalksSelf
  <2> QED BY <1>1, <2>1, NagleTalks DEF Hearing
<1>3. Loose(OverrideTimeout(s))
  BY <1>1, OverrideTimeoutGoes DEF Goes, Fit, Bounded
<1> QED BY <1>1, <1>2, <1>3, ServesTalk

LEMMA TimeWaitTimeoutServes ==
    ASSUME NEW s, NEW e, InOrder(s, e)
    PROVE  Serves(s, TimeWaitTimeout(s), e)
<1> DEFINE t == ChangeState(s, "CLOSED")
<1>1. Fit(s) /\ Loose(s) /\ EnvOK(e)
  BY InOrderOf
<1>2. Serves(s, t, e) /\ Fit(t)
  BY <1>1, ServesClose, CloseFits
<1>3. InOrder(t, e)
  BY <1>2, ServesInOrder
<1> HIDE DEF t
<1>4. Serves(s, Dispose(t), e)
  BY <1>1, <1>2, <1>3, DisposeServes, ServesOf
<1> QED BY <1>4 DEF TimeWaitTimeout, t

-----------------------------------------------------------------------------
(* A connection neither end of which has heard of the other *)

\* What keeps a socket the peer of one that has heard nothing.
Mutes == {"queue", "out", "closedFlag", "probing", "state", "rcvNxt", "rcvUser", "irs",
          "sackBlock", "txBuffer", "rxBuffer", "sndNxt", "sndUser"}

LEMMA UnheardSame ==
    ASSUME NEW s, NEW wrote, Unheard(s, wrote), NEW t, NEW F, Differs(s, t, F), F \subseteq Mutes,
           t.state \notin {"ESTABLISHED", "CLOSE_WAIT"}
    PROVE  Unheard(t, wrote)
<1>1. t.owned = s.owned /\ t.sndUna = s.sndUna /\ t.iss = s.iss
  BY DEF Differs, AlikeBut, Core, Mutes
<1> QED BY <1>1 DEF Unheard

LEMMA UnheardKept ==
    ASSUME NEW s, NEW wrote, Unheard(s, wrote), NEW t, Differs(s, t, {"queue", "out"})
    PROVE  Unheard(t, wrote)
<1>1. t.state = s.state
  BY DEF Differs, AlikeBut, Core
<1> QED BY <1>1, UnheardSame DEF Unheard, Mutes

LEMMA UnheardCloses ==
    ASSUME NEW s, DOMAIN s = SocketFields, NEW wrote, Unheard(s, wrote), NEW newState,
           newState \notin {"ESTABLISHED", "CLOSE_WAIT"}
    PROVE  Unheard(ChangeState(s, newState), wrote)
<1>1. /\ Differs(s, ChangeState(s, newState), {"state", "closedFlag"})
      /\ ChangeState(s, newState).state = newState
  BY EventsDiffer
<1> QED BY <1>1, UnheardSame DEF Mutes

LEMMA UnheardFree ==
    ASSUME NEW s, NEW wrote, wrote = 0
    PROVE  Unheard(Free(s), wrote)
<1>1. Unused.owned = FALSE /\ Unused.state = "CLOSED" /\ {"owned", "state"} \subseteq DOMAIN Unused
  BY DEF Unused
<1>2. Free(s).owned = FALSE /\ Free(s).state = "CLOSED"
  BY <1>1 DEF Free
<1> QED BY <1>2 DEF Unheard

LEMMA UnheardDispose ==
    ASSUME NEW s, NEW wrote, Unheard(s, wrote)
    PROVE  Unheard(Dispose(s), wrote)
BY UnheardFree DEF Dispose, Unheard

LEMMA RefuseQuiet ==
    ASSUME NEW s, DOMAIN s = SocketFields, NEW wrote, Unheard(s, wrote), NEW seg
    PROVE  Unheard(Refuse(s, seg), wrote)
<1>1. Refuse(s, seg) \in {s, SendAck(s), ChangeState(s, "CLOSED"), ResetForSyn(s, seg)}
  BY DEF Refuse
<1>2. Unheard(SendAck(s), wrote)
  BY SendAckDiffers, UnheardKept
<1>3. Unheard(ResetForSyn(s, seg), wrote)
  BY SendSegmentDiffers, UnheardKept DEF ResetForSyn
<1>4. Unheard(ChangeState(s, "CLOSED"), wrote)
  BY UnheardCloses
<1> QED BY <1>1, <1>2, <1>3, <1>4

\* Of a segment that acknowledges nothing a synchronized state takes nothing.
LEMMA MuteIsRefused ==
    ASSUME NEW s, NEW seg, Mute(seg), ~Refused(s, seg)
    PROVE  "ACK" \notin seg.flags /\ AckRefused(s, seg) /\ RefuseAck(s, seg) = s
<1>1. "ACK" \notin seg.flags
  BY DEF Mute, Refused
<1> QED BY <1>1 DEF AckRefused, RefuseAck

LEMMA StateSynSentQuiet ==
    ASSUME NEW s, NEW e, InOrder(s, e), s.state = "SYN_SENT", NEW wrote, Unheard(s, wrote),
           NEW seg \in Segments, Mute(seg)
    PROVE  Unheard(StateSynSent(s, seg), wrote)
<1> DEFINE acked == "ACK" \in seg.flags
           r == [s EXCEPT !.irs = seg.seq, !.rcvNxt = Plus(seg.seq, 1), !.sndUna = s.sndUna]
           t == UpdateRetransmitQueue(r)
           u == [t EXCEPT !.cwnd = Least(3 * Mss, TxBufferSize)]
           a == SendSegment(s, {"RST"}, seg.ack, 0, 0, FALSE)
           b == ChangeState(s, "CLOSED")
           v == InitSendWindow(u, seg)
           c == ChangeState(SendAck(v), "ESTABLISHED")
           d == SendSegment(u, {"SYN", "ACK"}, u.iss, u.rcvNxt, 0, TRUE)
           f == ChangeState(d, "SYN_RECEIVED")
           z == StateSynSent(s, seg)
<1>1. /\ DOMAIN s = SocketFields /\ s.owned /\ s.sndUna = s.iss
  BY InOrderOf DEF Unheard
<1>2. \/ z \in {s, a, b}
      \/ z = IF After(u.sndUna, u.iss) THEN c ELSE f
  <2>1. ~acked => r = [s EXCEPT !.irs = seg.seq, !.rcvNxt = Plus(seg.seq, 1),
                                !.sndUna = IF acked THEN seg.ack ELSE @]
    BY <1>1
  <2>2. acked => "RST" \in seg.flags
    BY DEF Mute
  <2>3. acked => z \in {s, a, b}
    BY <2>2 DEF StateSynSent
  <2> HIDE DEF r
  <2>4. ASSUME ~acked
        PROVE  z \in {s, IF After(u.sndUna, u.iss) THEN c ELSE f}
    <3>1. r = [s EXCEPT !.irs = seg.seq, !.rcvNxt = Plus(seg.seq, 1),
                        !.sndUna = IF acked THEN seg.ack ELSE @]
      BY <2>1, <2>4
    <3> QED BY <2>4, <3>1 DEF StateSynSent
  <2> QED BY <2>3, <2>4
<1>3. Unheard(a, wrote) /\ Unheard(b, wrote)
  BY <1>1, UnheardCloses, UnheardKept, SendSegmentDiffers
<1>4. DOMAIN r = SocketFields /\ Differs(s, r, {"irs", "rcvNxt"})
  BY <1>1 DEF Differs, AlikeBut, Core, SocketFields
<1> HIDE DEF r
<1>5. Differs(r, t, {"queue"})
  BY <1>4 DEF UpdateRetransmitQueue, Differs, AlikeBut, Core, SocketFields
<1> HIDE DEF t
<1>6. Differs(t, u, {})
  BY <1>5 DEF Differs, AlikeBut, Core, SocketFields
<1> HIDE DEF u
<1>7. Differs(s, u, {"irs", "rcvNxt", "queue"})
  <2>1. Differs(s, t, {"irs", "rcvNxt", "queue"})
    BY <1>4, <1>5, DiffersOf
  <2> QED BY <1>6, <2>1, DiffersOf
<1>8. u.sndUna = u.iss /\ DOMAIN u = SocketFields
  BY <1>1, <1>7 DEF Differs, AlikeBut, Core
<1>9. ~After(u.sndUna, u.iss)
  BY <1>8 DEF After
<1>10. Differs(u, d, {"queue", "out"})
  BY <1>8, SendSegmentDiffers
<1> HIDE DEF d
<1>11. DOMAIN d = SocketFields
  BY <1>10 DEF Differs
<1>12. /\ Differs(d, f, {"state", "closedFlag"}) /\ f.state = "SYN_RECEIVED"
  BY <1>11, EventsDiffer
<1>13. Differs(s, f, Mutes)
  <2>1. Differs(s, d, Mutes)
    BY <1>7, <1>10, DiffersOf DEF Mutes
  <2> QED BY <1>12, <2>1, DiffersOf DEF Mutes
<1>14. Unheard(f, wrote)
  BY <1>12, <1>13, UnheardSame
<1> QED BY <1>2, <1>3, <1>9, <1>14

LEMMA ProcessStateQuiet ==
    ASSUME NEW s, NEW e, InOrder(s, e), NEW wrote, Unheard(s, wrote), NEW src \in Hosts,
           NEW seg \in Segments, Mute(seg)
    PROVE  Unheard(ProcessState(s, src, seg), wrote)
<1> DEFINE t == ProcessState(s, src, seg)
<1>1. s.state \in States /\ s.state \notin {"ESTABLISHED", "CLOSE_WAIT"} /\ DOMAIN s = SocketFields
  BY InOrderOf DEF Unheard
<1>2. Unheard(Refuse(s, seg), wrote)
  BY <1>1, RefuseQuiet
<1>3. ~Refused(s, seg) => "ACK" \notin seg.flags /\ AckRefused(s, seg) /\ RefuseAck(s, seg) = s
  BY MuteIsRefused
<1>4. s.state = "CLOSED" => Unheard(t, wrote)
  <2>1. StateClosed(s, seg) \in {s, [s EXCEPT !.out = Append(@, ResetSegment(seg))]}
    BY DEF StateClosed
  <2>2. Differs(s, [s EXCEPT !.out = Append(@, ResetSegment(seg))], {"queue", "out"})
    BY <1>1 DEF Differs, AlikeBut, Core, SocketFields
  <2>3. Unheard(StateClosed(s, seg), wrote)
    BY <2>1, <2>2, UnheardKept
  <2> QED BY <2>3 DEF ProcessState
<1>5. s.state = "LISTEN" => Unheard(t, wrote)
  <2> DEFINE r == [s EXCEPT !.synQueue = Append(@, [src |-> src, isn |-> seg.seq])]
             a == [s EXCEPT !.out = Append(@, ResetSegment(seg))]
  <2>1. StateListen(s, src, seg) \in {s, a, UpdateEvents(r)}
    BY DEF StateListen
  <2>2. Differs(s, a, {"queue", "out"}) /\ Differs(s, r, {"queue", "out"}) /\ DOMAIN r = SocketFields
    BY <1>1 DEF Differs, AlikeBut, Core, SocketFields
  <2> HIDE DEF r
  <2>3. Differs(s, UpdateEvents(r), {"queue", "out"})
    BY <2>2, EventsDiffer, DiffersOf
  <2>4. Unheard(StateListen(s, src, seg), wrote)
    BY <2>1, <2>2, <2>3, UnheardKept
  <2> QED BY <2>4 DEF ProcessState
<1>6. s.state = "SYN_SENT" => Unheard(t, wrote)
  BY StateSynSentQuiet DEF ProcessState
<1>7. s.state = "SYN_RECEIVED" => Unheard(t, wrote)
  BY <1>2, <1>3 DEF ProcessState, StateSynReceived
<1>8. s.state = "LAST_ACK" => Unheard(t, wrote)
  BY <1>2, <1>3 DEF ProcessState, StateLastAck
<1>9. s.state = "FIN_WAIT_1" => Unheard(t, wrote)
  BY <1>2, <1>3 DEF ProcessState, StateFinWait1
<1>10. s.state = "FIN_WAIT_2" => Unheard(t, wrote)
  BY <1>2, <1>3 DEF ProcessState, StateFinWait2
<1>11. s.state = "CLOSING" => Unheard(t, wrote)
  BY <1>2, <1>3 DEF ProcessState, StateClosing
<1>12. s.state = "TIME_WAIT" => Unheard(t, wrote)
  <2>1. Unheard(Dispose(ChangeState(s, "CLOSED")), wrote)
    BY <1>1, UnheardCloses, UnheardDispose
  <2>2. StateTimeWait(s, seg) \in {Dispose(ChangeState(s, "CLOSED")), Refuse(s, seg), s}
    BY <1>3 DEF StateTimeWait
  <2>3. Unheard(StateTimeWait(s, seg), wrote)
    BY <1>2, <2>1, <2>2
  <2> QED BY <2>3 DEF ProcessState
<1> HIDE DEF t
<1>13. Unheard(t, wrote)
  BY <1>1, <1>4, <1>5, <1>6, <1>7, <1>8, <1>9, <1>10, <1>11, <1>12 DEF States
<1> QED BY <1>13 DEF t

\* Nor does it take anything of a timer.
LEMMA TimersQuiet ==
    ASSUME NEW s, NEW e, InOrder(s, e), NEW wrote, Unheard(s, wrote)
    PROVE  /\ Unheard(RetransmitTimeout(s), wrote)
           /\ Unheard(PersistTimeout(s), wrote)
           /\ Unheard(ChangeState(s, "CLOSED"), wrote)
           /\ Unheard(TimeWaitTimeout(s), wrote)
<1> DEFINE t == [s EXCEPT !.cwnd = Least(Mss, TxBufferSize), !.recover = Minus(s.sndNxt, 1),
                          !.congestState = "LOSS_RECOVERY"]
           r == RetransmitSegment(t)
           a == [r EXCEPT !.retransmitCount = @ + 1]
           p == ChangeState(t, "CLOSED")
           b == [p EXCEPT !.retransmitTimer = FALSE]
           probe == SendSegment(s, {"ACK"}, Minus(s.sndNxt, 1), s.rcvNxt, 0, FALSE)
           c == [probe EXCEPT !.wndProbeCount = @ + 1]
<1>1. DOMAIN s = SocketFields
  BY InOrderOf
<1>2. Unheard(ChangeState(s, "CLOSED"), wrote)
  BY <1>1, UnheardCloses
<1>3. Differs(s, t, {}) /\ DOMAIN t = SocketFields
  BY <1>1 DEF Differs, AlikeBut, Core, SocketFields
<1>4. RetransmitTimeout(s) \in {a, b}
  BY DEF RetransmitTimeout
<1> HIDE DEF t
<1>5. Unheard(a, wrote)
  <2>1. Differs(t, r, {"out"})
    BY <1>3, RetransmitSegmentDiffers
  <2> HIDE DEF r
  <2>2. Differs(r, a, {})
    BY <2>1 DEF Differs, AlikeBut, Core, SocketFields
  <2>3. Differs(s, r, {"queue", "out"})
    BY <1>3, <2>1, DiffersOf
  <2>4. Differs(s, a, {"queue", "out"})
    BY <2>2, <2>3, DiffersOf
  <2> QED BY <2>4, UnheardKept
<1>6. Unheard(b, wrote)
  <2>1. Differs(t, p, {"state", "closedFlag"}) /\ p.state = "CLOSED" /\ DOMAIN p = SocketFields
    BY <1>3, EventsDiffer DEF Differs
  <2> HIDE DEF p
  <2>2. Differs(p, b, {}) /\ b.state = p.state
    BY <2>1 DEF Differs, AlikeBut, Core, SocketFields
  <2>3. Differs(s, p, Mutes)
    BY <1>3, <2>1, DiffersOf DEF Mutes
  <2>4. Differs(s, b, Mutes)
    BY <2>2, <2>3, DiffersOf
  <2> QED BY <2>1, <2>2, <2>4, UnheardSame
<1>7. Unheard(c, wrote)
  <2>1. Differs(s, probe, {"queue", "out"})
    BY <1>1, SendSegmentDiffers
  <2> HIDE DEF probe
  <2>2. Differs(probe, c, {})
    BY <2>1 DEF Differs, AlikeBut, Core, SocketFields
  <2>3. Differs(s, c, {"queue", "out"})
    BY <2>1, <2>2, DiffersOf
  <2> QED BY <2>3, UnheardKept
<1>8. PersistTimeout(s) \in {c, ChangeState(s, "CLOSED")}
  BY DEF PersistTimeout
<1>9. Unheard(TimeWaitTimeout(s), wrote)
  BY <1>2, UnheardDispose DEF TimeWaitTimeout
<1> QED BY <1>2, <1>4, <1>5, <1>6, <1>7, <1>8, <1>9

\* A socket that has heard nothing yet goes on so.
FreshSends(t) == FreshSocket(t) /\ \A i \in DOMAIN t.out : Mute(t.out[i])

LEMMA FreshSame ==
    ASSUME NEW s, FreshSocket(s), NEW t, Differs(s, t, {"out"})
    PROVE  FreshSocket(t)
<1>1. /\ t.state = s.state /\ t.probing = s.probing /\ t.owned = s.owned
      /\ t.rcvUser = s.rcvUser /\ t.rxBuffer = s.rxBuffer /\ t.queue = s.queue
      /\ t.sndUser = s.sndUser
  BY DEF Differs, AlikeBut, Core
<1> QED BY <1>1 DEF FreshSocket

LEMMA ClosedStaysFresh ==
    ASSUME NEW s, Loose(s), FreshSocket(s), s.state = "CLOSED", s.out = <<>>, NEW src, NEW seg
    PROVE  /\ FreshSends(ProcessState(s, src, seg)) /\ ProcessState(s, src, seg).state = "CLOSED"
           /\ FreshSends(StateClosed(s, seg))
<1> DEFINE d == ResetSegment(seg)
           a == [s EXCEPT !.out = Append(@, d)]
<1>1. ProcessState(s, src, seg) = StateClosed(s, seg) /\ StateClosed(s, seg) \in {s, a}
  BY DEF StateClosed, ProcessState
<1>2. DOMAIN s = SocketFields
  BY LooseFields
<1>3. Mute(d)
  BY ResetIsRight
<1>4. Differs(s, a, {"out"}) /\ a.out = <<d>> /\ a.state = s.state
  BY <1>2 DEF Differs, AlikeBut, Core, SocketFields
<1> HIDE DEF a, d
<1>5. FreshSends(a)
  BY <1>3, <1>4, FreshSame DEF FreshSends
<1>6. FreshSends(s)
  BY DEF FreshSends
<1> QED BY <1>1, <1>4, <1>5, <1>6

LEMMA RetransmitStaysFresh ==
    ASSUME NEW s, Fit(s), FreshSocket(s), s.state = "SYN_SENT", s.out = <<>>
    PROVE  FreshSends(RetransmitTimeout(s)) \/ RetransmitTimeout(s).state = "CLOSED"
<1> DEFINE t == [s EXCEPT !.cwnd = Least(Mss, TxBufferSize), !.recover = Minus(s.sndNxt, 1),
                          !.congestState = "LOSS_RECOVERY"]
           r == RetransmitSegment(t)
           a == [r EXCEPT !.retransmitCount = @ + 1]
           p == ChangeState(t, "CLOSED")
           b == [p EXCEPT !.retransmitTimer = FALSE]
<1>1. RetransmitTimeout(s) \in {a, b}
  BY DEF RetransmitTimeout
<1>2. Loose(s) /\ DOMAIN s = SocketFields /\ s.sndNxt \in SeqNums
  BY LooseFields DEF Fit, Bounded
<1>3. Loose(t) /\ Differs(s, t, {})
  <2> DEFINE cwnd == Least(Mss, TxBufferSize)
             recover == Minus(s.sndNxt, 1)
  <2>1. /\ cwnd \in Nat /\ recover \in SeqNums
    <3>1. cwnd \in Nat
      BY Sizes DEF Least
    <3>2. recover \in SeqNums
      BY <1>2, MinusOf
    <3> QED BY <3>1, <3>2
  <2>2. t = [s EXCEPT !.cwnd = cwnd, !.recover = recover, !.congestState = "LOSS_RECOVERY"]
    OBVIOUS
  <2> HIDE DEF cwnd, recover, t
  <2>3. SendOK(t)
    BY <1>2, <2>1, <2>2 DEF Loose, SendOK, SocketFields
  <2>4. SameRest(s, t)
    BY <1>2, <2>2 DEF SameRest, SameReceiver, SameBlocks, SameWaiter, SocketFields
  <2>5. Differs(s, t, {})
    BY <1>2, <2>2 DEF Differs, AlikeBut, Core, SocketFields
  <2> QED BY <1>2, <2>3, <2>4, <2>5, SameRestFits
<1> HIDE DEF t
<1>4. DOMAIN t = SocketFields /\ t.out = <<>> /\ t.queue = s.queue /\ t.state = s.state
  BY <1>3 DEF Differs, AlikeBut, Core
<1>5. FreshSends(a)
  <2>1. Differs(t, r, {"out"})
    BY <1>4, RetransmitSegmentDiffers
  <2>2. \A i \in DOMAIN r.out : Mute(r.out[i])
    <3> SUFFICES ASSUME NEW i \in DOMAIN r.out
                 PROVE  Mute(r.out[i])
      OBVIOUS
    <3>1. PICK k \in DOMAIN t.queue : r.out[i] = Segment(t, t.queue[k])
      BY <1>3, <1>4, RetransmitSends
    <3>2. Mute(t.queue[k])
      BY <1>4 DEF FreshSocket
    <3>3. Segment(t, t.queue[k]).flags = t.queue[k].flags
      BY DEF Segment
    <3> HIDE DEF r
    <3> QED BY <3>1, <3>2, <3>3 DEF Mute
  <2> HIDE DEF r
  <2>3. Differs(r, a, {}) /\ a.out = r.out
    BY <2>1 DEF Differs, AlikeBut, Core, SocketFields
  <2>4. Differs(s, r, {"out"})
    BY <1>3, <2>1, DiffersOf
  <2>5. Differs(s, a, {"out"})
    BY <2>3, <2>4, DiffersOf
  <2>6. FreshSocket(a)
    BY <2>5, FreshSame
  <2> HIDE DEF a
  <2> QED BY <2>2, <2>3, <2>6 DEF FreshSends
<1>6. b.state = "CLOSED"
  <2>1. p.state = "CLOSED" /\ DOMAIN p = SocketFields
    BY <1>4, EventsDiffer DEF Differs
  <2> HIDE DEF p
  <2> QED BY <2>1 DEF SocketFields
<1> QED BY <1>1, <1>5, <1>6

-----------------------------------------------------------------------------
(* A step of the other host *)

\* All that a socket's surroundings may do, but to what the peer has acknowledged.
Grown(e, f) ==
    /\ f.own = e.own /\ f.peer = e.peer
    /\ f.written = e.written /\ f.shut = e.shut /\ f.got = e.got
    /\ f.reads => e.reads
    /\ e.theirs <= f.theirs
    /\ e.over => f.over /\ f.theirs = e.theirs

LEMMA GrownPlaced ==
    ASSUME NEW s, Loose(s), NEW e, EnvOK(e), NEW f, EnvOK(f), Grown(e, f),
           \/ e.low <= f.low
           \/ s.out = <<>> /\ (s.owned => s.sndUna = s.iss),
           Ready(s, e)
    PROVE  Ready(s, f)
<1>1. /\ f.own = e.own /\ f.written = e.written /\ f.shut = e.shut
      /\ e.low \in Nat /\ f.low \in Nat
  BY DEF Grown, EnvOK
<1>2. ASSUME s.owned
      PROVE  Placed(s, f)
  <2>1. Placed(s, e)
    BY <1>2 DEF Ready
  <2> DEFINE u == Minus(s.sndUna, e.own)
  <2>2. u \in Nat
    <3>1. s.sndUna \in SeqNums /\ e.own \in SeqNums
      BY LooseFields DEF EnvOK
    <3> QED BY <3>1, MinusIs
  <2>3. u <= f.low
    <3>1. CASE e.low <= f.low
      <4>1. u <= e.low
        BY <2>1 DEF Placed
      <4> HIDE DEF u
      <4> QED BY <1>1, <2>2, <3>1, <4>1
    <3>2. CASE s.sndUna = s.iss
      <4>1. s.sndUna = e.own
        BY <2>1, <3>2 DEF Placed
      <4>2. Minus(e.own, e.own) = 0
        <5>1. e.own \in SeqNums
          BY DEF EnvOK
        <5> QED BY <5>1, MinusIs
      <4> QED BY <1>1, <4>1, <4>2
    <3> QED BY <1>2, <3>1, <3>2
  <2> QED BY <1>1, <2>1, <2>3 DEF Placed
<1> QED BY <1>1, <1>2 DEF Ready, Stored

LEMMA GrownLimit ==
    ASSUME NEW s, s.rcvNxt \in SeqNums, NEW e, EnvOK(e), NEW f, EnvOK(f), Grown(e, f)
    PROVE  /\ Limit(s, e.reads, e.peer) <= Limit(s, f.reads, f.peer)
           /\ Limit(s, e.reads, e.peer) \in Nat /\ Limit(s, f.reads, f.peer) \in Nat
<1> DEFINE a == Limit(s, e.reads, e.peer)
           b == Limit(s, f.reads, f.peer)
<1>1. a \in Nat /\ a <= SeqSpace /\ b \in Nat
  BY LimitIs
<1>2. b = a \/ b = SeqSpace
  BY DEF Limit, Grown
<1> HIDE DEF a, b
<1>3. a <= b
  BY <1>1, <1>2
<1> QED BY <1>1, <1>3 DEF a, b

\* What a socket has said and heard stays right when the other host goes on.
LEMMA GrownRight ==
    ASSUME NEW s, Loose(s), NEW e, EnvOK(e), NEW f, EnvOK(f), Grown(e, f),
           \/ e.low <= f.low
           \/ s.out = <<>> /\ (s.owned => s.sndUna = s.iss),
           Right(s, e)
    PROVE  Right(s, f)
<1> DEFINE a == Limit(s, e.reads, e.peer)
           b == Limit(s, f.reads, f.peer)
<1>1. a \in Nat /\ b \in Nat /\ a <= b
  BY LooseFields, GrownLimit
<1>2. /\ f.own = e.own /\ f.peer = e.peer /\ f.written = e.written /\ f.shut = e.shut
      /\ e.peer \in SeqNums /\ e.own \in SeqNums /\ e.low \in Nat /\ f.low \in Nat
  BY DEF Grown, EnvOK
<1>3. Ready(s, f)
  BY GrownPlaced DEF Right, Speaks
<1>4. ASSUME NEW i \in DOMAIN s.queue
      PROVE  HeaderGood(s.queue[i], s, f)
  <2> DEFINE q == s.queue[i]
  <2>1. q \in Headers /\ HeaderGood(q, s, e)
    BY LooseFields DEF Right, Speaks
  <2>2. q.ack \in SeqNums
    BY <2>1, HeaderFields
  <2> HIDE DEF q, a, b
  <2>3. AckBelow(q, e.peer, a)
    BY <2>1 DEF HeaderGood, a
  <2>4. AckBelow(q, e.peer, b)
    BY <1>1, <1>2, <2>2, <2>3, AckRaised
  <2>5. HeaderRight(q, f)
    BY <1>2, <2>1 DEF HeaderGood, HeaderRight
  <2>6. HeaderGood(q, s, f)
    BY <1>2, <2>1, <2>4, <2>5 DEF HeaderGood, b
  <2> QED BY <2>6 DEF q
<1>5. ASSUME NEW i \in DOMAIN s.out
      PROVE  SegmentGood(s.out[i], s, f)
  <2> DEFINE g == s.out[i]
  <2>1. g \in Segments /\ SegmentGood(g, s, e)
    BY LooseFields DEF Right, Speaks
  <2>2. g.ack \in SeqNums
    BY <2>1, SegmentFields
  <2>3. e.low <= f.low
    BY <1>5
  <2> HIDE DEF g, a, b
  <2>4. AckBelow(g, e.peer, a)
    BY <2>1 DEF SegmentGood, a
  <2>5. AckBelow(g, e.peer, b)
    BY <1>1, <1>2, <2>2, <2>4, AckRaised
  <2>6. SegmentRight(g, e.own, e.written, e.shut, e.low)
    BY <2>1 DEF SegmentGood
  <2>7. SegmentRight(g, e.own, e.written, e.shut, f.low)
    BY <1>2, <2>1, <2>3, <2>6, SegmentRaised
  <2>8. SegmentGood(g, s, f)
    BY <1>2, <2>5, <2>7 DEF SegmentGood, b
  <2> QED BY <2>8 DEF g
<1>6. Hears(s, f)
  <2> SUFFICES ASSUME f.reads, s.state \in Hearing
               PROVE  Hears(s, f)
    BY DEF Hears
  <2>1. e.reads /\ f.got = e.got /\ f.peer = e.peer /\ Hears(s, e)
    BY DEF Grown, Right
  <2>2. /\ s.irs = e.peer
        /\ s.rxBuffer \in [0 .. RxBufferSize - 1 -> Nat]
        /\ \A j \in e.got + 1 .. e.got + s.rcvUser : Holds(s.rxBuffer, j)
        /\ s.state = "SYN_RECEIVED" => s.rcvUser = 0
    BY <2>1 DEF Hears
  <2>3. CASE s.state = "CLOSE_WAIT"
    <3>1. HeardAll(s, e)
      BY <2>1, <2>3 DEF Hears
    <3>2. HeardAll(s, f)
      BY <2>1, <3>1 DEF HeardAll, Grown
    <3> QED BY <2>1, <2>2, <2>3, <3>2 DEF Hears
  <2>4. CASE s.state # "CLOSE_WAIT"
    <3>1. Heard(s, e)
      BY <2>1, <2>4 DEF Hears
    <3> DEFINE r == Minus(s.rcvNxt, e.peer)
               y == e.theirs
               z == f.theirs
    <3>2. y \in Nat /\ z \in Nat /\ y <= z /\ r \in Nat
      <4>1. y \in Nat /\ z \in Nat /\ y <= z
        BY DEF Grown, EnvOK, Short
      <4>2. s.rcvNxt \in SeqNums
        BY LooseFields
      <4>3. r \in Nat
        BY <1>2, <4>2, MinusIs
      <4> QED BY <4>1, <4>3
    <3>3. e.got + s.rcvUser + 1 = r /\ r <= y + 1
      BY <3>1 DEF Heard
    <3>4. ASSUME NEW i \in DOMAIN s.sackBlock
          PROVE  r + Offset(s, s.sackBlock[i].right) <= z + 1
      <4>1. r + Offset(s, s.sackBlock[i].right) <= y + 1
        BY <3>1 DEF Heard
      <4>2. s.sackBlock[i].right \in SeqNums /\ s.rcvNxt \in SeqNums
        <5>1. s.sackBlock \in Seq(Blocks) /\ s.rcvNxt \in SeqNums
          BY LooseFields
        <5>2. s.sackBlock[i] \in Blocks
          BY <5>1
        <5> QED BY <5>1, <5>2 DEF Blocks
      <4>3. Offset(s, s.sackBlock[i].right) \in Nat
        BY <4>2, MinusIs DEF Offset
      <4> HIDE DEF r, y, z
      <4> QED BY <3>2, <4>1, <4>3
    <3>5. r <= z + 1
      <4> HIDE DEF r, y, z
      <4> QED BY <3>2, <3>3
    <3>6. Heard(s, f)
      BY <2>1, <3>1, <3>3, <3>4, <3>5 DEF Heard
    <3> QED BY <2>1, <2>2, <2>4, <3>6 DEF Hears
  <2> QED BY <2>3, <2>4
<1> QED BY <1>3, <1>4, <1>5, <1>6 DEF Right, Speaks

-----------------------------------------------------------------------------
(* A step of the system *)

\* No stream is so long that its sequence numbers come around.
ShortStreams == \A h \in Hosts : 2 * (Units[h] + RxBufferSize + 2) < SeqSpace

\* No program closes the direction it sends on and goes on reading.
NoHalfClose == "SEND" \notin Hows

LEMMA LimitFits ==
    ASSUME NEW s, s.rcvNxt \in SeqNums, NEW reads, NEW peer \in SeqNums
    PROVE  Limit(s, reads, peer) \in 0 .. SeqSpace
<1>1. Minus(s.rcvNxt, peer) \in 0 .. SeqSpace - 1 /\ SeqSpace \in Nat
  BY MinusIs
<1> QED BY <1>1 DEF Limit

LEMMA HostIs ==
    ASSUME NEW h \in Hosts
    PROVE  /\ Peer(h) \in Hosts /\ Peer(Peer(h)) = h /\ Peer(h) # h
           /\ h \in Sockets /\ h # "listener" /\ HostOf(h) = h
           /\ Iss(h) \in SeqNums
           /\ \A g \in Hosts : g = h \/ g = Peer(h)
BY System DEF Hosts, Peer, Sockets, HostOf, Iss

LEMMA RestIs ==
    ASSUME NEW s, AtRest(s)
    PROVE  /\ Fit(s) /\ Loose(s) /\ DOMAIN s = SocketFields
           /\ s.out = <<>> /\ s.rcvNxt \in SeqNums
BY LooseFields DEF AtRest, Fit, Bounded

LEMMA RestOf ==
    ASSUME HostsFit, NEW h \in Hosts
    PROVE  /\ Fit(sock[h]) /\ Loose(sock[h]) /\ DOMAIN sock[h] = SocketFields
           /\ sock[h].out = <<>> /\ sock[h].rcvNxt \in SeqNums
           /\ net[h] \in Seq(Segments) /\ written[h] \in 0 .. Units[h]
<1>1. AtRest(sock[h]) /\ net[h] \in Seq(Segments) /\ written[h] \in 0 .. Units[h]
  BY HostIs DEF HostsFit, SocketsFit, NetFits, TasksFit, TaskFits
<1> QED BY <1>1, RestIs

LEMMA RestOfNext ==
    ASSUME HostsFit', NEW h \in Hosts
    PROVE  /\ sock'[h].rcvNxt \in SeqNums
           /\ net'[h] \in Seq(Segments) /\ written'[h] \in 0 .. Units[h]
<1>1. AtRest(sock'[h]) /\ net'[h] \in Seq(Segments) /\ written'[h] \in 0 .. Units[h]
  BY HostIs DEF HostsFit, SocketsFit, NetFits, TasksFit, TaskFits
<1> QED BY <1>1, RestIs

LEMMA EnvOf ==
    ASSUME ShortStreams, NEW g \in Hosts, NEW h \in Hosts, NEW e,
           e.own \in SeqNums, e.peer \in SeqNums,
           e.written \in 0 .. Units[g], e.theirs \in 0 .. Units[h],
           e.low \in 0 .. SeqSpace, e.got \in Nat
    PROVE  EnvOK(e)
<1>1. ASSUME NEW k \in Hosts, NEW w \in 0 .. Units[k]
      PROVE  Short(w)
  <2> DEFINE u == Units[k]
  <2>1. w \in 0 .. u /\ u \in Nat /\ 2 * (u + RxBufferSize + 2) < SeqSpace
    BY System DEF ShortStreams
  <2> HIDE DEF u
  <2>2. w \in Nat /\ 2 * (w + RxBufferSize + 2) < SeqSpace
    BY <2>1, Sizes
  <2> QED BY <2>2 DEF Short
<1> QED BY <1>1 DEF EnvOK

LEMMA EnvFits ==
    ASSUME ShortStreams, HostsFit, HistoryFits, NEW h \in Hosts
    PROVE  EnvOK(Env(h))
<1> DEFINE p == Peer(h)
           e == Env(h)
<1>1. p \in Hosts /\ Iss(h) \in SeqNums /\ Iss(p) \in SeqNums
  BY HostIs
<1>2. written[h] \in 0 .. Units[h] /\ written[p] \in 0 .. Units[p] /\ sock[p].rcvNxt \in SeqNums
  BY <1>1, RestOf
<1>3. Low(h) \in 0 .. SeqSpace
  BY <1>1, <1>2, LimitFits DEF Low
<1>4. Len(read[h]) \in Nat
  BY DEF HistoryFits
<1>5. /\ e.own = Iss(h) /\ e.peer = Iss(p) /\ e.written = written[h] /\ e.theirs = written[p]
      /\ e.low = Low(h) /\ e.got = Len(read[h])
  BY DEF Env
<1> HIDE DEF e
<1>6. EnvOK(e)
  BY <1>1, <1>2, <1>3, <1>4, <1>5, EnvOf
<1> QED BY <1>6 DEF e

LEMMA EnvFitsNext ==
    ASSUME ShortStreams, HostsFit', HistoryFits', NEW h \in Hosts
    PROVE  EnvOK(Env(h)')
<1> DEFINE p == Peer(h)
           e == Env(h)'
<1>1. p \in Hosts /\ Iss(h) \in SeqNums /\ Iss(p) \in SeqNums
  BY HostIs
<1>2. /\ written'[h] \in 0 .. Units[h] /\ written'[p] \in 0 .. Units[p]
      /\ sock'[p].rcvNxt \in SeqNums
  BY <1>1, RestOfNext
<1>3. Low(h)' \in 0 .. SeqSpace
  BY <1>1, <1>2, LimitFits DEF Low
<1>4. Len(read'[h]) \in Nat
  BY DEF HistoryFits
<1>5. /\ e.own = Iss(h) /\ e.peer = Iss(p) /\ e.written = written'[h] /\ e.theirs = written'[p]
      /\ e.low = Low(h)' /\ e.got = Len(read'[h])
  BY DEF Env
<1> HIDE DEF e
<1>6. EnvOK(e)
  BY <1>1, <1>2, <1>3, <1>4, <1>5, EnvOf
<1> QED BY <1>6 DEF e

\* What is under way stays right when both hosts go on; a host that begins to
\* acknowledge acknowledges less than nothing is known to be acknowledged.
LEMMA SegmentGrown ==
    ASSUME NEW g \in Segments, NEW own \in SeqNums, NEW wrote \in Nat, NEW more \in Nat,
           NEW over, NEW end, NEW a \in Nat, NEW b \in Nat,
           wrote <= more, over => end /\ more = wrote, a <= b \/ wrote = 0,
           SegmentRight(g, own, wrote, over, a)
    PROVE  SegmentRight(g, own, more, end, b)
<1> DEFINE o == Minus(g.seq, own)
           n == Len(g.data)
<1>1. o \in Nat
  BY SegmentFields, MinusIs
<1>2. n \in Nat /\ (g.data # <<>> => n > 0)
  <2>1. g.data \in Seq(Nat)
    BY SegmentFields
  <2> QED BY <2>1
<1>3. "FIN" \in g.flags => end /\ o = more + 1
  BY DEF SegmentRight
<1>4. ASSUME g.data # <<>>
      PROVE  /\ 1 <= o /\ o + n <= more + 1
             /\ \A k \in 1 .. n : g.data[k] = o + k - 1 \/ o + k - 1 < b
  <2>1. /\ 1 <= o /\ o + n <= wrote + 1
        /\ \A k \in 1 .. n : g.data[k] = o + k - 1 \/ o + k - 1 < a
    BY <1>4 DEF SegmentRight
  <2> HIDE DEF o, n
  <2>2. a <= b
    BY <1>1, <1>2, <1>4, <2>1
  <2>3. o + n <= more + 1
    BY <1>1, <1>2, <2>1
  <2>4. ASSUME NEW k \in 1 .. n, o + k - 1 < a
        PROVE  o + k - 1 < b
    BY <1>1, <1>2, <2>2, <2>4
  <2> QED BY <2>1, <2>3, <2>4
<1> QED BY <1>3, <1>4 DEF SegmentRight

\* Socket t has nothing left to send: what it sent is under way.
Rests(t, r) == Differs(t, r, {"out"}) /\ r.out = <<>>

\* Host h takes a step that leaves t of its socket; the other does nothing.
Stepped(h, t) ==
    LET p == Peer(h)
    IN  /\ Rests(t, sock'[h]) /\ sock'[p] = sock[p] /\ task'[p] = task[p]
        /\ written'[p] = written[p] /\ shut'[p] = shut[p]
        /\ read'[p] = read[p] /\ ended'[p] = ended[p]
        /\ net'[p] = net[p] \o t.out
        /\ \A i \in DOMAIN net'[h] : \E j \in DOMAIN net[h] : net'[h][i] = net[h][j]

\* What the step may do to the two streams.
Proceeds(h, t) ==
    LET p == Peer(h)
    IN  /\ written[h] <= written'[h]
        /\ shut[h] => shut'[h] /\ written'[h] = written[h]
        /\ \/ Fresh(h)
           \/ Limit(sock[h], Reading(task[h]), Iss(p)) <= Limit(t, Reading(task'[h]), Iss(p))
        /\ Fresh(h)' => Fresh(h) /\ Untouched(h)' /\ FreshSends(t)
        /\ Fresh(p) => Unheard(t, written'[h])

LEMMA LeftRests ==
    ASSUME NEW t, Loose(t)
    PROVE  Rests(t, Left(t))
BY LooseFields, EventsDiffer DEF Rests

LEMMA RestsSame ==
    ASSUME NEW t, NEW r, Rests(t, r)
    PROVE  /\ r.rcvNxt = t.rcvNxt /\ r.state = t.state /\ r.owned = t.owned
           /\ r.sndUna = t.sndUna /\ r.iss = t.iss /\ r.closedFlag = t.closedFlag
           /\ r.sndUser = t.sndUser
BY DEF Rests, Differs, AlikeBut, Core

LEMMA RestsRight ==
    ASSUME NEW t, NEW r, Rests(t, r), NEW e, Right(t, e)
    PROVE  Right(r, e)
<1> DEFINE F == {"out"}
<1>1. AlikeBut(t, r, F) /\ F \cap HearFields = {} /\ r.out = <<>>
  BY DEF Rests, Differs, HearFields
<1>2. Hears(r, e)
  BY <1>1, HearsAlike DEF Right
<1>3. AlikeBut(t, r, {"queue", "out"}) /\ r.queue = t.queue
  BY DEF Rests, Differs, AlikeBut, Core
<1>4. Speaks(r, e)
  BY <1>1, <1>3, SpeaksAnew DEF Right, Speaks, Ready
<1> QED BY <1>2, <1>4 DEF Right

LEMMA RestsUnheard ==
    ASSUME NEW t, NEW r, Rests(t, r), NEW wrote, Unheard(t, wrote)
    PROVE  Unheard(r, wrote)
BY RestsSame DEF Unheard

\* The limits of the two hosts behind a step of h.
LEMMA LowNext ==
    ASSUME NEW h \in Hosts, NEW t, Loose(t), Stepped(h, t)
    PROVE  /\ Low(h)' = Low(h)
           /\ Low(Peer(h))' = Limit(t, Reading(task'[h]), Iss(Peer(h)))
           /\ Low(Peer(h)) = Limit(sock[h], Reading(task[h]), Iss(Peer(h)))
<1> DEFINE p == Peer(h)
<1>1. p \in Hosts /\ Peer(p) = h
  BY HostIs
<1>2. Rests(t, sock'[h]) /\ sock'[p] = sock[p] /\ task'[p] = task[p]
  BY DEF Stepped
<1>3. sock'[h].rcvNxt = t.rcvNxt /\ sock'[h].state = t.state
  BY <1>2, RestsSame
<1>4. Low(h) = Limit(sock[p], Reading(task[p]), Iss(h))
  BY DEF Low
<1>5. Low(h)' = Limit(sock'[p], Reading(task'[p]), Iss(h))
  BY DEF Low
<1>6. Low(p)' = Limit(sock'[h], Reading(task'[h]), Iss(p))
  BY <1>1 DEF Low
<1>7. Low(p) = Limit(sock[h], Reading(task[h]), Iss(p))
  BY <1>1 DEF Low
<1>8. Limit(sock'[h], Reading(task'[h]), Iss(p)) = Limit(t, Reading(task'[h]), Iss(p))
  BY <1>3 DEF Limit
<1> QED BY <1>2, <1>4, <1>5, <1>6, <1>7, <1>8

\* The other host keeps what it knows.
LEMMA PeerStep ==
    ASSUME StreamInv, HostsFit, HostsFit', HistoryFits', ShortStreams, NEW h \in Hosts,
           NEW t, Loose(t), Stepped(h, t), Proceeds(h, t)
    PROVE  /\ Right(sock[Peer(h)], Env(Peer(h))')
           /\ Low(Peer(h)) <= Low(Peer(h))' \/ written[Peer(h)] = 0
<1> DEFINE p == Peer(h)
           e == Env(p)
           f == Env(p)'
<1>1. p \in Hosts /\ Peer(p) = h
  BY HostIs
<1>2. EnvOK(e) /\ EnvOK(f)
  BY <1>1, EnvFits, EnvFitsNext DEF StreamInv
<1>3. Loose(sock[p]) /\ sock[p].out = <<>> /\ Right(sock[p], e) /\ Begins(h)
  BY <1>1, RestOf DEF StreamInv
<1>4. /\ e.own = Iss(p) /\ e.peer = Iss(h) /\ e.written = written[p] /\ e.shut = shut[p]
      /\ e.low = Low(p) /\ e.reads = Reading(task[p]) /\ e.got = Len(read[p])
      /\ e.theirs = written[h] /\ e.over = shut[h]
  BY <1>1 DEF Env
<1>5. /\ f.own = Iss(p) /\ f.peer = Iss(h) /\ f.written = written'[p] /\ f.shut = shut'[p]
      /\ f.low = Low(p)' /\ f.reads = Reading(task'[p]) /\ f.got = Len(read'[p])
      /\ f.theirs = written'[h] /\ f.over = shut'[h]
  BY <1>1 DEF Env
<1> HIDE DEF e, f
<1>6. Grown(e, f)
  BY <1>4, <1>5 DEF Grown, Stepped, Proceeds
<1>7. \/ e.low <= f.low
      \/ Unheard(sock[p], written[p])
  <2>1. CASE Fresh(h)
    BY <1>3, <2>1 DEF Begins
  <2>2. CASE Limit(sock[h], Reading(task[h]), Iss(p)) <= Limit(t, Reading(task'[h]), Iss(p))
    BY <1>4, <1>5, <2>2, LowNext
  <2> QED BY <2>1, <2>2 DEF Proceeds
<1>8. Right(sock[p], f)
  BY <1>2, <1>3, <1>6, <1>7, GrownRight DEF Unheard
<1> QED BY <1>4, <1>5, <1>7, <1>8 DEF f, Unheard

LEMMA WireStep ==
    ASSUME StreamInv, HostsFit, HostsFit', HistoryFits', ShortStreams, NEW h \in Hosts,
           NEW t, Loose(t), Stepped(h, t), Proceeds(h, t), Right(t, Env(h)')
    PROVE  Wire(h)' /\ Wire(Peer(h))'
<1> DEFINE p == Peer(h)
           e == Env(h)'
<1>1. p \in Hosts /\ Peer(p) = h /\ Iss(h) \in SeqNums /\ Iss(p) \in SeqNums
  BY HostIs
<1>2. Wire(h) /\ Wire(p) /\ Begins(h)
  BY <1>1 DEF StreamInv
<1>3. /\ net[h] \in Seq(Segments) /\ net[p] \in Seq(Segments)
      /\ net'[h] \in Seq(Segments) /\ net'[p] \in Seq(Segments) /\ t.out \in Seq(Segments)
  BY <1>1, RestOf, RestOfNext, LooseFields
<1>4. Low(h)' = Low(h) /\ Low(p) \in 0 .. SeqSpace /\ Low(p)' \in 0 .. SeqSpace
  <2>1. EnvOK(Env(p)) /\ EnvOK(Env(p)')
    BY <1>1, EnvFits, EnvFitsNext DEF StreamInv
  <2>2. Env(p).low = Low(p) /\ Env(p)'.low = Low(p)'
    BY DEF Env
  <2> QED BY <2>1, <2>2, LowNext DEF EnvOK
<1>5. Low(h) \in Nat /\ Low(p) \in Nat /\ Low(p)' \in Nat
  <2>1. EnvOK(Env(h)) /\ Env(h).low = Low(h)
    BY <1>1, EnvFits DEF StreamInv, Env
  <2> QED BY <1>4, <2>1, Sizes DEF EnvOK
<1>6. /\ written[h] \in Nat /\ written[p] \in Nat /\ written'[h] \in Nat
  <2>1. /\ written[h] \in 0 .. Units[h] /\ written[p] \in 0 .. Units[p]
        /\ written'[h] \in 0 .. Units[h] /\ Units[h] \in Nat /\ Units[p] \in Nat
    BY <1>1, RestOf, RestOfNext, System
  <2> QED BY <2>1
<1>7. /\ written'[p] = written[p] /\ shut'[p] = shut[p]
      /\ net'[p] = net[p] \o t.out
      /\ \A i \in DOMAIN net'[h] : \E j \in DOMAIN net[h] : net'[h][i] = net[h][j]
  BY DEF Stepped
<1>8. written[h] <= written'[h] /\ (shut[h] => shut'[h] /\ written'[h] = written[h])
  BY DEF Proceeds
<1>9. Low(p) <= Low(p)' \/ written[p] = 0
  BY PeerStep
<1>10. Wire(h)'
  <2> SUFFICES ASSUME NEW i \in DOMAIN net'[h]
               PROVE  /\ SegmentRight(net'[h][i], Iss(p), written'[p], shut'[p], Low(p)')
                      /\ AckBelow(net'[h][i], Iss(h), Low(h)')
    BY DEF Wire
  <2>1. PICK j \in DOMAIN net[h] : net'[h][i] = net[h][j]
    BY <1>7
  <2> DEFINE g == net[h][j]
             w == written[p]
             x == shut[p]
             a == Low(p)
             b == Low(p)'
             o == Iss(p)
  <2>2. g \in Segments /\ SegmentRight(g, o, w, x, a) /\ AckBelow(g, Iss(h), Low(h))
    BY <1>2, <1>3 DEF Wire
  <2>3. w \in Nat /\ a \in Nat /\ b \in Nat /\ o \in SeqNums /\ (a <= b \/ w = 0)
    BY <1>1, <1>5, <1>6, <1>9
  <2> HIDE DEF g, w, x, a, b, o
  <2>4. w <= w
    BY <2>3
  <2>5. SegmentRight(g, o, w, x, b)
    BY <2>2, <2>3, <2>4, SegmentGrown
  <2> QED BY <1>4, <1>7, <2>1, <2>2, <2>5 DEF g, w, x, b, o
<1>11. Wire(p)'
  <2> SUFFICES ASSUME NEW i \in DOMAIN net'[p]
               PROVE  /\ SegmentRight(net'[p][i], Iss(h), written'[h], shut'[h], Low(h)')
                      /\ AckBelow(net'[p][i], Iss(p), Low(p)')
    BY <1>1 DEF Wire
  <2> DEFINE q == net[p]
             out == t.out
             k == i - Len(q)
  <2>1. \/ i \in DOMAIN q /\ net'[p][i] = q[i]
        \/ k \in 1 .. Len(out) /\ net'[p][i] = out[k]
    <3>1. i \in DOMAIN (q \o out) /\ q \in Seq(Segments) /\ out \in Seq(Segments)
          /\ net'[p] = q \o out
      BY <1>3, <1>7
    <3> HIDE DEF q, out
    <3> QED BY <3>1, Joined DEF k
  <2>2. CASE i \in DOMAIN q /\ net'[p][i] = q[i]
    <3> DEFINE g == q[i]
               w == written[h]
               m == written'[h]
               x == shut[h]
               y == shut'[h]
               a == Low(h)
               o == Iss(h)
    <3>1. /\ g \in Segments /\ SegmentRight(g, o, w, x, a) /\ AckBelow(g, Iss(p), Low(p))
      BY <1>1, <1>2, <1>3, <2>2 DEF Wire
    <3>2. /\ w \in Nat /\ m \in Nat /\ a \in Nat /\ o \in SeqNums /\ w <= m
          /\ (x => y /\ m = w)
      BY <1>1, <1>5, <1>6, <1>8
    <3>3. AckBelow(g, Iss(p), Low(p)')
      <4>1. CASE Limit(sock[h], Reading(task[h]), Iss(p)) <= Limit(t, Reading(task'[h]), Iss(p))
        <5>1. Low(p) <= Low(p)'
          BY <4>1, LowNext
        <5>2. g.ack \in SeqNums
          BY <3>1, SegmentFields
        <5> QED BY <1>1, <1>5, <3>1, <5>1, <5>2, AckRaised
      <4>2. CASE Fresh(h)
        <5>1. Mute(g)
          BY <1>2, <2>2, <4>2 DEF Begins
        <5> QED BY <5>1 DEF Mute, AckBelow
      <4> QED BY <4>1, <4>2 DEF Proceeds
    <3> HIDE DEF g, w, m, x, y, a, o
    <3>4. a <= a
      BY <3>2
    <3>5. SegmentRight(g, o, m, y, a)
      BY <3>1, <3>2, <3>4, SegmentGrown
    <3> QED BY <1>4, <2>2, <3>3, <3>5 DEF g, m, y, a, o
  <2>3. CASE k \in 1 .. Len(out) /\ net'[p][i] = out[k]
    <3>1. SegmentGood(out[k], t, e)
      <4>1. k \in DOMAIN out
        BY <1>3, <2>3
      <4> QED BY <4>1 DEF Right, Speaks
    <3>2. /\ e.own = Iss(h) /\ e.written = written'[h] /\ e.shut = shut'[h] /\ e.low = Low(h)'
          /\ e.peer = Iss(p) /\ e.reads = Reading(task'[h])
      BY DEF Env
    <3>3. Limit(t, e.reads, e.peer) = Low(p)'
      BY <3>2, LowNext
    <3> HIDE DEF k, out, e
    <3> QED BY <2>3, <3>1, <3>2, <3>3 DEF SegmentGood
  <2> QED BY <2>1, <2>2, <2>3
<1> QED BY <1>10, <1>11

LEMMA BeginsStep ==
    ASSUME StreamInv, HostsFit, NEW h \in Hosts,
           NEW t, Loose(t), Stepped(h, t), Proceeds(h, t)
    PROVE  Begins(h)' /\ Begins(Peer(h))'
<1> DEFINE p == Peer(h)
<1>1. p \in Hosts /\ Peer(p) = h
  BY HostIs
<1>2. Begins(h) /\ Begins(p)
  BY <1>1 DEF StreamInv
<1>3. net[p] \in Seq(Segments) /\ t.out \in Seq(Segments)
  BY <1>1, RestOf, LooseFields
<1>4. /\ Rests(t, sock'[h]) /\ sock'[p] = sock[p] /\ task'[p] = task[p]
      /\ written'[p] = written[p] /\ read'[p] = read[p]
      /\ net'[p] = net[p] \o t.out
      /\ \A i \in DOMAIN net'[h] : \E j \in DOMAIN net[h] : net'[h][i] = net[h][j]
  BY DEF Stepped
<1>5. ASSUME Fresh(h)'
      PROVE  /\ Untouched(h)' /\ FreshSocket(sock'[h]) /\ Unheard(sock'[p], written'[p])
             /\ \A i \in DOMAIN net'[p] : Mute(net'[p][i])
  <2>1. Fresh(h) /\ Untouched(h)' /\ FreshSends(t)
    BY <1>5 DEF Proceeds
  <2>2. Unheard(sock[p], written[p]) /\ \A i \in DOMAIN net[p] : Mute(net[p][i])
    BY <1>2, <2>1 DEF Begins
  <2>3. FreshSocket(sock'[h])
    BY <1>4, <2>1, FreshSame DEF FreshSends, Rests
  <2>4. ASSUME NEW i \in DOMAIN net'[p]
        PROVE  Mute(net'[p][i])
    <3> DEFINE q == net[p]
               out == t.out
    <3>1. i \in DOMAIN (q \o out) /\ q \in Seq(Segments) /\ out \in Seq(Segments)
          /\ net'[p] = q \o out
      BY <1>3, <1>4
    <3>2. (\A k \in DOMAIN q : Mute(q[k])) /\ (\A k \in 1 .. Len(out) : Mute(out[k]))
      BY <1>3, <2>1, <2>2 DEF FreshSends
    <3> HIDE DEF q, out
    <3> QED BY <3>1, <3>2, Joined
  <2> QED BY <1>4, <2>1, <2>2, <2>3, <2>4
<1>6. ASSUME Fresh(p)'
      PROVE  /\ Untouched(p)' /\ FreshSocket(sock'[p]) /\ Unheard(sock'[h], written'[h])
             /\ \A i \in DOMAIN net'[h] : Mute(net'[h][i])
  <2>1. Fresh(p)
    BY <1>4, <1>6 DEF Fresh
  <2>2. /\ Untouched(p) /\ FreshSocket(sock[p]) /\ \A i \in DOMAIN net[h] : Mute(net[h][i])
    BY <1>1, <1>2, <2>1 DEF Begins
  <2>3. Unheard(sock'[h], written'[h])
    BY <1>4, <2>1, RestsUnheard DEF Proceeds
  <2> QED BY <1>4, <2>2, <2>3 DEF Untouched
<1> QED BY <1>1, <1>5, <1>6 DEF Begins

\* A step of host h keeps the invariant.
LEMMA HostStep ==
    ASSUME StreamInv, HostsFit, HostsFit', HistoryFits', ShortStreams, NEW h \in Hosts,
           NEW t, Loose(t), Stepped(h, t), Proceeds(h, t), Right(t, Env(h)'),
           Stage(h)', ListenerRight'
    PROVE  StreamInv'
<1> DEFINE p == Peer(h)
<1>1. p \in Hosts /\ \A g \in Hosts : g = h \/ g = p
  BY HostIs
<1>2. Right(sock'[h], Env(h)')
  BY RestsRight DEF Stepped
<1>3. Right(sock'[p], Env(p)')
  BY PeerStep DEF Stepped
<1>4. Wire(h)' /\ Wire(p)' /\ Begins(h)' /\ Begins(p)'
  BY WireStep, BeginsStep
<1>5. Stage(p)'
  BY <1>1 DEF StreamInv, Stage, Stepped
<1>6. \A g \in Hosts : Right(sock'[g], Env(g)') /\ Wire(g)' /\ Begins(g)' /\ Stage(g)'
  BY <1>1, <1>2, <1>3, <1>4, <1>5
<1> QED BY <1>6 DEF StreamInv

-----------------------------------------------------------------------------
(* The net task *)

\* The socket a step of the system starts from: what becomes of its segments is
\* settled.
LEMMA NicInOrder ==
    ASSUME StreamInv, HostsFit, ShortStreams, NEW h \in Hosts, NEW nic \in Nics
    PROVE  LET s == [sock[h] EXCEPT !.nic = nic]
           IN  /\ InOrder(s, Env(h)) /\ Differs(sock[h], s, {}) /\ s.out = <<>>
               /\ s.state = sock[h].state /\ s.owned = sock[h].owned /\ s.nic = nic
               /\ s.rcvNxt = sock[h].rcvNxt /\ s.probing = sock[h].probing
               /\ s.sndUser = sock[h].sndUser /\ s.closedFlag = sock[h].closedFlag
               /\ s.rcvUser = sock[h].rcvUser
               /\ (FreshSocket(sock[h]) => FreshSocket(s))
               /\ (Live(sock[h]) <=> Live(s))
               /\ \A wrote : Unheard(sock[h], wrote) => Unheard(s, wrote)
<1> DEFINE r == sock[h]
           s == [r EXCEPT !.nic = nic]
           e == Env(h)
<1>1. /\ Fit(r) /\ DOMAIN r = SocketFields /\ r.out = <<>> /\ Right(r, e)
      /\ (e.reads => Live(r))
  BY RestOf DEF StreamInv, Env, Stage, StageOf
<1>2. EnvOK(e)
  BY EnvFits DEF StreamInv
<1>3. Fit(s)
  BY <1>1, NicFits
<1>4. Differs(r, s, {}) /\ s.nic = nic
  BY <1>1 DEF Differs, AlikeBut, Core, SocketFields
<1> HIDE DEF r, s, e
<1>5. /\ s.out = r.out /\ s.state = r.state /\ s.owned = r.owned /\ s.rcvNxt = r.rcvNxt
      /\ s.probing = r.probing /\ s.sndUser = r.sndUser /\ s.closedFlag = r.closedFlag
      /\ s.rcvUser = r.rcvUser
  BY <1>4 DEF Differs, AlikeBut, Core
<1>6. Differs(r, s, {"probing"}) /\ Differs(r, s, {"out"}) /\ Differs(r, s, {"queue", "out"})
  BY <1>4, DiffersMore
<1>7. Right(s, e)
  BY <1>1, <1>6, RightAlike
<1>8. Live(r) <=> Live(s)
  BY <1>5 DEF Live
<1>9. InOrder(s, e)
  BY <1>1, <1>2, <1>3, <1>7, <1>8 DEF InOrder
<1>10. FreshSocket(r) => FreshSocket(s)
  BY <1>6, FreshSame
<1>11. \A wrote : Unheard(r, wrote) => Unheard(s, wrote)
  BY <1>6, UnheardKept
<1> QED BY <1>1, <1>4, <1>5, <1>8, <1>9, <1>10, <1>11 DEF r, s, e

LEMMA EnvSame ==
    ASSUME NEW h \in Hosts, NEW t, Loose(t), Stepped(h, t),
           UNCHANGED <<task, written, shut, read, ended>>
    PROVE  Env(h)' = Env(h)
<1>1. Low(h)' = Low(h)
  BY LowNext
<1> QED BY <1>1 DEF Env

\* A step of the net task leaves t of the socket of host h.
LEMMA NetStep ==
    ASSUME StreamInv, HostsFit, HostsFit', ShortStreams, NEW h \in Hosts,
           NEW t, Loose(t), Stepped(h, t),
           UNCHANGED <<task, written, shut, read, ended>>,
           Right(t, Env(h)), Fresh(h) \/ Onward(sock[h], t, Env(h)),
           sock[h].owned => t.owned, Reading(task[h]) => Live(t),
           task[h].at \in {"start", "accept"} => t.state = "CLOSED",
           Fresh(h)' => Fresh(h) /\ FreshSends(t),
           Fresh(Peer(h)) => Unheard(t, written[h]), ListenerRight'
    PROVE  StreamInv'
<1>1. HistoryFits'
  BY DEF StreamInv, HistoryFits
<1>2. Right(t, Env(h)')
  BY EnvSame
<1>3. Proceeds(h, t)
  <2>1. written[h] <= written'[h]
    <3>1. written[h] \in 0 .. Units[h] /\ Units[h] \in Nat /\ written'[h] = written[h]
      BY RestOf, System
    <3> QED BY <3>1
  <2>2. \/ Fresh(h)
        \/ Limit(sock[h], Reading(task[h]), Iss(Peer(h)))
            <= Limit(t, Reading(task'[h]), Iss(Peer(h)))
    BY DEF Onward, Env
  <2>3. Fresh(h)' => Fresh(h) /\ Untouched(h)' /\ FreshSends(t)
    BY DEF StreamInv, Begins, Untouched
  <2>4. shut[h] => shut'[h] /\ written'[h] = written[h]
    OBVIOUS
  <2> QED BY <2>1, <2>2, <2>3, <2>4 DEF Proceeds
<1>4. Stage(h)'
  <2> DEFINE r == sock'[h]
  <2>1. Stage(h) /\ Rests(t, r)
    BY DEF StreamInv, Stepped
  <2>2. r.state = t.state /\ r.owned = t.owned /\ r.closedFlag = t.closedFlag
    BY <2>1, RestsSame
  <2>3. Reading(task[h]) => Live(r)
    BY <2>2 DEF Live
  <2> QED BY <2>1, <2>2, <2>3 DEF Stage, StageOf
<1> QED BY <1>1, <1>2, <1>3, <1>4, HostStep

LEMMA ServesStep ==
    ASSUME StreamInv, HostsFit, HostsFit', ShortStreams, NEW h \in Hosts,
           NEW s, Differs(sock[h], s, {}), NEW t, Serves(s, t, Env(h)), Stepped(h, t),
           UNCHANGED <<task, written, shut, read, ended>>,
           task[h].at \in {"start", "accept"} => t.state = "CLOSED",
           Fresh(h)' => Fresh(h) /\ FreshSends(t),
           Fresh(Peer(h)) => Unheard(t, written[h]), ListenerRight'
    PROVE  StreamInv'
<1> DEFINE r == sock[h]
<1>1. Reading(task[h]) => Live(r)
  BY DEF StreamInv, Stage, StageOf
<1>2. s.owned = r.owned /\ s.state = r.state /\ s.closedFlag = r.closedFlag /\ s.rcvNxt = r.rcvNxt
  BY DEF Differs, AlikeBut, Core
<1>3. Env(h).reads = Reading(task[h])
  BY DEF Env
<1>4. Limit(s, Env(h).reads, Env(h).peer) = Limit(r, Env(h).reads, Env(h).peer)
  BY <1>2 DEF Limit
<1>5. Onward(r, t, Env(h))
  BY <1>4 DEF Serves, Onward
<1>6. Live(s) <=> Live(r)
  BY <1>2 DEF Live
<1> QED BY <1>1, <1>2, <1>3, <1>5, <1>6, NetStep DEF Serves

LEMMA PutSteps ==
    ASSUME HostsFit, NEW h \in Hosts, NEW t, Loose(t), Put(h, t)
    PROVE  /\ Rests(t, sock'[h]) /\ sock'[Peer(h)] = sock[Peer(h)]
           /\ net'[Peer(h)] = net[Peer(h)] \o t.out /\ net'[h] = net[h]
           /\ sock'["listener"] = sock["listener"]
<1>1. /\ sock' = [sock EXCEPT ![h] = Left(t)]
      /\ net' = [net EXCEPT ![Peer(h)] = @ \o t.out]
  BY HostIs DEF Put, Left
<1>2. /\ Peer(h) \in Hosts /\ Peer(h) # h /\ h # "listener" /\ h \in Sockets
      /\ Peer(h) \in Sockets /\ "listener" \in Sockets
  BY HostIs DEF Sockets
<1> QED BY <1>1, <1>2, LeftRests DEF HostsFit, SocketsFit, NetFits

LEMMA TickStep ==
    ASSUME StreamInv, HostsFit, HostsFit', ShortStreams, NEW h \in Hosts,
           NEW s, Differs(sock[h], s, {}), NEW t, Serves(s, t, Env(h)), Put(h, t),
           UNCHANGED <<task, written, shut, read, ended>>, s.state # "CLOSED",
           t.state = "SYN_SENT" => s.state = "SYN_SENT" /\ FreshSends(t),
           Fresh(Peer(h)) => Unheard(t, written[h])
    PROVE  StreamInv'
<1>1. Stepped(h, t) /\ ListenerRight'
  <2>1. ListenerRight'
    BY PutSteps DEF StreamInv, ListenerRight, Serves
  <2> QED BY <2>1, PutSteps DEF Stepped, Serves
<1>2. s.state = sock[h].state
  BY DEF Differs, AlikeBut, Core
<1>3. task[h].at \notin {"start", "accept"}
  BY <1>2 DEF StreamInv, Stage, StageOf
<1>4. Fresh(h)' => Fresh(h) /\ FreshSends(t)
  <2>1. sock'[h].state = t.state
    BY <1>1, RestsSame DEF Stepped
  <2> QED BY <1>2, <1>3, <2>1 DEF Fresh
<1> QED BY <1>1, <1>3, <1>4, ServesStep

LEMMA RetransmitTickKeeps ==
    ASSUME StreamInv, HostsFit, HostsFit', ShortStreams, NEW h \in Hosts, NEW nic \in Nics,
           RetransmitTick(h, nic)
    PROVE  StreamInv'
<1> DEFINE s == [sock[h] EXCEPT !.nic = nic]
           t == RetransmitTimeout(s)
           e == Env(h)
<1>1. Put(h, t) /\ UNCHANGED <<task, written, shut, read, ended>> /\ RetransmitTimerRuns(s)
  BY DEF RetransmitTick
<1>2. /\ InOrder(s, e) /\ Differs(sock[h], s, {}) /\ s.out = <<>> /\ s.state = sock[h].state
      /\ (FreshSocket(sock[h]) => FreshSocket(s))
      /\ \A wrote : Unheard(sock[h], wrote) => Unheard(s, wrote)
  BY NicInOrder
<1>3. Peer(h) \in Hosts /\ Peer(Peer(h)) = h /\ Begins(h) /\ Begins(Peer(h))
  BY HostIs DEF StreamInv
<1> HIDE DEF s, e
<1>4. Serves(s, t, e)
  BY <1>2, RetransmitTimeoutServes
<1>5. s.state # "CLOSED"
  BY <1>1 DEF RetransmitTimerRuns
<1>6. t.state = "SYN_SENT" => s.state = "SYN_SENT" /\ FreshSends(t)
  <2> SUFFICES ASSUME t.state = "SYN_SENT"
               PROVE  s.state = "SYN_SENT" /\ FreshSends(t)
    OBVIOUS
  <2>1. s.state = "SYN_SENT"
    BY <1>2, TickStates, InOrderOf
  <2>2. FreshSocket(s)
    BY <1>2, <1>3, <2>1 DEF Begins, Fresh
  <2> QED BY <1>2, <2>1, <2>2, InOrderOf, RetransmitStaysFresh
<1>7. Fresh(Peer(h)) => Unheard(t, written[h])
  BY <1>2, <1>3, TimersQuiet DEF Begins
<1> HIDE DEF t
<1> QED BY <1>1, <1>2, <1>4, <1>5, <1>6, <1>7, TickStep DEF e

LEMMA PersistTickKeeps ==
    ASSUME StreamInv, HostsFit, HostsFit', ShortStreams, NEW h \in Hosts, NEW nic \in Nics,
           PersistTick(h, nic)
    PROVE  StreamInv'
<1> DEFINE s == [sock[h] EXCEPT !.nic = nic]
           t == PersistTimeout(s)
           e == Env(h)
<1>1. Put(h, t) /\ UNCHANGED <<task, written, shut, read, ended>> /\ PersistTimerRuns(s)
  BY DEF PersistTick, history
<1>2. /\ InOrder(s, e) /\ Differs(sock[h], s, {}) /\ s.out = <<>> /\ s.state = sock[h].state
      /\ s.probing = sock[h].probing
      /\ \A wrote : Unheard(sock[h], wrote) => Unheard(s, wrote)
  BY NicInOrder
<1>3. Peer(h) \in Hosts /\ Peer(Peer(h)) = h /\ Begins(h) /\ Begins(Peer(h))
  BY HostIs DEF StreamInv
<1> HIDE DEF s, e
<1>4. Serves(s, t, e)
  BY <1>2, PersistTimeoutServes
<1>5. s.state # "CLOSED" /\ s.probing
  BY <1>1 DEF PersistTimerRuns
<1>6. t.state # "SYN_SENT"
  <2>1. s.state # "SYN_SENT"
    BY <1>2, <1>3, <1>5 DEF Begins, Fresh, FreshSocket
  <2> QED BY <1>2, <2>1, TickStates, InOrderOf
<1>7. Fresh(Peer(h)) => Unheard(t, written[h])
  BY <1>2, <1>3, TimersQuiet DEF Begins
<1> HIDE DEF t
<1> QED BY <1>1, <1>2, <1>4, <1>5, <1>6, <1>7, TickStep DEF e

LEMMA OverrideTickKeeps ==
    ASSUME StreamInv, HostsFit, HostsFit', ShortStreams, NEW h \in Hosts, NEW nic \in Nics,
           OverrideTick(h, nic)
    PROVE  StreamInv'
<1> DEFINE s == [sock[h] EXCEPT !.nic = nic]
           t == OverrideTimeout(s)
           e == Env(h)
<1>1. Put(h, t) /\ UNCHANGED <<task, written, shut, read, ended>> /\ OverrideTimerRuns(s)
  BY DEF OverrideTick, history
<1>2. /\ InOrder(s, e) /\ Differs(sock[h], s, {}) /\ s.state = sock[h].state
  BY NicInOrder
<1>3. Peer(h) \in Hosts /\ Peer(Peer(h)) = h /\ Begins(h) /\ Begins(Peer(h))
  BY HostIs DEF StreamInv
<1> HIDE DEF s, e
<1>4. s.state \in {"ESTABLISHED", "CLOSE_WAIT"}
  BY <1>1 DEF OverrideTimerRuns
<1>5. Serves(s, t, e)
  BY <1>2, <1>4, OverrideTimeoutServes
<1>6. t.state = s.state
  <2>1. Talks(s, s, Sending, e)
    BY <1>2, InOrderOf, TalksSelf
  <2>2. Talks(s, t, Sending, e)
    BY <1>2, <1>4, <2>1, InOrderOf, NagleTalks DEF Hearing
  <2> HIDE DEF t
  <2> QED BY <2>2 DEF Talks, Differs, AlikeBut, Core, Sending
<1>7. ~Fresh(Peer(h))
  BY <1>2, <1>3, <1>4 DEF Begins, Unheard
<1> HIDE DEF t
<1> QED BY <1>1, <1>2, <1>4, <1>5, <1>6, <1>7, TickStep DEF e

LEMMA OtherTicksKeep ==
    ASSUME StreamInv, HostsFit, HostsFit', ShortStreams, NEW h \in Hosts,
           FinWait2Tick(h) \/ TimeWaitTick(h)
    PROVE  StreamInv'
<1> DEFINE s == sock[h]
           e == Env(h)
           a == FinWait2Timeout(s)
           b == TimeWaitTimeout(s)
<1>1. /\ UNCHANGED <<task, written, shut, read, ended>> /\ s.state # "CLOSED"
      /\ Put(h, a) \/ Put(h, b)
  BY DEF FinWait2Tick, TimeWaitTick, history
<1>2. InOrder(s, e) /\ DOMAIN s = SocketFields
  BY RestOf, EnvFits DEF StreamInv, InOrder, Env, Stage, StageOf
<1>3. Peer(h) \in Hosts /\ Peer(Peer(h)) = h /\ Begins(Peer(h))
  BY HostIs DEF StreamInv
<1>4. Differs(sock[h], s, {})
  BY <1>2 DEF Differs, AlikeBut
<1> HIDE DEF s, e
<1>5. Serves(s, a, e) /\ Serves(s, b, e)
  BY <1>2, ServesClose, TimeWaitTimeoutServes DEF FinWait2Timeout
<1>6. a.state = "CLOSED" /\ b.state = "CLOSED"
  BY <1>2, TickStates
<1>7. Fresh(Peer(h)) => Unheard(a, written[h]) /\ Unheard(b, written[h])
  BY <1>2, <1>3, TimersQuiet DEF Begins, FinWait2Timeout, s
<1> HIDE DEF a, b
<1>8. CASE Put(h, a)
  BY <1>1, <1>4, <1>5, <1>6, <1>7, <1>8, TickStep DEF e
<1>9. CASE Put(h, b)
  BY <1>1, <1>4, <1>5, <1>6, <1>7, <1>9, TickStep DEF e
<1> QED BY <1>1, <1>8, <1>9

LEMMA HostInOrder ==
    ASSUME StreamInv, HostsFit, ShortStreams, NEW h \in Hosts
    PROVE  /\ InOrder(sock[h], Env(h)) /\ Differs(sock[h], sock[h], {})
           /\ DOMAIN sock[h] = SocketFields /\ sock[h].out = <<>> /\ Loose(sock[h])
<1>1. InOrder(sock[h], Env(h))
  BY RestOf, EnvFits DEF StreamInv, InOrder, Env, Stage, StageOf
<1> QED BY <1>1, RestOf DEF Differs, AlikeBut

LEMMA HeadComes ==
    ASSUME StreamInv, HostsFit, NEW h \in Hosts, net[h] # <<>>,
           NEW s, s.rcvNxt = sock[h].rcvNxt, s.state = sock[h].state
    PROVE  /\ Comes(Head(net[h]), s, Env(h))
           /\ Fresh(Peer(h)) => Mute(Head(net[h]))
           /\ Tail(net[h]) \in Seq(Segments)
           /\ \A i \in DOMAIN Tail(net[h]) :
                    \E j \in DOMAIN net[h] : Tail(net[h])[i] = net[h][j]
<1> DEFINE p == Peer(h)
           q == net[h]
           e == Env(h)
<1>1. p \in Hosts /\ Peer(p) = h
  BY HostIs
<1>2. q \in Seq(Segments) /\ q # <<>>
  BY RestOf
<1>3. /\ SegmentRight(q[1], Iss(p), written[p], shut[p], Low(p))
      /\ AckBelow(q[1], Iss(h), Low(h))
      /\ Fresh(p) => Mute(q[1])
  <2>1. Wire(h) /\ Begins(p)
    BY <1>1 DEF StreamInv
  <2>2. 1 \in DOMAIN q
    BY <1>2
  <2> QED BY <1>1, <2>1, <2>2 DEF Wire, Begins
<1>4. Low(p) = Limit(s, e.reads, e.peer)
  BY <1>1 DEF Low, Limit, Env
<1>5. /\ e.peer = Iss(p) /\ e.theirs = written[p] /\ e.over = shut[p] /\ e.own = Iss(h)
      /\ e.low = Low(h)
  BY DEF Env
<1> HIDE DEF q, e
<1>6. /\ Head(q) = q[1] /\ Head(q) \in Segments /\ Tail(q) \in Seq(Segments)
  BY <1>2
<1>7. \A i \in DOMAIN Tail(q) : \E j \in DOMAIN q : Tail(q)[i] = q[j]
  <2>1. ASSUME NEW i \in DOMAIN Tail(q)
        PROVE  i + 1 \in DOMAIN q /\ Tail(q)[i] = q[i + 1]
    BY <1>2, <2>1
  <2> QED BY <2>1
<1>8. Comes(Head(q), s, e)
  BY <1>3, <1>4, <1>5, <1>6 DEF Comes
<1> QED BY <1>3, <1>6, <1>7, <1>8 DEF q, e

\* A segment to no socket of host h, or to its listener, is answered by a reset
\* at most.
LEMMA AnswerStep ==
    ASSUME StreamInv, HostsFit, HostsFit', ShortStreams, NEW h \in Hosts,
           NEW seg \in Segments, NEW out \in {<<>>, <<ResetSegment(seg)>>},
           sock'[h] = sock[h], sock'[Peer(h)] = sock[Peer(h)],
           net'[Peer(h)] = net[Peer(h)] \o out,
           \A i \in DOMAIN net'[h] : \E j \in DOMAIN net[h] : net'[h][i] = net[h][j],
           UNCHANGED <<task, written, shut, read, ended>>, ListenerRight'
    PROVE  StreamInv'
<1> DEFINE s == sock[h]
           d == ResetSegment(seg)
           a == [s EXCEPT !.out = Append(@, d)]
           t == IF out = <<>> THEN s ELSE a
           e == Env(h)
<1>1. InOrder(s, e) /\ Differs(s, s, {}) /\ DOMAIN s = SocketFields /\ s.out = <<>>
  BY HostInOrder
<1>2. Mute(d)
  BY ResetIsRight
<1>3. Differs(s, a, {"out"}) /\ a.out = <<d>> /\ a.state = s.state
  BY <1>1 DEF Differs, AlikeBut, Core, SocketFields
<1>4. Serves(s, a, e) /\ Serves(s, s, e)
  BY <1>1, AnswerServes, ServesSelf
<1>5. t \in {s, a} /\ t.out = out
  BY <1>1, <1>3
<1>6. s = sock[h] /\ e = Env(h)
  OBVIOUS
<1> HIDE DEF a, d, s, t, e
<1>7. Differs(s, t, {"out"}) /\ Serves(s, t, e) /\ t.state = s.state
  BY <1>1, <1>3, <1>4, <1>5, DiffersMore
<1>8. Rests(t, s)
  BY <1>1, <1>7 DEF Rests, Differs, AlikeBut
<1>9. Stepped(h, t)
  BY <1>5, <1>6, <1>8 DEF Stepped
<1>10. /\ Begins(h) /\ Begins(Peer(h)) /\ Peer(Peer(h)) = h
       /\ (task[h].at \in {"start", "accept"} => s.state = "CLOSED")
  BY <1>6, HostIs DEF StreamInv, Stage, StageOf
<1>11. Fresh(h)' => Fresh(h) /\ FreshSends(t)
  <2>1. Fresh(h)' => Fresh(h)
    BY DEF Fresh
  <2>2. \A i \in DOMAIN t.out : Mute(t.out[i])
    BY <1>1, <1>2, <1>3, <1>5
  <2>3. Fresh(h) => FreshSocket(t)
    BY <1>6, <1>7, <1>10, FreshSame DEF Begins
  <2> QED BY <2>1, <2>2, <2>3 DEF FreshSends
<1>12. Fresh(Peer(h)) => Unheard(t, written[h])
  <2>1. Differs(s, t, {"queue", "out"})
    BY <1>7, DiffersMore
  <2> QED BY <1>6, <1>10, <2>1, UnheardKept DEF Begins
<1> QED BY <1>1, <1>6, <1>7, <1>9, <1>10, <1>11, <1>12, ServesStep

\* A segment to the socket of host h.
LEMMA SegmentToHost ==
    ASSUME StreamInv, HostsFit, HostsFit', ShortStreams, NEW h \in Hosts, NEW nic \in Nics,
           ProcessSegment(h, nic), Matching(h) = {h}
    PROVE  StreamInv'
<1> DEFINE p == Peer(h)
           seg == Head(net[h])
           s == [sock[h] EXCEPT !.nic = nic]
           t == ProcessState(s, p, seg)
           e == Env(h)
           r == Left(t)
<1>1. /\ p \in Hosts /\ Peer(p) = h /\ p # h /\ h \in Sockets /\ p \in Sockets
      /\ "listener" \in Sockets /\ h # "listener"
  BY HostIs DEF Sockets
<1>2. /\ net[h] # <<>>
      /\ sock' = [x \in Sockets |-> IF x \in {h} THEN r ELSE sock[x]]
      /\ net' = [[net EXCEPT ![h] = Tail(@)] EXCEPT ![p] = @ \o t.out]
      /\ UNCHANGED <<task, written, shut, read, ended>>
  <2>1. h = CHOOSE x \in Matching(h) : TRUE
    OBVIOUS
  <2> QED BY <2>1 DEF ProcessSegment, history, Left
<1>3. /\ InOrder(s, e) /\ Differs(sock[h], s, {}) /\ s.out = <<>>
      /\ s.state = sock[h].state /\ s.owned = sock[h].owned
      /\ s.rcvNxt = sock[h].rcvNxt
      /\ (FreshSocket(sock[h]) => FreshSocket(s))
      /\ (Live(sock[h]) <=> Live(s))
      /\ \A wrote : Unheard(sock[h], wrote) => Unheard(s, wrote)
  BY NicInOrder
<1>4. /\ Begins(h) /\ Begins(p) /\ Stage(h)
  BY <1>1 DEF StreamInv
<1>5. seg = Head(net[h]) /\ e = Env(h)
  OBVIOUS
<1> HIDE DEF s, seg, e
<1>6. Fit(s) /\ Loose(s) /\ s.state \in States /\ Right(s, e)
  BY <1>3, InOrderOf
<1>7. /\ Comes(seg, s, e) /\ (Fresh(p) => Mute(seg))
      /\ \A i \in DOMAIN Tail(net[h]) : \E j \in DOMAIN net[h] : Tail(net[h])[i] = net[h][j]
  BY <1>2, <1>3, <1>5, HeadComes
<1>8. seg \in Segments
  BY <1>7 DEF Comes
<1>9. net'[h] = Tail(net[h]) /\ net'[p] = net[p] \o t.out
  BY <1>1, <1>2 DEF HostsFit, NetFits
<1>10. sock'[h] = r /\ sock'[p] = sock[p] /\ sock'["listener"] = sock["listener"]
  BY <1>1, <1>2
<1>11. ListenerRight'
  BY <1>10 DEF StreamInv, ListenerRight
<1>12. Fresh(p) => Unheard(t, written[h])
  BY <1>1, <1>3, <1>4, <1>7, <1>8, ProcessStateQuiet DEF Begins
<1>13. /\ task[h].at \in {"start", "accept"} => s.state = "CLOSED"
       /\ e.reads = Reading(task[h]) /\ (e.reads => Live(s))
       /\ e.got = Len(read[h])
  BY <1>3, <1>4, <1>5 DEF Stage, StageOf, Env
<1>14. ASSUME Loose(t)
       PROVE  Stepped(h, t) /\ sock'[h].state = t.state
  <2>1. Rests(t, sock'[h])
    BY <1>10, <1>14, LeftRests
  <2>2. \A i \in DOMAIN net'[h] : \E j \in DOMAIN net[h] : net'[h][i] = net[h][j]
    BY <1>7, <1>9
  <2>3. UNCHANGED <<task, written, shut, read, ended>>
    BY <1>2
  <2> HIDE DEF t
  <2>4. sock'[h].state = t.state
    BY <2>1, RestsSame
  <2> QED BY <1>9, <1>10, <2>1, <2>2, <2>3, <2>4 DEF Stepped
<1>15. s.state = "CLOSED" => t.state = "CLOSED"
  <2>1. Goes(s, t)
    BY <1>1, <1>6, <1>8, ProcessStateGoes
  <2> QED BY <2>1 DEF Goes
<1>16. CASE s.state # "SYN_SENT"
  <2>1. Serves(s, t, e)
    BY <1>1, <1>3, <1>7, <1>16, ProcessStateServes
  <2>2. t.state # "SYN_SENT"
    BY <1>1, <1>6, <1>8, <1>16, NotBack
  <2>3. Fresh(h)' => Fresh(h) /\ FreshSends(t)
    <3>1. SUFFICES ASSUME Fresh(h)'
                   PROVE  Fresh(h) /\ FreshSends(t)
      OBVIOUS
    <3>2. task[h].at \in {"start", "accept"}
      BY <1>2, <1>14, <2>1, <2>2, <3>1 DEF Fresh, Serves
    <3>3. Fresh(h) /\ s.state = "CLOSED" /\ FreshSocket(s)
      BY <1>3, <1>4, <1>13, <3>2 DEF Fresh, Begins
    <3>4. FreshSends(t)
      BY <1>3, <1>6, <3>3, ClosedStaysFresh
    <3> QED BY <3>3, <3>4
  <2>4. Stepped(h, t)
    BY <1>14, <2>1 DEF Serves
  <2> HIDE DEF t
  <2> QED BY <1>2, <1>3, <1>5, <1>11, <1>12, <1>13, <1>15, <2>1, <2>3, <2>4, ServesStep
<1>17. CASE s.state = "SYN_SENT"
  <2>1. Fresh(h) /\ FreshSocket(s) /\ task[h].at \notin {"start", "accept"} /\ s.owned
    BY <1>3, <1>4, <1>13, <1>17 DEF Fresh, Begins, FreshSocket
  <2>2. e.got = 0
    BY <1>4, <1>13, <2>1 DEF Begins, Untouched
  <2>3. t = StateSynSent(s, seg)
    BY <1>17 DEF ProcessState
  <2>4. \/ /\ Serves(s, t, e) /\ t.state = "SYN_SENT" /\ FreshSocket(t)
           /\ \A i \in DOMAIN t.out : Mute(t.out[i])
        \/ Serves(s, t, e) /\ t.state = "CLOSED"
        \/ Loose(t) /\ Begun(t, e) /\ (e.reads => Live(t))
    BY <1>3, <1>7, <1>17, <2>1, <2>2, <2>3, StateSynSentRight
  <2>5. Loose(t)
    BY <2>4 DEF Serves
  <2>6. Stepped(h, t) /\ sock'[h].state = t.state
    BY <1>14, <2>5
  <2> HIDE DEF t
  <2>7. CASE Serves(s, t, e)
    <3>1. Fresh(h)' => Fresh(h) /\ FreshSends(t)
      <4>1. CASE t.state = "SYN_SENT" /\ FreshSocket(t) /\ \A i \in DOMAIN t.out : Mute(t.out[i])
        BY <2>1, <4>1 DEF FreshSends
      <4>2. CASE t.state \in {"CLOSED", "ESTABLISHED", "SYN_RECEIVED"}
        BY <1>2, <2>1, <2>6, <4>2 DEF Fresh
      <4> QED BY <2>4, <4>1, <4>2 DEF Begun
    <3> QED BY <1>2, <1>3, <1>5, <1>11, <1>12, <2>1, <2>6, <2>7, <3>1, ServesStep
  <2>8. CASE Begun(t, e) /\ (e.reads => Live(t))
    <3>1. Right(t, e) /\ t.owned /\ t.state \in {"ESTABLISHED", "SYN_RECEIVED"}
      BY <2>8 DEF Begun
    <3>2. ~Fresh(h)'
      BY <1>2, <2>1, <2>6, <3>1 DEF Fresh
    <3> QED BY <1>2, <1>5, <1>11, <1>12, <1>13, <2>1, <2>5, <2>6, <2>8, <3>1, <3>2, NetStep
  <2> QED BY <2>4, <2>7, <2>8
<1> QED BY <1>16, <1>17

\* A request to the listener is the peer's.
LEMMA RequestKept ==
    ASSUME ListenerRight, NEW seg, "SYN" \in seg.flags => seg.seq = ClientIss,
           NEW nic, NEW src \in Hosts, AtRest(sock["listener"]),
           sock'["listener"] =
                Left(StateListen([sock["listener"] EXCEPT !.nic = nic], src, seg))
    PROVE  ListenerRight'
<1> DEFINE s == sock["listener"]
           r == [s EXCEPT !.nic = nic]
           d == ResetSegment(seg)
           a == [r EXCEPT !.out = Append(@, d)]
           i == [src |-> src, isn |-> seg.seq]
           b == [r EXCEPT !.synQueue = Append(@, i)]
           u == UpdateEvents(b)
           t == StateListen(r, src, seg)
<1>1. DOMAIN s = SocketFields /\ s.synQueue \in Seq(Requests)
  BY DEF AtRest, Fit, Bounded, Loose, WaitOK
<1>2. t \in {r, a} \/ (t = u /\ "SYN" \in seg.flags)
  <2> HIDE DEF r, d
  <2> QED BY DEF StateListen, d
<1>3. Left(t).synQueue = t.synQueue
  <2>1. DOMAIN r = SocketFields
    BY <1>1
  <2>2. DOMAIN a = SocketFields /\ DOMAIN u = SocketFields
    BY <2>1 DEF UpdateEvents
  <2> HIDE DEF r, a, u
  <2>3. DOMAIN t = SocketFields
    BY <1>2, <2>1, <2>2
  <2> HIDE DEF t
  <2> QED BY <2>3 DEF Left, SocketFields
<1>4. /\ r.synQueue = s.synQueue /\ a.synQueue = s.synQueue
      /\ u.synQueue = Append(s.synQueue, i)
  BY <1>1 DEF UpdateEvents, SocketFields
<1>5. sock'["listener"].synQueue = t.synQueue
  BY <1>3
<1> HIDE DEF r, a, u, t, d
<1>6. CASE t \in {r, a}
  BY <1>4, <1>5, <1>6 DEF ListenerRight
<1>7. CASE t = u /\ "SYN" \in seg.flags
  <2>1. \A k \in DOMAIN s.synQueue : s.synQueue[k].isn = ClientIss
    BY DEF ListenerRight
  <2>2. i.isn = ClientIss
    BY <1>7
  <2> DEFINE q == s.synQueue
  <2>3. q \in Seq(Requests)
    BY <1>1
  <2> HIDE DEF q, i
  <2>4. \A k \in DOMAIN Append(q, i) : Append(q, i)[k].isn = ClientIss
    <3>1. ASSUME NEW k \in DOMAIN Append(q, i)
          PROVE  (k \in DOMAIN q /\ Append(q, i)[k] = q[k]) \/ Append(q, i)[k] = i
      BY <2>3, <3>1
    <3> QED BY <2>1, <2>2, <3>1 DEF q
  <2> QED BY <1>4, <1>5, <1>7, <2>4 DEF ListenerRight, q
<1> QED BY <1>2, <1>6, <1>7

LEMMA ZeroApart ==
    ASSUME NEW a \in SeqNums, NEW b \in SeqNums, Minus(a, b) = 0
    PROVE  a = b
<1>1. /\ a \in 0 .. SeqSpace - 1 /\ b \in 0 .. SeqSpace - 1 /\ SeqSpace \in Nat
      /\ Minus(a, b) = IF a >= b THEN a - b ELSE a - b + SeqSpace
  BY MinusIs
<1> QED BY <1>1

LEMMA ProcessSegmentKeeps ==
    ASSUME StreamInv, HostsFit, HostsFit', ShortStreams, NEW h \in Hosts, NEW nic \in Nics,
           ProcessSegment(h, nic)
    PROVE  StreamInv'
<1> DEFINE p == Peer(h)
           seg == Head(net[h])
           s == sock["listener"]
           r == [s EXCEPT !.nic = nic]
           z == [Unused EXCEPT !.nic = nic]
           a == StateClosed(z, seg)
           b == StateListen(r, p, seg)
           outs == {<<>>, <<ResetSegment(seg)>>}
<1>1. /\ p \in Hosts /\ Peer(p) = h /\ p # h /\ h \in Sockets /\ p \in Sockets
      /\ "listener" \in Sockets /\ h # "listener" /\ p # "listener"
  BY HostIs DEF Sockets
<1>2. net[h] # <<>> /\ UNCHANGED <<task, written, shut, read, ended>>
  BY DEF ProcessSegment, history
<1>3. /\ Comes(seg, sock[h], Env(h))
      /\ \A i \in DOMAIN Tail(net[h]) : \E j \in DOMAIN net[h] : Tail(net[h])[i] = net[h][j]
  BY <1>2, HeadComes
<1>4. seg \in Segments
  BY <1>3 DEF Comes
<1>5. ASSUME NEW out, net' = [[net EXCEPT ![h] = Tail(@)] EXCEPT ![p] = @ \o out]
      PROVE  /\ net'[p] = net[p] \o out
             /\ \A i \in DOMAIN net'[h] : \E j \in DOMAIN net[h] : net'[h][i] = net[h][j]
  <2>1. net'[h] = Tail(net[h]) /\ net'[p] = net[p] \o out
    BY <1>1, <1>5 DEF HostsFit, NetFits
  <2> QED BY <1>3, <2>1
<1>6. CASE Matching(h) = {}
  <2>1. /\ sock' = [x \in Sockets |-> sock[x]]
        /\ net' = [[net EXCEPT ![h] = Tail(@)] EXCEPT ![p] = @ \o a.out]
    BY <1>6 DEF ProcessSegment
  <2>2. a.out \in outs
    <3>1. DOMAIN z = SocketFields /\ z.out = <<>>
      BY UnusedFits DEF SocketFields
    <3> DEFINE d == ResetSegment(seg)
               c == [z EXCEPT !.out = Append(@, d)]
    <3>2. a \in {z, c}
      BY DEF StateClosed
    <3> HIDE DEF z, a, d
    <3>3. c.out = <<d>>
      BY <3>1 DEF SocketFields
    <3> HIDE DEF c
    <3> QED BY <3>1, <3>2, <3>3 DEF d
  <2>3. sock'[h] = sock[h] /\ sock'[p] = sock[p] /\ sock'["listener"] = s
    BY <1>1, <2>1
  <2>4. ListenerRight'
    BY <2>3 DEF StreamInv, ListenerRight
  <2> HIDE DEF a
  <2> DEFINE out == a.out
  <2>5. out \in outs /\ net' = [[net EXCEPT ![h] = Tail(@)] EXCEPT ![p] = @ \o out]
    BY <2>1, <2>2
  <2> HIDE DEF out, seg
  <2>6. /\ net'[p] = net[p] \o out
        /\ \A i \in DOMAIN net'[h] : \E j \in DOMAIN net[h] : net'[h][i] = net[h][j]
    BY <1>5, <2>5 DEF seg
  <2>7. out \in {<<>>, <<ResetSegment(seg)>>} /\ seg \in Segments
    BY <1>4, <2>5
  <2>8. UNCHANGED <<task, written, shut, read, ended>>
    BY <1>2
  <2> HIDE DEF outs, p
  <2>9. /\ sock'[h] = sock[h] /\ sock'[Peer(h)] = sock[Peer(h)]
        /\ net'[Peer(h)] = net[Peer(h)] \o out
    BY <2>3, <2>6 DEF p
  <2> QED BY <2>4, <2>6, <2>7, <2>8, <2>9, AnswerStep
<1>7. CASE Matching(h) = {"listener"}
  <2>1. h = "server" /\ p = "client"
    BY <1>1, <1>7 DEF Matching, Peer
  <2>2. /\ sock' = [x \in Sockets |-> IF x \in {"listener"} THEN Left(b) ELSE sock[x]]
        /\ net' = [[net EXCEPT ![h] = Tail(@)] EXCEPT ![p] = @ \o b.out]
    <3>1. "listener" = CHOOSE x \in Matching(h) : TRUE
      BY <1>7
    <3>2. r.state = "LISTEN"
      BY <1>1, SocketWithNic DEF HostsFit, SocketsFit, Listening
    <3> HIDE DEF r, p, seg
    <3>3. b = ProcessState(r, p, seg)
      BY <3>2 DEF ProcessState
    <3> HIDE DEF b
    <3> QED BY <1>7, <3>1, <3>3 DEF ProcessSegment, Left, r, p, seg
  <2>3. AtRest(s)
    BY <1>1 DEF HostsFit, SocketsFit
  <2>4. b.out \in outs
    <3> DEFINE d == ResetSegment(seg)
               c == [r EXCEPT !.out = Append(@, d)]
               i == [src |-> p, isn |-> seg.seq]
               q == [r EXCEPT !.synQueue = Append(@, i)]
               u == UpdateEvents(q)
    <3>1. DOMAIN r = SocketFields /\ r.out = <<>>
      BY <2>3 DEF AtRest, Fit, Bounded, Loose, WaitOK, SocketFields
    <3>2. b \in {r, c, u}
      <4> HIDE DEF r, d, p, seg
      <4> QED BY DEF StateListen, d
    <3> HIDE DEF r, b, d, i
    <3>3. c.out = <<d>> /\ u.out = r.out
      BY <3>1 DEF SocketFields, UpdateEvents
    <3> HIDE DEF c, u
    <3> QED BY <3>1, <3>2, <3>3 DEF d
  <2>5. sock'[h] = sock[h] /\ sock'[p] = sock[p] /\ sock'["listener"] = Left(b)
    BY <1>1, <2>2
  <2>6. "SYN" \in seg.flags => seg.seq = ClientIss
    <3>1. SegmentRight(seg, Iss(p), written[p], shut[p],
                       Limit(sock[h], Env(h).reads, Env(h).peer))
      BY <1>3 DEF Comes, Env
    <3>2. Iss(p) = ClientIss /\ ClientIss \in SeqNums /\ seg.seq \in SeqNums
      BY <1>4, <2>1, System, SegmentFields DEF Iss
    <3> HIDE DEF seg
    <3> QED BY <3>1, <3>2, ZeroApart DEF SegmentRight
  <2>7. ListenerRight'
    <3>1. ListenerRight
      BY DEF StreamInv
    <3> HIDE DEF seg, p
    <3> QED BY <1>1, <2>3, <2>5, <2>6, <3>1, RequestKept
  <2> HIDE DEF b
  <2> DEFINE out == b.out
  <2>8. out \in outs /\ net' = [[net EXCEPT ![h] = Tail(@)] EXCEPT ![p] = @ \o out]
    BY <2>2, <2>4
  <2> HIDE DEF out, seg
  <2>9. /\ net'[p] = net[p] \o out
        /\ \A i \in DOMAIN net'[h] : \E j \in DOMAIN net[h] : net'[h][i] = net[h][j]
    BY <1>5, <2>8 DEF seg
  <2> QED BY <1>2, <1>4, <2>5, <2>7, <2>8, <2>9, AnswerStep
<1>8. CASE Matching(h) = {h}
  BY <1>8, SegmentToHost
<1> QED BY <1>6, <1>7, <1>8 DEF Matching

\* The network loses, repeats and delays only what was sent.
LEMMA NetworkKeeps ==
    ASSUME StreamInv, HostsFit, HostsFit', ShortStreams, NEW h \in Hosts, Network(h)
    PROVE  StreamInv'
<1> DEFINE q == net[h]
           p == Peer(h)
           none == <<>>
<1>1. p \in Hosts /\ p # h
  BY HostIs
<1>2. /\ q # <<>> /\ UNCHANGED <<sock, task, written, shut, read, ended>>
      /\ \/ net' = [net EXCEPT ![h] = Tail(q)]
         \/ net' = [net EXCEPT ![h] = Append(q, Head(q))]
         \/ net' = [net EXCEPT ![h] = Append(Tail(q), Head(q))]
  BY DEF Network, Lose, Duplicate, Delay, history
<1>3. q \in Seq(Segments) /\ net[p] \in Seq(Segments)
  BY <1>1, RestOf
<1>4. /\ Head(q) \in Segments /\ Tail(q) \in Seq(Segments) /\ Head(q) = q[1]
      /\ 1 \in DOMAIN q
      /\ \A i \in DOMAIN Tail(q) : \E j \in DOMAIN q : Tail(q)[i] = q[j]
  BY <1>2, HeadComes, <1>3
<1>5. net'[h] \in {Tail(q), Append(q, Head(q)), Append(Tail(q), Head(q))} /\ net'[p] = net[p]
  BY <1>1, <1>2 DEF HostsFit, NetFits
<1>6. net'[p] = net[p] \o none
  BY <1>3, <1>5
<1> DEFINE a == Append(q, Head(q))
           b == Append(Tail(q), Head(q))
<1> HIDE DEF q
<1>7. \A i \in DOMAIN a : \E j \in DOMAIN q : a[i] = q[j]
  <2>1. ASSUME NEW i \in DOMAIN a
        PROVE  (i \in DOMAIN q /\ a[i] = q[i]) \/ a[i] = Head(q)
    BY <1>3, <1>4, <2>1, Appended
  <2> QED BY <1>4, <2>1
<1>8. \A i \in DOMAIN b : \E j \in DOMAIN q : b[i] = q[j]
  <2> DEFINE c == Tail(q)
  <2>1. c \in Seq(Segments)
    BY <1>4
  <2>2. ASSUME NEW i \in DOMAIN b
        PROVE  (i \in DOMAIN c /\ b[i] = c[i]) \/ b[i] = Head(q)
    BY <1>4, <2>1, <2>2, Appended
  <2> QED BY <1>4, <2>2
<1> HIDE DEF a, b
<1>9. \A i \in DOMAIN net'[h] : \E j \in DOMAIN q : net'[h][i] = q[j]
  <2>1. CASE net'[h] = a
    BY <1>7, <2>1
  <2>2. CASE net'[h] = b
    BY <1>8, <2>2
  <2>3. CASE net'[h] = Tail(q)
    BY <1>4, <2>3
  <2> QED BY <1>5, <2>1, <2>2, <2>3 DEF a, b
<1>10. ListenerRight'
  BY <1>2 DEF StreamInv, ListenerRight
<1>11. PICK seg : seg \in Segments
  BY <1>4
<1>12. none \in {<<>>, <<ResetSegment(seg)>>}
  OBVIOUS
<1> HIDE DEF none
<1>13. \A i \in DOMAIN net'[h] : \E j \in DOMAIN net[h] : net'[h][i] = net[h][j]
  BY <1>9 DEF q
<1>14. /\ sock'[h] = sock[h] /\ sock'[Peer(h)] = sock[Peer(h)]
       /\ net'[Peer(h)] = net[Peer(h)] \o none
       /\ UNCHANGED <<task, written, shut, read, ended>>
  BY <1>2, <1>6
<1> QED BY <1>10, <1>11, <1>12, <1>13, <1>14, AnswerStep

-----------------------------------------------------------------------------
(* The calls *)

\* A call of host h leaves s of its socket, but for the events, and its task in k.
Leaves(h, s, k) ==
    \/ \E mask \in SUBSET Events : Await(h, s, k, mask)
    \/ \E closing \in BOOLEAN :
            Returns(h, s, closing) /\ k = [Idle EXCEPT !.closing = closing]

LEMMA LeavesIs ==
    ASSUME NEW h \in Hosts, Works(h), NEW s, Fit(s), NEW k \in Tasks, Leaves(h, s, k)
    PROVE  \E u, j : /\ Put(h, u) /\ Become(h, j) /\ Differs(s, u, {}) /\ Loose(u)
                     /\ j.at = k.at /\ j.how = k.how /\ j.closing = k.closing
<1>1. Own(h) = h /\ DOMAIN s = SocketFields
  BY DEF Own, Works, Fit, Bounded, Loose, WaitOK
<1>2. ASSUME NEW mask \in SUBSET Events, Await(h, s, k, mask)
      PROVE  \E u, j : /\ Put(h, u) /\ Become(h, j) /\ Differs(s, u, {}) /\ Loose(u)
                       /\ j.at = k.at /\ j.how = k.how /\ j.closing = k.closing
  <2> DEFINE u == WaitForEvents(s, mask)
             b == u.eventFlags = {}
             j == [k EXCEPT !.blocked = b]
  <2>1. Put(h, u) /\ Become(h, j)
    BY <1>1, <1>2 DEF Await
  <2>2. Differs(s, u, {}) /\ Loose(u)
    BY <1>1, WaitForEventsFits, EventsDiffer DEF Fit, Bounded
  <2> HIDE DEF u, b
  <2>3. j.at = k.at /\ j.how = k.how /\ j.closing = k.closing
    BY DEF Tasks
  <2> HIDE DEF j
  <2> QED BY <2>1, <2>2, <2>3
<1>3. ASSUME NEW closing \in BOOLEAN, Returns(h, s, closing),
             k = [Idle EXCEPT !.closing = closing]
      PROVE  \E u, j : /\ Put(h, u) /\ Become(h, j) /\ Differs(s, u, {}) /\ Loose(u)
                       /\ j.at = k.at /\ j.how = k.how /\ j.closing = k.closing
  <2>1. Put(h, Unwatched(s)) /\ Become(h, k)
    BY <1>1, <1>3 DEF Returns
  <2>2. Differs(s, Unwatched(s), {}) /\ Loose(Unwatched(s))
    BY <1>1, UnwatchedFits, EventsDiffer DEF Fit, Bounded
  <2> QED BY <2>1, <2>2
<1> QED BY <1>2, <1>3 DEF Leaves

\* The surroundings of the socket when the task of host h is in k.
EnvAfter(h, k) ==
    [own |-> Iss(h), peer |-> Iss(Peer(h)),
     written |-> written'[h], shut |-> shut'[h], low |-> Low(h),
     reads |-> Reading(k), got |-> Len(read'[h]),
     theirs |-> written[Peer(h)], over |-> shut[Peer(h)]]

SameHistory(p) ==
    /\ written'[p] = written[p] /\ shut'[p] = shut[p]
    /\ read'[p] = read[p] /\ ended'[p] = ended[p]

LEMMA CallStep ==
    ASSUME StreamInv, HostsFit, HostsFit', HistoryFits', ShortStreams, NEW h \in Hosts,
           Works(h), NEW s, Fit(s), NEW k \in Tasks, Leaves(h, s, k), SameHistory(Peer(h)),
           written[h] <= written'[h], shut[h] => shut'[h] /\ written'[h] = written[h],
           \/ Fresh(h)
           \/ Limit(sock[h], Reading(task[h]), Iss(Peer(h)))
                <= Limit(s, Reading(k), Iss(Peer(h))),
           k.at \in {"start", "accept"} \/ s.state = "SYN_SENT" =>
                Fresh(h) /\ Untouched(h)' /\ FreshSends(s),
           Fresh(Peer(h)) => Unheard(s, written'[h]),
           Right(s, EnvAfter(h, k)), StageOf(k, s, shut'[h], read'[h], ended'[h])
    PROVE  StreamInv'
<1> DEFINE p == Peer(h)
<1>1. PICK u, j : /\ Put(h, u) /\ Become(h, j) /\ Differs(s, u, {}) /\ Loose(u)
                  /\ j.at = k.at /\ j.how = k.how /\ j.closing = k.closing
  BY LeavesIs
<1>2. p \in Hosts /\ p # h
  BY HostIs
<1>3. /\ Rests(u, sock'[h]) /\ sock'[p] = sock[p]
      /\ net'[p] = net[p] \o u.out /\ net'[h] = net[h]
      /\ sock'["listener"] = sock["listener"]
  BY <1>1, PutSteps
<1>4. task'[h] = j /\ task'[p] = task[p]
  BY <1>1, <1>2 DEF Become, HostsFit, TasksFit
<1>5. Stepped(h, u)
  BY <1>3, <1>4 DEF Stepped, SameHistory
<1>6. /\ u.owned = s.owned /\ u.state = s.state /\ u.rcvNxt = s.rcvNxt
      /\ u.closedFlag = s.closedFlag /\ u.out = s.out
  BY <1>1 DEF Differs, AlikeBut, Core
<1>7. Reading(j) = Reading(k)
  BY <1>1 DEF Reading
<1>8. Limit(u, Reading(j), Iss(p)) = Limit(s, Reading(k), Iss(p))
  BY <1>6, <1>7 DEF Limit
<1>9. sock'[h].state = u.state /\ sock'[h].owned = u.owned /\ sock'[h].closedFlag = u.closedFlag
  BY <1>3, RestsSame
<1>10. Differs(s, u, {"out"}) /\ Differs(s, u, {"probing"}) /\ Differs(s, u, {"queue", "out"})
  BY <1>1, DiffersMore
<1>11. Proceeds(h, u)
  <2>1. Fresh(h)' => Fresh(h) /\ Untouched(h)' /\ FreshSends(u)
    <3>1. SUFFICES ASSUME Fresh(h)'
                   PROVE  Fresh(h) /\ Untouched(h)' /\ FreshSends(u)
      OBVIOUS
    <3>2. k.at \in {"start", "accept"} \/ s.state = "SYN_SENT"
      BY <1>1, <1>4, <1>6, <1>9, <3>1 DEF Fresh
    <3>3. Fresh(h) /\ Untouched(h)' /\ FreshSends(s)
      BY <3>2
    <3>4. FreshSocket(u)
      BY <1>10, <3>3, FreshSame DEF FreshSends
    <3> QED BY <1>6, <3>3, <3>4 DEF FreshSends
  <2>2. Fresh(p) => Unheard(u, written'[h])
    BY <1>10, UnheardKept
  <2> QED BY <1>4, <1>8, <2>1, <2>2 DEF Proceeds
<1>12. Env(h)' = EnvAfter(h, k)
  <2>1. Low(h)' = Low(h)
    BY <1>1, <1>5, LowNext
  <2> QED BY <1>4, <1>7, <2>1 DEF Env, EnvAfter, SameHistory
<1>13. Right(u, Env(h)')
  BY <1>10, <1>12, RightAlike
<1>14. Stage(h)'
  <2>1. StageOf(j, sock'[h], shut'[h], read'[h], ended'[h])
    BY <1>1, <1>6, <1>7, <1>9 DEF StageOf, Live
  <2> QED BY <1>4, <2>1 DEF Stage
<1>15. ListenerRight'
  BY <1>3 DEF StreamInv, ListenerRight
<1> QED BY <1>1, <1>5, <1>11, <1>13, <1>14, <1>15, HostStep

LEMMA EnvAfterIs ==
    ASSUME StreamInv, HostsFit, HostsFit', HistoryFits', ShortStreams, NEW h \in Hosts,
           SameHistory(Peer(h)), NEW k
    PROVE  EnvOK(EnvAfter(h, k)) /\ EnvOK(Env(h))
<1> DEFINE p == Peer(h)
           e == EnvAfter(h, k)
<1>1. p \in Hosts /\ Iss(h) \in SeqNums /\ Iss(p) \in SeqNums
  BY HostIs
<1>2. /\ written'[h] \in 0 .. Units[h] /\ written[p] \in 0 .. Units[p]
      /\ sock[p].rcvNxt \in SeqNums
  BY <1>1, RestOf, RestOfNext
<1>3. Low(h) \in 0 .. SeqSpace
  BY <1>1, <1>2, LimitFits DEF Low
<1>4. Len(read'[h]) \in Nat
  BY DEF HistoryFits
<1>5. /\ e.own = Iss(h) /\ e.peer = Iss(p) /\ e.written = written'[h] /\ e.theirs = written[p]
      /\ e.low = Low(h) /\ e.got = Len(read'[h])
  BY DEF EnvAfter
<1> HIDE DEF e
<1>6. EnvOK(e)
  BY <1>1, <1>2, <1>3, <1>4, <1>5, EnvOf
<1> QED BY <1>6, EnvFits DEF e, StreamInv

\* A call that waits or returns, and does no more to its socket.
LEMMA WaitKeeps ==
    ASSUME StreamInv, HostsFit, HostsFit', HistoryFits', ShortStreams, NEW h \in Hosts,
           task[h].at \notin {"start", "accept"}, SameHistory(Peer(h)),
           UNCHANGED <<written, shut, read>>,
           NEW s, Fit(s), Differs(sock[h], s, {}),
           NEW k \in Tasks, Leaves(h, s, k), Reading(k) => Reading(task[h]),
           k.at \notin {"start", "accept"}, k.closing => k.at = "idle",
           k.at \in {"flush", "drain"} => ~shut[h],
           k.at \in {"flush", "drain", "fin"} => k.how = "BOTH",
           k.at = "receive" => ~ended'[h], task[h].at # "closed"
    PROVE  StreamInv'
<1> DEFINE p == Peer(h)
           e == Env(h)
           f == EnvAfter(h, k)
           r == sock[h]
<1>1. p \in Hosts /\ Peer(p) = h
  BY HostIs
<1>2. Right(r, e) /\ Begins(h) /\ Begins(p) /\ Stage(h)
  BY <1>1 DEF StreamInv
<1>3. EnvOK(e) /\ EnvOK(f)
  BY EnvAfterIs
<1>4. r.rcvNxt \in SeqNums /\ r.out = <<>>
  BY RestOf
<1>5. /\ s.owned = r.owned /\ s.state = r.state /\ s.rcvNxt = r.rcvNxt
      /\ s.closedFlag = r.closedFlag /\ s.out = r.out
  BY DEF Differs, AlikeBut, Core
<1>6. Differs(r, s, {"out"}) /\ Differs(r, s, {"probing"}) /\ Differs(r, s, {"queue", "out"})
  BY DiffersMore
<1>7. Grown(e, f) /\ e.low = f.low /\ e.low \in Nat
  <2>1. Grown(e, f) /\ e.low = f.low
    <3>1. written[p] \in Nat
      BY <1>1, RestOf, System
    <3> QED BY <3>1 DEF Grown, Env, EnvAfter
  <2>2. e.low \in 0 .. SeqSpace /\ SeqSpace \in Nat
    BY <1>3, MinusIs DEF EnvOK
  <2> QED BY <2>1, <2>2
<1>8. Right(s, f)
  <2>1. Right(s, e)
    BY <1>2, <1>6, RightAlike
  <2>2. Loose(s) /\ e.low <= f.low
    BY <1>7 DEF Fit, Bounded
  <2> HIDE DEF e, f
  <2> QED BY <1>3, <1>7, <2>1, <2>2, GrownRight
<1>9. Limit(r, Reading(task[h]), Iss(p)) <= Limit(s, Reading(k), Iss(p))
  <2>1. Iss(p) \in SeqNums /\ SeqSpace \in Nat
    BY <1>1, HostIs, MinusIs
  <2>2. /\ Limit(r, Reading(task[h]), Iss(p)) \in 0 .. SeqSpace
        /\ Limit(s, Reading(k), Iss(p)) \in 0 .. SeqSpace
    BY <1>4, <1>5, <2>1, LimitFits
  <2>3. CASE Reading(k)
    <3>1. Limit(r, Reading(task[h]), Iss(p)) = Limit(s, Reading(k), Iss(p))
      BY <1>5, <2>3 DEF Limit
    <3> QED BY <2>1, <2>2, <3>1
  <2>4. CASE ~Reading(k)
    <3>1. Limit(s, Reading(k), Iss(p)) = SeqSpace
      BY <2>4 DEF Limit
    <3> QED BY <2>1, <2>2, <3>1
  <2> QED BY <2>3, <2>4
<1>10. s.state = "SYN_SENT" => Fresh(h) /\ Untouched(h)' /\ FreshSends(s)
  BY <1>2, <1>4, <1>5, <1>6, FreshSame DEF Fresh, Begins, FreshSends, Untouched
<1>11. Fresh(p) => Unheard(s, written'[h])
  BY <1>1, <1>2, <1>6, UnheardKept DEF Begins
<1>12. StageOf(k, s, shut'[h], read'[h], ended'[h])
  BY <1>2, <1>5 DEF Stage, StageOf, Live
<1>13. Works(h)
  BY DEF Works
<1>14. written[h] <= written'[h]
  <2>1. written[h] \in Nat
    BY RestOf, System
  <2> QED BY <2>1
<1> QED BY <1>8, <1>9, <1>10, <1>11, <1>12, <1>13, <1>14, CallStep

LEMMA IdleIs ==
    ASSUME NEW closing \in BOOLEAN
    PROVE  LET k == [Idle EXCEPT !.closing = closing]
           IN  /\ k \in Tasks /\ k.at = "idle" /\ k.closing = closing
               /\ (Reading(k) <=> ~closing)
BY DEF Idle, Tasks, Places, Waits, Reading

LEMMA EndKeeps ==
    ASSUME StreamInv, HostsFit, HostsFit', HistoryFits', ShortStreams, NEW h \in Hosts,
           task[h].at \notin {"start", "accept", "closed"}, SameHistory(Peer(h)),
           UNCHANGED <<written, shut, read>>,
           NEW s, Fit(s), Differs(sock[h], s, {}),
           NEW closing \in BOOLEAN, Returns(h, s, closing), ~closing => Reading(task[h])
    PROVE  StreamInv'
<1> DEFINE k == [Idle EXCEPT !.closing = closing]
<1>1. Leaves(h, s, k)
  BY DEF Leaves
<1>2. k \in Tasks /\ k.at = "idle" /\ k.closing = closing /\ (Reading(k) <=> ~closing)
  BY IdleIs
<1> HIDE DEF k
<1> QED BY <1>1, <1>2, WaitKeeps

LEMMA SameHistoryFits ==
    ASSUME StreamInv, UNCHANGED <<written, shut, read, ended>>, NEW p
    PROVE  HistoryFits' /\ SameHistory(p)
BY DEF StreamInv, HistoryFits, SameHistory

LEMMA PlaceOf ==
    ASSUME NEW h, NEW place, NEW nic, Resumes(h, place, nic)
    PROVE  task[h].at = place
BY DEF Resumes

LEMMA StageFacts ==
    ASSUME StreamInv, NEW h \in Hosts
    PROVE  /\ task[h].closing => task[h].at \in {"idle", "closed"}
           /\ task[h].at \in {"send", "receive", "connect"} => Reading(task[h])
           /\ task[h].at = "idle" /\ ~task[h].closing => Reading(task[h]) /\ ~shut[h]
           /\ task[h].at \in {"flush", "drain", "fin"} =>
                task[h].how = "BOTH" /\ ~Reading(task[h])
           /\ task[h].at \in {"flush", "drain"} => ~shut[h]
           /\ task[h].at = "receive" => ~ended[h]
           /\ task[h].at \notin {"start", "accept", "closed"} => sock[h].owned
           /\ Reading(task[h]) => ~shut[h] /\ Live(sock[h])
BY DEF StreamInv, Stage, StageOf, Reading

LEMMA ConnectReturnsKeeps ==
    ASSUME StreamInv, HostsFit, HostsFit', ShortStreams, ConnectReturns
    PROVE  StreamInv'
<1> DEFINE h == "client"
           closing == sock[h].eventFlags # {"CONNECTED"}
<1>1. h \in Hosts
  BY DEF Hosts
<1>2. /\ task[h].at = "connect" /\ Returns(h, sock[h], closing) /\ closing \in BOOLEAN
      /\ UNCHANGED <<written, shut, read, ended>>
  BY PlaceOf DEF ConnectReturns, history
<1> HIDE DEF h, closing
<1>3. Fit(sock[h]) /\ Differs(sock[h], sock[h], {})
  BY <1>1, HostInOrder, InOrderOf
<1>4. HistoryFits' /\ SameHistory(Peer(h))
  BY <1>2, SameHistoryFits
<1>5. Reading(task[h])
  BY <1>1, <1>2, StageFacts
<1> QED BY <1>1, <1>2, <1>3, <1>4, <1>5, EndKeeps

LEMMA PlaceIs ==
    ASSUME HostsFit, NEW h \in Hosts, NEW place \in Waits
    PROVE  LET g == Goto(h, place)
           IN  g \in Tasks /\ g.at = place /\ g.closing = task[h].closing /\ g.how = task[h].how
<1>1. TasksFit /\ place \in Places /\ task[h] \in Tasks
  BY DEF HostsFit, TasksFit, Places
<1>2. Goto(h, place).closing = task[h].closing
  BY <1>1 DEF Goto, Tasks
<1> QED BY <1>1, <1>2, GotoOf

LEMMA SendKeeps ==
    ASSUME StreamInv, HostsFit, HostsFit', ShortStreams, NEW h \in Hosts, Send(h)
    PROVE  StreamInv'
<1>1. /\ task[h].at = "idle" /\ ~task[h].closing
      /\ UNCHANGED <<written, shut, read, ended>>
  BY DEF Send, Calls, history
<1>2. PICK n \in WriteSizes :
            Await(h, sock[h], [Goto(h, "send") EXCEPT !.size = n], {"TX_READY"})
  BY DEF Send
<1> DEFINE g == Goto(h, "send")
           k == [g EXCEPT !.size = n]
<1>3. g \in Tasks /\ g.at = "send" /\ g.closing = task[h].closing
  BY PlaceIs DEF Waits
<1>4. k = [Goto(h, "send") EXCEPT !.size = n]
  OBVIOUS
<1> HIDE DEF g
<1>5. k \in Tasks /\ k.at = "send" /\ k.closing = task[h].closing
  BY <1>3, System DEF Tasks
<1>6. Reading(k)
  BY <1>1, <1>5 DEF Reading
<1>7. Leaves(h, sock[h], k)
  BY <1>2, <1>4 DEF Leaves, Events
<1> HIDE DEF k
<1>8. Fit(sock[h]) /\ Differs(sock[h], sock[h], {})
  BY HostInOrder, InOrderOf
<1>9. HistoryFits' /\ SameHistory(Peer(h))
  BY <1>1, SameHistoryFits
<1>10. Reading(task[h])
  BY <1>1, StageFacts
<1> QED BY <1>1, <1>5, <1>6, <1>7, <1>8, <1>9, <1>10, WaitKeeps

LEMMA ReceiveKeeps ==
    ASSUME StreamInv, HostsFit, HostsFit', ShortStreams, NEW h \in Hosts, Receive(h)
    PROVE  StreamInv'
<1>1. /\ task[h].at = "idle" /\ ~task[h].closing /\ ~ended[h]
      /\ UNCHANGED <<written, shut, read, ended>>
  BY DEF Receive, Calls, history
<1>2. PICK n \in ReadSizes :
            Await(h, sock[h], [Goto(h, "receive") EXCEPT !.size = n], {"RX_READY"})
  BY DEF Receive
<1> DEFINE g == Goto(h, "receive")
           k == [g EXCEPT !.size = n]
<1>3. g \in Tasks /\ g.at = "receive" /\ g.closing = task[h].closing
  BY PlaceIs DEF Waits
<1>4. k = [Goto(h, "receive") EXCEPT !.size = n]
  OBVIOUS
<1> HIDE DEF g
<1>5. k \in Tasks /\ k.at = "receive" /\ k.closing = task[h].closing
  BY <1>3, System DEF Tasks
<1>6. Reading(k)
  BY <1>1, <1>5 DEF Reading
<1>7. Leaves(h, sock[h], k)
  BY <1>2, <1>4 DEF Leaves, Events
<1> HIDE DEF k
<1>8. Fit(sock[h]) /\ Differs(sock[h], sock[h], {})
  BY HostInOrder, InOrderOf
<1>9. HistoryFits' /\ SameHistory(Peer(h))
  BY <1>1, SameHistoryFits
<1>10. Reading(task[h])
  BY <1>1, StageFacts
<1> QED BY <1>1, <1>5, <1>6, <1>7, <1>8, <1>9, <1>10, WaitKeeps

\* tcpShutdown of the receiving direction, for a call begun by a reader or one
\* that has shut down the sending one.
LEMMA DisableReceptionKeeps ==
    ASSUME StreamInv, HostsFit, HostsFit', ShortStreams, NEW h \in Hosts,
           UNCHANGED <<written, shut, read, ended>>,
           NEW how \in {"RECEIVE", "BOTH"}, DisableReception(h, sock[h], how),
           task[h].at \notin {"start", "accept", "closed"}, ~task[h].closing,
           how = "RECEIVE" => Reading(task[h])
    PROVE  StreamInv'
<1> DEFINE g == Goto(h, "end")
           k == [g EXCEPT !.how = how]
           closing == how = "BOTH"
<1>1. g \in Tasks /\ g.at = "end" /\ g.closing = task[h].closing
  BY PlaceIs DEF Waits
<1>2. \/ Await(h, sock[h], k, {"RX_SHUTDOWN"})
      \/ Returns(h, sock[h], closing)
  BY DEF DisableReception, ShutdownReturns
<1> HIDE DEF g
<1>3. k \in Tasks /\ k.at = "end" /\ k.closing = task[h].closing /\ k.how = how
  BY <1>1 DEF Tasks
<1>4. Reading(k) => Reading(task[h])
  BY <1>3 DEF Reading
<1>5. Fit(sock[h]) /\ Differs(sock[h], sock[h], {})
  BY HostInOrder, InOrderOf
<1>6. HistoryFits' /\ SameHistory(Peer(h))
  BY SameHistoryFits
<1> HIDE DEF k
<1>7. CASE Await(h, sock[h], k, {"RX_SHUTDOWN"})
  <2>1. Leaves(h, sock[h], k)
    BY <1>7 DEF Leaves, Events
  <2> QED BY <1>3, <1>4, <1>5, <1>6, <2>1, WaitKeeps
<1>8. CASE Returns(h, sock[h], closing)
  <2>1. closing \in BOOLEAN /\ (~closing => Reading(task[h]))
    OBVIOUS
  <2> HIDE DEF closing
  <2> QED BY <1>5, <1>6, <1>8, <2>1, EndKeeps
<1> QED BY <1>2, <1>7, <1>8

LEMMA ShutdownKeeps ==
    ASSUME StreamInv, HostsFit, HostsFit', ShortStreams, NoHalfClose, NEW h \in Hosts,
           Shutdown(h)
    PROVE  StreamInv'
<1> DEFINE s == sock[h]
           Begin(place, how) == [Goto(h, place) EXCEPT !.how = how]
           final == IF s.state = "CLOSE_WAIT" THEN "LAST_ACK" ELSE "FIN_WAIT_1"
<1>1. /\ task[h].at = "idle" /\ ~task[h].closing
      /\ UNCHANGED <<written, shut, read, ended>>
  BY DEF Shutdown, Calls, history
<1>2. PICK how \in Hows :
        \/ DisableReception(h, s, how)
        \/ Returns(h, s, TRUE)
        \/ /\ how # "RECEIVE"
           /\ \/ Await(h, s, [Begin("flush", how) EXCEPT !.finState = final], {"TX_READY"})
              \/ Await(h, s, Begin("fin", how), {"TX_SHUTDOWN"})
  <2> HIDE DEF final
  <2>1. PICK how \in Hows :
        \/ DisableReception(h, s, how)
        \/ ReturnError(h, s)
        \/ /\ how # "RECEIVE"
           /\ \/ Await(h, s, [Begin("flush", how) EXCEPT !.finState = final], {"TX_READY"})
              \/ Await(h, s, Begin("fin", how), {"TX_SHUTDOWN"})
    BY Zenon DEF Shutdown, final
  <2> QED BY <2>1 DEF ReturnError
<1>3. how \in {"RECEIVE", "BOTH"}
  BY <1>2, System DEF NoHalfClose
<1>4. Fit(s) /\ Differs(sock[h], s, {})
  BY HostInOrder, InOrderOf
<1>5. HistoryFits' /\ SameHistory(Peer(h))
  BY <1>1, SameHistoryFits
<1>6. Reading(task[h]) /\ ~shut[h]
  BY <1>1, StageFacts
<1>7. CASE DisableReception(h, s, how)
  BY <1>1, <1>3, <1>6, <1>7, DisableReceptionKeeps
<1>8. CASE Returns(h, s, TRUE)
  <2> DEFINE yes == TRUE
  <2>1. yes \in BOOLEAN /\ yes /\ Returns(h, s, yes)
    BY <1>8
  <2> HIDE DEF yes
  <2> QED BY <1>1, <1>4, <1>5, <2>1, EndKeeps
<1>9. ASSUME NEW place \in {"flush", "fin"}, NEW k, Leaves(h, s, k),
             how # "RECEIVE",
             \/ k = Begin(place, how)
             \/ k = [Begin(place, how) EXCEPT !.finState = final]
      PROVE  StreamInv'
  <2> DEFINE g == Goto(h, place)
             b == [g EXCEPT !.how = how]
             c == [b EXCEPT !.finState = final]
  <2>1. g \in Tasks /\ g.at = place /\ g.closing = task[h].closing
    BY PlaceIs DEF Waits
  <2>2. k = b \/ k = c
    BY <1>9
  <2> HIDE DEF g
  <2>3. final \in {"FIN_WAIT_1", "LAST_ACK"}
    OBVIOUS
  <2> HIDE DEF final
  <2>4. b \in Tasks /\ b.at = place /\ b.closing = task[h].closing /\ b.how = how
    BY <1>3, <2>1 DEF Tasks
  <2> HIDE DEF b
  <2>5. c \in Tasks /\ c.at = place /\ c.closing = task[h].closing /\ c.how = how
    BY <2>3, <2>4 DEF Tasks
  <2> HIDE DEF c
  <2>6. k \in Tasks /\ k.at = place /\ k.closing = task[h].closing /\ k.how = how
    BY <2>2, <2>4, <2>5
  <2> QED BY <1>1, <1>3, <1>4, <1>5, <1>6, <1>9, <2>6, WaitKeeps
<1>10. ASSUME how # "RECEIVE",
              Await(h, s, [Begin("flush", how) EXCEPT !.finState = final], {"TX_READY"})
       PROVE  StreamInv'
  <2> DEFINE k == [Begin("flush", how) EXCEPT !.finState = final]
  <2>1. k = [Begin("flush", how) EXCEPT !.finState = final]
    OBVIOUS
  <2> HIDE DEF k
  <2>2. Leaves(h, s, k)
    BY <1>10, <2>1 DEF Leaves, Events
  <2> QED BY <1>9, <1>10, <2>1, <2>2
<1>11. ASSUME how # "RECEIVE", Await(h, s, Begin("fin", how), {"TX_SHUTDOWN"})
       PROVE  StreamInv'
  <2> DEFINE k == Begin("fin", how)
  <2>1. k = Begin("fin", how)
    OBVIOUS
  <2> HIDE DEF k
  <2>2. Leaves(h, s, k)
    BY <1>11, <2>1 DEF Leaves, Events
  <2> QED BY <1>9, <1>11, <2>1, <2>2
<1> QED BY <1>2, <1>7, <1>8, <1>10, <1>11

LEMMA ErrorKeeps ==
    ASSUME StreamInv, HostsFit, HostsFit', HistoryFits', ShortStreams, NEW h \in Hosts,
           task[h].at \notin {"start", "accept", "closed"}, SameHistory(Peer(h)),
           UNCHANGED <<written, shut, read>>,
           NEW s, Fit(s), Differs(sock[h], s, {}), ReturnError(h, s)
    PROVE  StreamInv'
<1> DEFINE yes == TRUE
<1>1. yes \in BOOLEAN /\ yes /\ Returns(h, s, yes)
  BY DEF ReturnError
<1> HIDE DEF yes
<1> QED BY <1>1, EndKeeps

LEMMA FinTurnKeeps ==
    ASSUME StreamInv, HostsFit, HostsFit', ShortStreams, NEW h \in Hosts, FinTurn(h)
    PROVE  StreamInv'
<1>1. /\ task[h].at = "fin" /\ UNCHANGED <<written, shut, read, ended>>
      /\ \/ ReturnError(h, sock[h])
         \/ DisableReception(h, sock[h], task[h].how)
  BY PlaceOf DEF FinTurn, history
<1>2. task[h].how = "BOTH" /\ ~task[h].closing
  BY <1>1, StageFacts
<1>3. Fit(sock[h]) /\ Differs(sock[h], sock[h], {})
  BY HostInOrder, InOrderOf
<1>4. HistoryFits' /\ SameHistory(Peer(h))
  BY <1>1, SameHistoryFits
<1>5. CASE ReturnError(h, sock[h])
  BY <1>1, <1>3, <1>4, <1>5, ErrorKeeps
<1>6. CASE DisableReception(h, sock[h], task[h].how)
  BY <1>1, <1>2, <1>6, DisableReceptionKeeps
<1> QED BY <1>1, <1>5, <1>6

LEMMA EndTurnKeeps ==
    ASSUME StreamInv, HostsFit, HostsFit', ShortStreams, NEW h \in Hosts, EndTurn(h)
    PROVE  StreamInv'
<1> DEFINE closing == task[h].how = "BOTH"
<1>1. /\ task[h].at = "end" /\ UNCHANGED <<written, shut, read, ended>>
      /\ \/ ReturnError(h, sock[h])
         \/ Returns(h, sock[h], closing)
  BY PlaceOf DEF EndTurn, history, ShutdownReturns
<1>2. ~closing => Reading(task[h])
  BY <1>1, StageFacts DEF Reading
<1>3. closing \in BOOLEAN
  OBVIOUS
<1> HIDE DEF closing
<1>4. Fit(sock[h]) /\ Differs(sock[h], sock[h], {})
  BY HostInOrder, InOrderOf
<1>5. HistoryFits' /\ SameHistory(Peer(h))
  BY <1>1, SameHistoryFits
<1>6. CASE ReturnError(h, sock[h])
  BY <1>1, <1>4, <1>5, <1>6, ErrorKeeps
<1>7. CASE Returns(h, sock[h], closing)
  BY <1>1, <1>2, <1>3, <1>4, <1>5, <1>7, EndKeeps
<1> QED BY <1>1, <1>6, <1>7

\* A call that sends data, or prepares to.
LEMMA TalkKeeps ==
    ASSUME StreamInv, HostsFit, HostsFit', HistoryFits', ShortStreams, NEW h \in Hosts,
           task[h].at \notin {"start", "accept", "closed"}, SameHistory(Peer(h)),
           UNCHANGED <<shut, read>>, written[h] <= written'[h],
           shut[h] => written'[h] = written[h],
           sock[h].state \in {"ESTABLISHED", "CLOSE_WAIT"},
           NEW u, Fit(u), Differs(sock[h], u, Sending \cup {"txBuffer"}),
           NEW k \in Tasks, Leaves(h, u, k), Reading(k) <=> Reading(task[h]),
           Speaks(u, EnvAfter(h, k)),
           k.at \notin {"start", "accept", "closed", "receive"}, k.closing => k.at = "idle",
           k.at \in {"flush", "drain", "fin"} => k.how = "BOTH" /\ ~shut[h]
    PROVE  StreamInv'
<1> DEFINE p == Peer(h)
           e == Env(h)
           f == EnvAfter(h, k)
           r == sock[h]
<1>1. p \in Hosts /\ Peer(p) = h
  BY HostIs
<1>2. Right(r, e) /\ Begins(p) /\ Stage(h)
  BY <1>1 DEF StreamInv
<1>3. /\ u.owned = r.owned /\ u.state = r.state /\ u.rcvNxt = r.rcvNxt
      /\ u.closedFlag = r.closedFlag
  BY DEF Differs, AlikeBut, Core, Sending
<1>4. ~Fresh(p)
  BY <1>1, <1>2 DEF Begins, Unheard
<1>5. Hears(u, e)
  BY <1>2, HearsAlike DEF Right, Differs, Sending, HearFields
<1>6. Hears(u, f)
  <2>1. /\ f.reads <=> e.reads
        /\ f.peer = e.peer /\ f.got = e.got /\ f.theirs = e.theirs /\ f.over = e.over
    BY DEF Env, EnvAfter
  <2> HIDE DEF e, f
  <2> QED BY <1>5, <2>1 DEF Hears, Heard, HeardAll
<1>7. Limit(r, Reading(task[h]), Iss(p)) <= Limit(u, Reading(k), Iss(p))
  <2>1. Limit(r, Reading(task[h]), Iss(p)) = Limit(u, Reading(k), Iss(p))
    BY <1>3 DEF Limit
  <2>2. Iss(p) \in SeqNums /\ SeqSpace \in Nat /\ r.rcvNxt \in SeqNums
    BY <1>1, HostIs, MinusIs, RestOf
  <2>3. Limit(r, Reading(task[h]), Iss(p)) \in 0 .. SeqSpace
    BY <2>2, LimitFits
  <2> QED BY <2>1, <2>2, <2>3
<1>8. StageOf(k, u, shut'[h], read'[h], ended'[h])
  BY <1>2, <1>3 DEF Stage, StageOf, Live
<1>9. Works(h)
  BY DEF Works
<1>10. k.at \notin {"start", "accept"} /\ u.state # "SYN_SENT"
  BY <1>3
<1>11. Right(u, f)
  BY <1>6 DEF Right
<1> QED BY <1>4, <1>7, <1>8, <1>9, <1>10, <1>11, CallStep

LEMMA FlushTurnKeeps ==
    ASSUME StreamInv, HostsFit, HostsFit', ShortStreams, NEW h \in Hosts, NEW nic \in Nics,
           FlushTurn(h, nic)
    PROVE  StreamInv'
<1> DEFINE s == [sock[h] EXCEPT !.nic = nic]
           noDelay == TRUE
           u == NagleAlgo(s, noDelay)
           k == Goto(h, "drain")
           r == sock[h]
           e == Env(h)
<1>1. /\ task[h].at = "flush" /\ UNCHANGED <<written, shut, read, ended>>
      /\ \/ ReturnError(h, s)
         \/ s.state \in {"ESTABLISHED", "CLOSE_WAIT"} /\ Await(h, u, k, {"TX_DONE"})
  BY PlaceOf DEF FlushTurn, history
<1>2. HistoryFits' /\ SameHistory(Peer(h))
  BY <1>1, SameHistoryFits
<1>3. task[h].how = "BOTH" /\ ~task[h].closing /\ ~Reading(task[h]) /\ ~shut[h]
  BY <1>1, StageFacts
<1>4. k \in Tasks /\ k.at = "drain" /\ k.closing = task[h].closing /\ k.how = task[h].how
  BY PlaceIs DEF Waits
<1>5. InOrder(s, e) /\ Differs(r, s, {}) /\ s.state = r.state
  BY NicInOrder
<1>6. Fit(s) /\ Loose(s) /\ EnvOK(e) /\ Speaks(s, e)
  BY <1>5, InOrderOf
<1> HIDE DEF s, k, noDelay
<1>7. CASE ReturnError(h, s)
  BY <1>1, <1>2, <1>5, <1>6, <1>7, ErrorKeeps
<1>8. CASE s.state \in {"ESTABLISHED", "CLOSE_WAIT"} /\ Await(h, u, k, {"TX_DONE"})
  <2>1. Fit(u)
    BY <1>6, NagleAlgoFits
  <2>2. Talks(r, s, Sending, e)
    BY <1>5, <1>6, DiffersMore DEF Talks
  <2>3. Talks(r, u, Sending, e)
    BY <1>6, <1>8, <2>2, NagleTalks DEF Hearing
  <2>4. Leaves(h, u, k)
    BY <1>8 DEF Leaves, Events
  <2> HIDE DEF u
  <2>5. ~Reading(k)
    BY <1>4 DEF Reading
  <2>6. EnvAfter(h, k) = e
    <3>1. Reading(k) = Reading(task[h])
      BY <1>3, <2>5 DEF Reading
    <3> QED BY <1>1, <3>1 DEF EnvAfter, Env
  <2>7. Speaks(u, EnvAfter(h, k)) /\ Differs(r, u, Sending \cup {"txBuffer"})
    BY <2>3, <2>6, DiffersMore DEF Talks
  <2>8. written[h] <= written'[h]
    BY <1>1, RestOf, System
  <2> HIDE DEF e
  <2> QED BY <1>1, <1>2, <1>3, <1>4, <1>5, <1>8, <2>1, <2>4, <2>5, <2>7, <2>8, TalkKeeps
<1> QED BY <1>1, <1>7, <1>8

LEMMA SentWithMore ==
    ASSUME NEW x \in Nat, NEW v \in Nat, NEW w \in Nat, NEW n \in Nat, x + v = w + 1
    PROVE  x + (v + n) = w + n + 1
OBVIOUS

LEMMA RoomForMore ==
    ASSUME NEW x \in Nat, NEW v \in Nat, NEW w \in Nat, NEW n \in Nat, x + v = w + 1,
           NEW u \in Nat, TxBufferSize \in Nat, n + v + (x - u) <= TxBufferSize
    PROVE  w + n + 1 <= u + TxBufferSize
OBVIOUS

\* The units the program writes now follow those it has written.
LEMMA WriteSpeaks ==
    ASSUME NEW s, Loose(s), NEW e, EnvOK(e), Speaks(s, e), ~e.shut,
           s.state \in {"ESTABLISHED", "CLOSE_WAIT"}, s.out = <<>>,
           NEW f, EnvOK(f), NEW n \in Nat, n <= RoomToWrite(s),
           f.own = e.own, f.peer = e.peer, f.written = e.written + n, f.shut = e.shut,
           f.low = e.low, f.reads <=> e.reads,
           NEW data \in Seq(Nat), Len(data) = n, \A k \in 1 .. n : data[k] = e.written + k,
           NEW t, Differs(s, t, {"txBuffer", "sndUser"}), t.sndUser = s.sndUser + n,
           t.txBuffer = WriteBuffer(s.txBuffer, s.iss, Plus(s.sndNxt, s.sndUser), data)
    PROVE  Speaks(t, f)
<1> DEFINE u == Minus(s.sndUna, e.own)
           x == Minus(s.sndNxt, e.own)
           w == e.written
<1>1. /\ s.sndUna \in SeqNums /\ s.sndNxt \in SeqNums /\ s.sndUser \in Nat
      /\ s.txBuffer \in Buffers /\ s.queue \in Seq(Headers)
  BY LooseFields
<1>2. s.owned /\ s.txBuffer # Released /\ Placed(s, e) /\ Stored(s, e)
  BY DEF Speaks, Ready, Hearing
<1>3. /\ u \in Nat /\ x \in Nat /\ u <= x /\ 1 <= x
      /\ InFlight(s) = x - u /\ w \in Nat /\ 2 * (w + 2) < SeqSpace
  BY <1>2, Positions
<1>4. /\ s.iss = e.own /\ x + s.sndUser = w + 1 /\ u <= e.low
      /\ e.own \in SeqNums
  BY <1>2 DEF Placed, EnvOK
<1>5. TxBufferSize \in Nat \ {0} /\ SeqSpace \in Nat \ {0}
  BY Sizes, MinusIs
<1>6. n + s.sndUser + (x - u) <= TxBufferSize
  <2>1. RoomToWrite(s) = TxBufferSize - (s.sndUser + InFlight(s))
    BY DEF RoomToWrite
  <2> HIDE DEF u, x
  <2> QED BY <1>1, <1>3, <1>5, <2>1
<1>7. /\ t.owned = s.owned /\ t.state = s.state /\ t.iss = s.iss
      /\ t.sndUna = s.sndUna /\ t.sndNxt = s.sndNxt /\ t.queue = s.queue
      /\ t.rcvNxt = s.rcvNxt /\ t.out = <<>>
  BY DEF Differs, AlikeBut, Core
<1>8. Placed(t, f)
  <2> DEFINE v == s.sndUser
  <2>1. w + n + 1 <= u + TxBufferSize
    <3>1. /\ n \in Nat /\ v \in Nat /\ u \in Nat /\ x \in Nat /\ w \in Nat
          /\ TxBufferSize \in Nat /\ x + v = w + 1 /\ n + v + (x - u) <= TxBufferSize
      BY <1>1, <1>3, <1>4, <1>5, <1>6
    <3> HIDE DEF u, x, w, v
    <3> QED BY <3>1, RoomForMore
  <2>2. x + (s.sndUser + n) = w + n + 1
    <3>1. n \in Nat /\ v \in Nat /\ x \in Nat /\ w \in Nat /\ x + v = w + 1
      BY <1>1, <1>3, <1>4
    <3> HIDE DEF x, w, v
    <3>2. x + (v + n) = w + n + 1
      BY <3>1, SentWithMore
    <3> QED BY <3>2 DEF v
  <2> QED BY <1>3, <1>4, <1>7, <2>1, <2>2 DEF Placed
<1>9. Stored(t, f) /\ t.txBuffer # Released
  <2> DEFINE o == w + 1
             y == Plus(s.sndNxt, s.sndUser)
             b == WriteBuffer(s.txBuffer, s.iss, y, data)
  <2>1. s.txBuffer \in Ring(TxBufferSize)
    BY <1>1, <1>2, TxRing
  <2>2. y \in SeqNums /\ o = Minus(y, s.iss) /\ o \in Nat /\ o >= 1
    <3>1. Minus(Plus(s.sndNxt, s.sndUser), e.own) = x + s.sndUser
      <4>1. x + s.sndUser \in 0 .. SeqSpace - 1
        <5> HIDE DEF x, w
        <5> QED BY <1>1, <1>3, <1>4, <1>5
      <4> DEFINE m == s.sndUser
      <4> HIDE DEF m
      <4>2. m \in 0 .. SeqSpace - 1 /\ Minus(s.sndNxt, e.own) + m < SeqSpace
        <5>1. m \in Nat
          BY <1>1 DEF m
        <5> HIDE DEF x
        <5> QED BY <1>3, <1>5, <4>1, <5>1 DEF m, x
      <4>3. Minus(Plus(s.sndNxt, m), e.own) = Minus(s.sndNxt, e.own) + m
        BY <1>1, <1>4, <4>2, MinusOfPlus
      <4> QED BY <4>3 DEF m
    <3>2. Plus(s.sndNxt, s.sndUser) \in SeqNums
      BY <1>1, PlusOf
    <3> HIDE DEF x
    <3> QED BY <1>3, <1>4, <3>1, <3>2
  <2> HIDE DEF y
  <2>3. s.iss \in SeqNums
    BY <1>4
  <2> HIDE DEF o
  <2>4. Overwrites(b, s.txBuffer, TxBufferSize, o, data)
    BY <1>5, <2>1, <2>2, <2>3, WriteAt
  <2>5. t.txBuffer = b
    BY DEF y
  <2> HIDE DEF b
  <2>6. b # Released
    BY <1>5, <2>4, RingSize DEF Overwrites
  <2>7. ASSUME NEW j \in 1 .. w + n, j + TxBufferSize > w + n
        PROVE  b[(j - 1) % TxBufferSize] = j
    <3>1. CASE j <= w
      <4>1. j < o /\ o + Len(data) <= j + TxBufferSize /\ j \in Nat
        BY <1>3, <1>5, <2>7, <3>1 DEF o
      <4>2. b[(j - 1) % TxBufferSize] = s.txBuffer[(j - 1) % TxBufferSize]
        BY <2>4, <4>1 DEF Overwrites
      <4>3. j \in 1 .. w /\ j + TxBufferSize > w
        BY <1>3, <1>5, <2>7, <3>1
      <4> QED BY <1>2, <4>2, <4>3 DEF Stored
    <3>2. CASE j > w
      <4>1. o <= j /\ j < o + TxBufferSize /\ j < o + Len(data) /\ j \in Nat
        <5>1. n <= TxBufferSize
          <6> DEFINE v == s.sndUser
          <6>1. /\ n \in Nat /\ v \in Nat /\ u \in Nat /\ x \in Nat /\ u <= x
                /\ TxBufferSize \in Nat /\ n + v + (x - u) <= TxBufferSize
            BY <1>1, <1>3, <1>5, <1>6
          <6> HIDE DEF u, x, v
          <6> QED BY <6>1
        <5> DEFINE l == Len(data)
        <5>2. /\ w \in Nat /\ n \in Nat /\ TxBufferSize \in Nat /\ j \in 1 .. w + n
              /\ j > w /\ o = w + 1 /\ l = n
          BY <1>3, <1>5, <2>7, <3>2 DEF o
        <5> HIDE DEF w, l
        <5>3. o <= j /\ j < o + TxBufferSize /\ j < o + l /\ j \in Nat
          BY <5>1, <5>2
        <5> QED BY <5>3 DEF l
      <4>2. b[(j - 1) % TxBufferSize] = data[j - o + 1]
        BY <2>4, <4>1 DEF Overwrites
      <4>3. j - o + 1 \in 1 .. n /\ w + (j - o + 1) = j
        <5>1. j - o + 1 = j - w /\ j - w \in 1 .. n /\ w + (j - w) = j
          <6> HIDE DEF w
          <6> QED BY <1>3, <2>7, <3>2 DEF o
        <5> QED BY <5>1
      <4> QED BY <4>2, <4>3
    <3> QED BY <1>3, <2>7, <3>1, <3>2
  <2> QED BY <2>5, <2>6, <2>7 DEF Stored
<1>10. Ready(t, f)
  BY <1>2, <1>7, <1>8, <1>9 DEF Ready, Speaks
<1>11. ASSUME NEW i \in DOMAIN t.queue
       PROVE  HeaderGood(t.queue[i], t, f)
  <2> DEFINE q == s.queue[i]
  <2>1. HeaderGood(q, s, e) /\ q \in Headers
    BY <1>1, <1>7, <1>11 DEF Speaks
  <2>2. t.queue[i] = q
    BY <1>7
  <2>3. HeaderRight(q, f)
    <3>1. q.length \in Nat /\ Minus(q.seq, e.own) \in Nat
      BY <1>4, <2>1, HeaderFields, MinusIs
    <3>2. HeaderRight(q, e)
      BY <2>1 DEF HeaderGood
    <3>3. f.written \in Nat /\ e.written \in Nat /\ e.written <= f.written
      BY <1>3
    <3> DEFINE o == Minus(q.seq, e.own)
    <3>4. o = Minus(q.seq, e.own) /\ o = Minus(q.seq, f.own) /\ o \in Nat
      BY <3>1
    <3> HIDE DEF q, o
    <3>5. "FIN" \notin q.flags
      BY <3>2 DEF HeaderRight
    <3>6. q.length > 0 => 1 <= o /\ o + q.length <= f.written + 1
      <4>1. q.length > 0 => 1 <= o /\ o + q.length <= e.written + 1
        BY <3>2, <3>4 DEF HeaderRight
      <4> QED BY <3>1, <3>3, <3>4, <4>1
    <3> QED BY <3>2, <3>4, <3>5, <3>6 DEF HeaderRight
  <2>4. Limit(t, f.reads, f.peer) = Limit(s, e.reads, e.peer)
    BY <1>7 DEF Limit
  <2>5. s.txBuffer # Released
    BY <1>2
  <2> HIDE DEF q
  <2> QED BY <1>9, <2>1, <2>2, <2>3, <2>4 DEF HeaderGood
<1> QED BY <1>7, <1>10, <1>11 DEF Speaks

LEMMA WriteDataTalks ==
    ASSUME NEW s, Fit(s), NEW e, EnvOK(e), Speaks(s, e), ~e.shut,
           s.state \in {"ESTABLISHED", "CLOSE_WAIT"}, s.out = <<>>,
           NEW f, EnvOK(f), NEW n \in Nat, n <= RoomToWrite(s),
           f.own = e.own, f.peer = e.peer, f.written = e.written + n, f.shut = e.shut,
           f.low = e.low, f.reads <=> e.reads,
           NEW data \in Seq(Nat), Len(data) = n, \A k \in 1 .. n : data[k] = e.written + k
    PROVE  Talks(s, WriteData(s, data), Sending \cup {"txBuffer"}, f)
<1> DEFINE x == s.sndNxt
           m == s.sndUser
           position == Plus(x, m)
           buffer == WriteBuffer(s.txBuffer, s.iss, position, data)
           more == m + n
           r == [s EXCEPT !.txBuffer = buffer, !.sndUser = more]
           t == UpdateEvents(r)
           no == FALSE
           z == NagleAlgo(t, no)
<1>1. DOMAIN s = SocketFields /\ SendOK(s) /\ Loose(s)
  BY DEF Fit, Bounded, Loose, WaitOK
<1>2. WriteData(s, data) = z
  BY DEF WriteData
<1>3. x \in SeqNums /\ m \in Int /\ m \in Nat /\ more \in 0 .. TxBufferSize
  <2>1. x \in SeqNums /\ m \in 0 .. TxBufferSize
    BY <1>1 DEF SendOK
  <2>2. m + RoomToWrite(s) <= TxBufferSize /\ RoomToWrite(s) \in Int
    BY RoomOf
  <2> HIDE DEF x, m
  <2> QED BY <2>1, <2>2, Sizes
<1> HIDE DEF x, m
<1>4. position \in SeqNums
  BY <1>3, PlusOf
<1> HIDE DEF position
<1>5. buffer \in Buffers
  BY <1>1, <1>4, WriteBufferOf DEF SendOK
<1> HIDE DEF buffer, more
<1>6. SendOK(r)
  BY <1>1, <1>3, <1>5 DEF SendOK, SocketFields
<1>7. /\ SameRest(s, r) /\ Differs(s, r, {"txBuffer", "sndUser"})
      /\ r.txBuffer = buffer /\ r.sndUser = more
  <2>1. DOMAIN r = SocketFields /\ r.txBuffer = buffer /\ r.sndUser = more
    BY <1>1 DEF SocketFields
  <2>2. SameRest(s, r)
    BY <1>1 DEF SameRest, SameReceiver, SameBlocks, SameWaiter, SocketFields
  <2>3. AlikeBut(s, r, {"txBuffer", "sndUser"})
    BY <1>1 DEF AlikeBut, Core, SocketFields
  <2> QED BY <2>1, <2>2, <2>3 DEF Differs
<1> HIDE DEF r
<1>8. Loose(r)
  BY <1>1, <1>6, <1>7, SameRestFits
<1>9. Loose(t) /\ t.state = r.state
  BY <1>8, UpdateEventsFits
<1>10. Speaks(r, f)
  BY <1>1, <1>7, WriteSpeaks DEF buffer, more, position, m, x
<1>11. r.state = s.state
  BY <1>7 DEF Differs, AlikeBut, Core
<1>12. Differs(r, r, {}) /\ DOMAIN r = SocketFields
  BY <1>7 DEF Differs, AlikeBut
<1>13. Talks(r, r, Sending, f)
  BY <1>10, <1>12, DiffersMore DEF Talks
<1>14. Talks(r, t, Sending, f)
  BY <1>13, EventsTalk
<1> HIDE DEF t
<1>15. Talks(r, z, Sending, f)
  BY <1>9, <1>11, <1>14, NagleTalks DEF Hearing
<1> HIDE DEF z
<1>16. Differs(s, z, Sending \cup {"txBuffer"})
  <2>1. {"txBuffer", "sndUser"} \cup Sending \subseteq Sending \cup {"txBuffer"}
    BY DEF Sending
  <2> QED BY <1>7, <1>15, <2>1, DiffersOf DEF Talks
<1> QED BY <1>2, <1>15, <1>16 DEF Talks

LEMMA SendTurnKeeps ==
    ASSUME StreamInv, HostsFit, HostsFit', ShortStreams, NEW h \in Hosts, NEW nic \in Nics,
           SendTurn(h, nic)
    PROVE  StreamInv'
<1> DEFINE p == Peer(h)
           s == [sock[h] EXCEPT !.nic = nic]
           room == RoomToWrite(s)
           size == task[h].size
           n == Least(room, size)
           w == written[h]
           data == [k \in 1 .. n |-> w + k]
           t == WriteData(s, data)
           left == size - n
           over == \/ s.eventFlags # {"TX_READY"}
                   \/ s.state \notin {"ESTABLISHED", "CLOSE_WAIT"}
                   \/ room <= 0
           g == Goto(h, "send")
           next == [g EXCEPT !.size = left]
           r == sock[h]
           e == Env(h)
<1>1. /\ task[h].at = "send" /\ UNCHANGED <<shut, read, ended>>
      /\ IF over THEN ReturnError(h, s) /\ UNCHANGED written
         ELSE /\ written' = [written EXCEPT ![h] = w + n]
              /\ IF left = 0 THEN Returns(h, t, FALSE)
                 ELSE Await(h, t, next, {"TX_READY"})
  BY PlaceOf DEF SendTurn, Return
<1>2. Reading(task[h]) /\ ~task[h].closing /\ ~shut[h]
  BY <1>1, StageFacts
<1>3. p \in Hosts /\ p # h
  BY HostIs
<1>4. /\ size \in Nat /\ size > 0 /\ w \in Nat /\ w + size <= Units[h] /\ Units[h] \in Nat
  BY <1>1, System DEF HostsFit, TasksFit, TaskFits, Tasks
<1>5. InOrder(s, e) /\ Differs(r, s, {}) /\ s.state = r.state /\ s.out = <<>>
  BY NicInOrder
<1>6. Fit(s) /\ Loose(s) /\ EnvOK(e) /\ Speaks(s, e)
  BY <1>5, InOrderOf
<1>7. g \in Tasks /\ g.at = "send" /\ g.closing = task[h].closing
  BY PlaceIs DEF Waits
<1>8. CASE over
  <2>1. ReturnError(h, s) /\ UNCHANGED <<written, shut, read, ended>>
    BY <1>1, <1>8
  <2>2. HistoryFits' /\ SameHistory(p)
    BY <2>1, SameHistoryFits
  <2> HIDE DEF s
  <2> QED BY <1>1, <1>5, <1>6, <2>1, <2>2, ErrorKeeps
<1>9. CASE ~over
  <2>1. /\ written' = [written EXCEPT ![h] = w + n]
        /\ s.state \in {"ESTABLISHED", "CLOSE_WAIT"} /\ ~(room <= 0)
        /\ IF left = 0 THEN Returns(h, t, FALSE) ELSE Await(h, t, next, {"TX_READY"})
    BY <1>1, <1>9
  <2>2. HistoryFits' /\ SameHistory(p) /\ written'[h] = w + n
    <3>1. written \in [Hosts -> Nat]
      BY DEF HostsFit, TasksFit
    <3> HIDE DEF w, n
    <3> QED BY <1>1, <1>3, <2>1, <3>1 DEF StreamInv, HistoryFits, SameHistory
  <2>3. room \in Int /\ s.sndUser \in Nat /\ s.sndUser + room <= TxBufferSize
    <3> HIDE DEF s
    <3> QED BY <1>6, RoomOf
  <2>4. n \in Nat /\ n <= room /\ n <= size
    <3> HIDE DEF room, size
    <3> QED BY <1>4, <2>1, <2>3 DEF Least
  <2> DEFINE k == IF left = 0 THEN [Idle EXCEPT !.closing = FALSE] ELSE next
             f == EnvAfter(h, k)
  <2>5. k \in Tasks /\ k.at \in {"idle", "send"} /\ ~k.closing /\ Leaves(h, t, k)
    <3> HIDE DEF t
    <3>1. CASE left = 0
      <4> DEFINE no == FALSE
                 j == [Idle EXCEPT !.closing = no]
      <4>1. k = j /\ Returns(h, t, no) /\ no \in BOOLEAN /\ ~no
        BY <2>1, <3>1
      <4> HIDE DEF k, no
      <4>2. j \in Tasks /\ j.at = "idle" /\ j.closing = no
        BY <4>1, IdleIs
      <4>3. Leaves(h, t, j)
        BY <4>1 DEF Leaves
      <4> HIDE DEF j
      <4> QED BY <4>1, <4>2, <4>3
    <3>2. CASE left # 0
      <4>1. left \in Nat
        <5> HIDE DEF n, size
        <5> QED BY <1>4, <2>4
      <4>2. Await(h, t, next, {"TX_READY"}) /\ k = next
        BY <2>1, <3>2
      <4> HIDE DEF k, g, left
      <4>3. next \in Tasks /\ next.at = "send" /\ next.closing = task[h].closing
        BY <1>7, <4>1 DEF Tasks
      <4> HIDE DEF next
      <4>4. Leaves(h, t, next)
        BY <4>2 DEF Leaves, Events
      <4> QED BY <1>2, <4>2, <4>3, <4>4
    <3> QED BY <3>1, <3>2
  <2> HIDE DEF k
  <2>6. Reading(k)
    BY <2>5 DEF Reading
  <2>7. EnvOK(f)
    BY <2>2, EnvAfterIs
  <2>8. /\ f.own = e.own /\ f.peer = e.peer /\ f.written = e.written + n
        /\ f.shut = e.shut /\ f.low = e.low /\ (f.reads <=> e.reads)
        /\ ~e.shut /\ e.written = w
    BY <1>1, <1>2, <2>2, <2>6 DEF Env, EnvAfter
  <2>9. data \in Seq(Nat) /\ Len(data) = n /\ \A i \in 1 .. n : data[i] = w + i
    <3> HIDE DEF w, n
    <3>1. \A i \in 1 .. n : w + i \in Nat
      BY <1>4, <2>4
    <3> QED BY <2>4, <3>1
  <2>10. n <= RoomToWrite(s)
    BY <2>4
  <2> HIDE DEF s, room, n, w, f, data, e
  <2>11. Talks(s, t, Sending \cup {"txBuffer"}, f)
    BY <1>5, <1>6, <2>1, <2>4, <2>7, <2>8, <2>9, <2>10, WriteDataTalks
  <2>12. s.sndUser + Len(data) <= TxBufferSize
    BY <2>3, <2>4, <2>9, Sizes
  <2>13. Fit(t)
    BY <1>6, <2>9, <2>12, WriteDataFits
  <2> HIDE DEF t
  <2>14. Differs(r, t, Sending \cup {"txBuffer"}) /\ Speaks(t, f)
    BY <1>5, <2>11, DiffersOf DEF Talks
  <2>15. written[h] <= written'[h]
    <3>1. written[h] = w
      BY DEF w
    <3> QED BY <1>4, <2>2, <2>4, <3>1
  <2> QED BY <1>1, <1>2, <1>5, <2>1, <2>2, <2>5, <2>6, <2>13, <2>14, <2>15, TalkKeeps DEF f
<1> QED BY <1>8, <1>9

-----------------------------------------------------------------------------
(* What is read *)

LEMMA ReadIs ==
    ASSUME NEW s, Loose(s), NEW e, EnvOK(e), Hears(s, e), e.reads,
           s.state \in {"ESTABLISHED", "CLOSE_WAIT"}, NEW n \in Nat, n <= s.rcvUser
    PROVE  ReadData(s, n) = [k \in 1 .. n |-> e.got + k]
<1> DEFINE x == ReadPosition(s)
           m == s.rcvUser
           b == ReadBuffer(s.rxBuffer, s.irs, x, n)
<1>1. /\ s.irs = e.peer /\ s.rxBuffer \in Ring(RxBufferSize)
      /\ \A j \in e.got + 1 .. e.got + m : Holds(s.rxBuffer, j)
      /\ IF s.state = "CLOSE_WAIT" THEN HeardAll(s, e) ELSE Heard(s, e)
  BY DEF Hears, Hearing, Ring
<1>2. /\ s.rcvNxt \in SeqNums /\ e.peer \in SeqNums /\ m \in Nat /\ e.got \in Nat
      /\ e.theirs \in Nat /\ RxBufferSize \in Nat \ {0}
  BY LooseFields, Sizes DEF EnvOK, Short
<1>3. x \in SeqNums /\ Minus(x, e.peer) = e.got + 1
  <2>1. CASE s.state = "ESTABLISHED"
    <3>1. e.got + m + 1 = Minus(s.rcvNxt, e.peer)
      BY <1>1, <2>1 DEF Heard
    <3> HIDE DEF m
    <3>2. m <= Minus(s.rcvNxt, e.peer) /\ Minus(s.rcvNxt, e.peer) - m = e.got + 1
      BY <1>2, <3>1
    <3>3. Minus(s.rcvNxt, m) \in SeqNums /\ Minus(Minus(s.rcvNxt, m), e.peer) = e.got + 1
      BY <1>2, <3>2, MinusLess
    <3> QED BY <2>1, <3>3 DEF ReadPosition, m
  <2>2. CASE s.state = "CLOSE_WAIT"
    <3> DEFINE one == 1
               y == Minus(s.rcvNxt, one)
    <3>1. e.got + m = e.theirs /\ Minus(s.rcvNxt, e.peer) = e.theirs + 2
      BY <1>1, <2>2 DEF HeardAll
    <3>2. one \in Nat /\ one <= Minus(s.rcvNxt, e.peer)
      BY <1>2, <3>1
    <3> HIDE DEF m
    <3>3. Minus(s.rcvNxt, e.peer) - one = e.got + m + 1
      BY <1>2, <3>1
    <3> HIDE DEF one
    <3>4. y \in SeqNums /\ Minus(y, e.peer) = e.got + m + 1
      BY <1>2, <3>2, <3>3, MinusLess
    <3>5. x = Minus(y, m)
      BY <2>2 DEF ReadPosition, m, one
    <3> HIDE DEF y, x
    <3>6. m <= Minus(y, e.peer) /\ Minus(y, e.peer) - m = e.got + 1
      BY <1>2, <3>4
    <3>7. Minus(y, m) \in SeqNums /\ Minus(Minus(y, m), e.peer) = e.got + 1
      BY <1>2, <3>4, <3>6, MinusLess
    <3> QED BY <3>5, <3>7
  <2> QED BY <2>1, <2>2
<1> HIDE DEF x
<1>4. DOMAIN b = 1 .. n /\ b = [k \in 1 .. n |-> b[k]]
  BY DEF ReadBuffer
<1>5. ASSUME NEW k \in 1 .. n
      PROVE  b[k] = e.got + k
  <2>1. /\ s.irs \in SeqNums /\ Minus(x, s.irs) >= 1
        /\ Minus(x, s.irs) + k - 1 - 1 = (e.got + k) - 1
    BY <1>1, <1>2, <1>3
  <2>2. b[k] = s.rxBuffer[(Minus(x, s.irs) + k - 1 - 1) % RxBufferSize]
    BY <1>1, <1>2, <1>3, <2>1, ReadAt
  <2>3. e.got + k \in e.got + 1 .. e.got + m
    <3> HIDE DEF m
    <3>1. n <= m
      BY DEF m
    <3> QED BY <1>2, <3>1
  <2>4. s.rxBuffer[((e.got + k) - 1) % RxBufferSize] = e.got + k
    BY <1>1, <2>3 DEF Holds
  <2> HIDE DEF b
  <2> QED BY <2>1, <2>2, <2>4
<1>6. ReadData(s, n) = b
  BY DEF ReadData, x
<1> HIDE DEF b
<1>7. [k \in 1 .. n |-> b[k]] = [k \in 1 .. n |-> e.got + k]
  BY <1>5
<1> QED BY <1>4, <1>6, <1>7

\* tcpReceive takes what it returns out of the window.
LEMMA ConsumeRight ==
    ASSUME NEW s, Fit(s), NEW e, EnvOK(e), Right(s, e), e.reads,
           s.state \in {"ESTABLISHED", "CLOSE_WAIT"}, NEW n \in Nat, n <= s.rcvUser,
           NEW f, f.own = e.own, f.peer = e.peer, f.written = e.written, f.shut = e.shut,
           f.low = e.low, f.reads = e.reads, f.got = e.got + n, f.theirs = e.theirs,
           f.over = e.over
    PROVE  LET t == Consume(s, n)
           IN  Right(t, f) /\ Differs(s, t, {"rcvUser", "queue", "out"})
<1> DEFINE r == [s EXCEPT !.rcvUser = @ - n]
           opened == [r EXCEPT !.rcvWnd = RxBufferSize - r.rcvUser]
           x == UpdateReceiveWindow(r)
           u == UpdateEvents(x)
           R == {"rcvUser"}
           Q == {"rcvUser", "queue", "out"}
<1>1. DOMAIN s = SocketFields /\ Loose(s) /\ SendOK(s) /\ WaitOK(s) /\ s.rcvUser \in Nat
  BY LooseFields DEF Fit, Bounded, Loose
<1>2. /\ r.rcvUser = s.rcvUser - n /\ DOMAIN r = SocketFields /\ Differs(s, r, R)
  BY <1>1 DEF SocketFields, Differs, AlikeBut, Core
<1> HIDE DEF r
<1>3. Differs(r, opened, {}) /\ DOMAIN opened = SocketFields
  BY <1>2 DEF SocketFields, Differs, AlikeBut, Core
<1>4. opened = [r EXCEPT !.rcvWnd = RxBufferSize - r.rcvUser]
  OBVIOUS
<1> HIDE DEF opened
<1>5. x \in {r, opened, SendAck(opened)} /\ Consume(s, n) = u
  BY <1>4 DEF UpdateReceiveWindow, Consume, r
<1>6. Speaks(r, e) /\ Speaks(opened, e)
  <2>1. AlikeBut(s, r, R) /\ R \cap SpeakFields = {}
    BY <1>2 DEF Differs, SpeakFields
  <2>2. Speaks(r, e)
    BY <2>1, SpeaksAlike DEF Right
  <2>3. Differs(r, opened, {"probing"})
    BY <1>3, DiffersMore
  <2> QED BY <2>2, <2>3, SpeaksOfSame
<1>7. Loose(opened)
  <2>1. /\ SameSender(s, opened) /\ SameWaiter(s, opened)
        /\ opened.rcvUser = s.rcvUser - n /\ opened.rcvWnd = RxBufferSize - (s.rcvUser - n)
        /\ opened.irs = s.irs /\ opened.rcvNxt = s.rcvNxt /\ opened.sackBlock = s.sackBlock
    <3>1. /\ SameSender(s, r) /\ SameWaiter(s, r) /\ r.irs = s.irs /\ r.rcvNxt = s.rcvNxt
          /\ r.sackBlock = s.sackBlock
      BY <1>1 DEF r, SameSender, SameWaiter, SocketFields
    <3> QED BY <1>2, <3>1 DEF opened, SameSender, SameWaiter, SocketFields
  <2>2. ReceiveOK(s) /\ RxBufferSize \in Nat
    BY <1>1, Sizes DEF Loose
  <2>3. ReceiveOK(opened)
    <3>1. s.rcvUser - n \in Nat /\ RxBufferSize - (s.rcvUser - n) \in Nat
          /\ (s.rcvUser - n) + (RxBufferSize - (s.rcvUser - n)) <= RxBufferSize
      <4> DEFINE m == s.rcvUser
      <4>1. m \in Nat /\ m <= RxBufferSize /\ n <= m
        <5>1. s.rcvUser \in Nat /\ s.rcvWnd \in Nat /\ s.rcvUser + s.rcvWnd <= RxBufferSize
          BY <2>2 DEF ReceiveOK
        <5> QED BY <2>2, <5>1
      <4> HIDE DEF m
      <4>2. m - n \in Nat /\ RxBufferSize - (m - n) \in Nat
        BY <2>2, <4>1
      <4>3. (m - n) + (RxBufferSize - (m - n)) <= RxBufferSize
        BY <2>2, <4>1
      <4> QED BY <4>2, <4>3 DEF m
    <3> QED BY <2>1, <2>2, <3>1 DEF ReceiveOK
  <2> QED BY <1>1, <2>1, <2>3, SameSenderOK, SameWaiterOK DEF Loose
<1>8. Speaks(x, e) /\ Differs(r, x, {"queue", "out"})
  <2>1. Differs(r, r, {"queue", "out"}) /\ Differs(r, opened, {"queue", "out"})
    BY <1>2, <1>3, DiffersMore DEF Differs, AlikeBut
  <2>2. Speaks(SendAck(opened), e)
    BY <1>6, <1>7, SendAckSpeaks
  <2>3. Differs(r, SendAck(opened), {"queue", "out"})
    <3>1. Differs(opened, SendAck(opened), {"queue", "out"})
      BY <1>3, SendAckDiffers
    <3> QED BY <1>3, <3>1, DiffersOf
  <2> QED BY <1>5, <1>6, <2>1, <2>2, <2>3
<1> HIDE DEF x
<1>9. Speaks(u, e) /\ Differs(r, u, {"queue", "out"}) /\ Differs(s, u, Q)
  <2>1. Differs(x, u, {})
    BY <1>8, EventsDiffer DEF Differs
  <2>2. Differs(x, u, {"probing"}) /\ Differs(r, u, {"queue", "out"})
    BY <1>8, <2>1, DiffersMore, DiffersOf
  <2>3. Differs(s, u, Q)
    BY <1>2, <2>2, DiffersOf
  <2> QED BY <1>8, <2>2, <2>3, SpeaksOfSame
<1>10. /\ u.rcvUser = s.rcvUser - n
       /\ u.state = s.state /\ u.irs = s.irs /\ u.rcvNxt = s.rcvNxt
       /\ u.sackBlock = s.sackBlock /\ u.rxBuffer = s.rxBuffer
  BY <1>2, <1>9 DEF Differs, AlikeBut, Core
<1> HIDE DEF u
<1>11. Speaks(u, f)
  <2>1. Ready(u, f)
    BY <1>9 DEF Speaks, Ready, Placed, Stored
  <2>2. \A q : HeaderGood(q, u, e) => HeaderGood(q, u, f)
    BY DEF HeaderGood, HeaderRight
  <2>3. \A g : SegmentGood(g, u, e) => SegmentGood(g, u, f)
    BY DEF SegmentGood
  <2> QED BY <1>9, <2>1, <2>2, <2>3 DEF Speaks
<1>12. Hears(u, f)
  <2>1. /\ s.irs = e.peer /\ s.rxBuffer \in [0 .. RxBufferSize - 1 -> Nat]
        /\ \A j \in e.got + 1 .. e.got + s.rcvUser : Holds(s.rxBuffer, j)
        /\ IF s.state = "CLOSE_WAIT" THEN HeardAll(s, e) ELSE Heard(s, e)
    BY DEF Right, Hears, Hearing
  <2>2. e.got \in Nat /\ f.got + u.rcvUser = e.got + s.rcvUser
    BY <1>1, <1>10 DEF EnvOK
  <2>3. \A j \in f.got + 1 .. f.got + u.rcvUser : Holds(u.rxBuffer, j)
    <3>1. \A j \in f.got + 1 .. f.got + u.rcvUser : j \in e.got + 1 .. e.got + s.rcvUser
      BY <1>1, <1>10, <2>2
    <3> QED BY <1>10, <2>1, <3>1
  <2>4. IF u.state = "CLOSE_WAIT" THEN HeardAll(u, f) ELSE Heard(u, f)
    <3>1. \A y : Offset(u, y) = Offset(s, y)
      BY <1>10 DEF Offset
    <3>2. CASE s.state = "CLOSE_WAIT"
      BY <1>10, <2>1, <2>2, <3>2 DEF HeardAll
    <3>3. CASE s.state # "CLOSE_WAIT"
      <4>1. Heard(s, e) /\ u.state # "CLOSE_WAIT"
        BY <1>10, <2>1, <3>3
      <4>2. Heard(u, f)
        BY <1>10, <2>2, <3>1, <4>1 DEF Heard
      <4> QED BY <4>1, <4>2
    <3> QED BY <3>2, <3>3
  <2> QED BY <1>10, <2>1, <2>3, <2>4 DEF Hears
<1> QED BY <1>5, <1>9, <1>11, <1>12 DEF Right

LEMMA ReceiveTurnKeeps ==
    ASSUME StreamInv, HostsFit, HostsFit', ShortStreams, NEW h \in Hosts, NEW nic \in Nics,
           ReceiveTurn(h, nic)
    PROVE  StreamInv'
<1> DEFINE p == Peer(h)
           s == [sock[h] EXCEPT !.nic = nic]
           n == Least(s.rcvUser, task[h].size)
           no == FALSE
           t == Consume(s, n)
           r == sock[h]
           e == Env(h)
           open == s.state \in {"ESTABLISHED", "FIN_WAIT_1", "FIN_WAIT_2"}
           over == \/ s.state \in {"CLOSE_WAIT", "LAST_ACK", "CLOSING", "TIME_WAIT"}
                   \/ s.state = "CLOSED" /\ ~s.resetFlag /\ s.closedFlag
<1>1. /\ task[h].at = "receive" /\ UNCHANGED <<written, shut>>
      /\ \/ Returns(h, s, no) /\ UNCHANGED <<read, ended>>
         \/ /\ s.rcvUser > 0 /\ (open \/ over) /\ Returns(h, t, no)
            /\ read' = [read EXCEPT ![h] = @ \o ReadData(s, n)]
            /\ UNCHANGED ended
         \/ /\ Returns(h, s, no)
            /\ ended' = [ended EXCEPT ![h] = TRUE]
            /\ UNCHANGED read
         \/ ReturnError(h, s) /\ UNCHANGED <<read, ended>>
  BY PlaceOf DEF ReceiveTurn, Return
<1>2. Reading(task[h]) /\ Live(r)
  BY <1>1, StageFacts
<1>3. p \in Hosts /\ p # h /\ Peer(p) = h
  BY HostIs
<1>4. /\ InOrder(s, e) /\ Differs(r, s, {}) /\ s.state = r.state /\ s.rcvNxt = r.rcvNxt
      /\ (Live(r) <=> Live(s))
  BY NicInOrder
<1>5. Fit(s) /\ Loose(s) /\ EnvOK(e) /\ Right(s, e) /\ Hears(s, e)
  BY <1>4, InOrderOf
<1>6. no \in BOOLEAN
  OBVIOUS
<1>7. open \/ over => s.state \in {"ESTABLISHED", "CLOSE_WAIT"}
  BY <1>2, <1>4 DEF Live, Hearing
<1>8. /\ read \in [Hosts -> Seq(Nat)] /\ ended \in [Hosts -> BOOLEAN]
      /\ shut \in [Hosts -> BOOLEAN]
  BY DEF StreamInv, HistoryFits
<1>9. Stage(h) /\ Begins(p)
  BY <1>3 DEF StreamInv
<1> HIDE DEF s, open, over
<1>10. CASE Returns(h, s, no) /\ UNCHANGED <<read, ended>>
  <2>1. HistoryFits' /\ SameHistory(p)
    BY <1>1, <1>10, SameHistoryFits
  <2> HIDE DEF no
  <2> QED BY <1>1, <1>2, <1>4, <1>5, <1>6, <1>10, <2>1, EndKeeps
<1>11. CASE ReturnError(h, s) /\ UNCHANGED <<read, ended>>
  <2>1. HistoryFits' /\ SameHistory(p)
    BY <1>1, <1>11, SameHistoryFits
  <2> QED BY <1>1, <1>4, <1>5, <1>11, <2>1, ErrorKeeps
<1>12. CASE /\ Returns(h, s, no)
            /\ ended' = [ended EXCEPT ![h] = TRUE]
            /\ UNCHANGED read
  <2>1. HistoryFits' /\ SameHistory(p)
    BY <1>1, <1>3, <1>8, <1>12 DEF HistoryFits, SameHistory
  <2> HIDE DEF no
  <2> QED BY <1>1, <1>2, <1>4, <1>5, <1>6, <1>12, <2>1, EndKeeps
<1>13. CASE /\ s.rcvUser > 0 /\ (open \/ over) /\ Returns(h, t, no)
            /\ read' = [read EXCEPT ![h] = @ \o ReadData(s, n)]
            /\ UNCHANGED ended
  <2> DEFINE q == read[h]
             d == ReadData(s, n)
             k == [Idle EXCEPT !.closing = no]
             f == EnvAfter(h, k)
  <2>1. n \in Nat /\ n <= s.rcvUser /\ s.rcvUser \in Nat
    <3>1. s.rcvUser \in Nat /\ task[h].size \in Nat
      BY <1>5, LooseFields DEF HostsFit, TasksFit, Tasks
    <3> QED BY <3>1 DEF Least
  <2>2. s.state \in {"ESTABLISHED", "CLOSE_WAIT"}
    BY <1>7, <1>13
  <2>3. e.reads /\ e.got = Len(q) /\ e.reads = Reading(task[h])
    BY <1>2 DEF Env
  <2> HIDE DEF n
  <2>4. d = [i \in 1 .. n |-> Len(q) + i]
    BY <1>5, <2>1, <2>2, <2>3, ReadIs
  <2>5. q \in Seq(Nat) /\ q = [i \in 1 .. Len(q) |-> i]
    BY <1>8, <1>9 DEF Stage, StageOf
  <2> HIDE DEF d, q
  <2> DEFINE b == q \o d
  <2>6. b \in Seq(Nat) /\ Len(b) = Len(q) + n /\ b = [i \in 1 .. Len(b) |-> i]
    BY <2>1, <2>4, <2>5, Follows
  <2>7. read' = [read EXCEPT ![h] = b]
    BY <1>13 DEF q, d
  <2> HIDE DEF b
  <2>8. HistoryFits' /\ SameHistory(p) /\ read'[h] = b
    BY <1>1, <1>3, <1>8, <1>13, <2>6, <2>7 DEF HistoryFits, SameHistory
  <2>9. k \in Tasks /\ k.at = "idle" /\ k.closing = no /\ (Reading(k) <=> ~no)
    BY <1>6, IdleIs
  <2>10. Leaves(h, t, k)
    <3> HIDE DEF t
    <3> QED BY <1>6, <1>13 DEF Leaves
  <2>11. k.how = "BOTH"
    BY DEF Idle
  <2> HIDE DEF k
  <2>12. Reading(k) /\ ~k.closing
    BY <2>9
  <2>13. /\ f.own = e.own /\ f.peer = e.peer /\ f.written = e.written /\ f.shut = e.shut
         /\ f.low = e.low /\ f.reads = e.reads /\ f.got = e.got + n
         /\ f.theirs = e.theirs /\ f.over = e.over
    <3>1. Reading(k) = Reading(task[h])
      BY <1>2, <2>12 DEF Reading
    <3> QED BY <1>1, <2>3, <2>6, <2>8, <3>1 DEF Env, EnvAfter
  <2> HIDE DEF f, e
  <2>14. Right(t, f) /\ Differs(s, t, {"rcvUser", "queue", "out"})
    BY <1>5, <2>1, <2>2, <2>3, <2>13, ConsumeRight
  <2>15. Fit(t)
    BY <1>5, <2>1, ConsumeFits
  <2> HIDE DEF t
  <2>16. /\ t.state = s.state /\ t.rcvNxt = s.rcvNxt /\ t.owned = s.owned
         /\ t.closedFlag = s.closedFlag
    BY <2>14 DEF Differs, AlikeBut, Core
  <2>17. s.owned = r.owned /\ s.closedFlag = r.closedFlag
    BY <1>4 DEF Differs, AlikeBut, Core
  <2>18. ~Fresh(p)
    BY <1>3, <1>4, <1>9, <2>2 DEF Begins, Unheard
  <2>19. Limit(r, Reading(task[h]), Iss(p)) <= Limit(t, Reading(k), Iss(p))
    <3>1. Limit(r, Reading(task[h]), Iss(p)) = Limit(t, Reading(k), Iss(p))
      BY <1>2, <1>4, <2>12, <2>16 DEF Limit
    <3>2. Iss(p) \in SeqNums /\ SeqSpace \in Nat /\ r.rcvNxt \in SeqNums
      BY <1>3, HostIs, MinusIs, RestOf
    <3>3. Limit(r, Reading(task[h]), Iss(p)) \in 0 .. SeqSpace
      BY <3>2, LimitFits
    <3> QED BY <3>1, <3>2, <3>3
  <2>20. StageOf(k, t, shut'[h], read'[h], ended'[h])
    <3>1. t.owned /\ Live(t) /\ ~shut[h]
      BY <1>1, <1>2, <1>4, <1>9, <2>16, <2>17, StageFacts DEF Live
    <3> QED BY <1>1, <2>6, <2>8, <2>9, <2>12, <3>1 DEF StageOf
  <2>21. Works(h)
    BY <1>1 DEF Works
  <2>22. written[h] <= written'[h]
    BY <1>1, RestOf, System
  <2> QED BY <1>1, <2>2, <2>8, <2>9, <2>10, <2>14, <2>15, <2>16, <2>18, <2>19, <2>20,
             <2>21, <2>22, CallStep DEF f
<1> QED BY <1>1, <1>10, <1>11, <1>12, <1>13

-----------------------------------------------------------------------------
(* The end of what is written *)

\* Once all has been sent the stream may end.
LEMMA ShutSpeaks ==
    ASSUME NEW s, NEW e, EnvOK(e), Speaks(s, e), ~e.shut, s.out = <<>>,
           NEW f, f.own = e.own, f.peer = e.peer, f.written = e.written, f.shut = TRUE,
           f.low = e.low, f.reads = e.reads
    PROVE  Speaks(s, f)
<1>1. Ready(s, f)
  BY DEF Speaks, Ready, Placed, Stored
<1>2. \A q : HeaderGood(q, s, e) => HeaderGood(q, s, f)
  BY DEF HeaderGood, HeaderRight
<1> QED BY <1>1, <1>2 DEF Speaks

LEMMA FinSpeaks ==
    ASSUME NEW s, Loose(s), s.owned, s.state # "TIME_WAIT", s.sndUser = 0, s.out = <<>>,
           s.nic # "memory", NEW e, EnvOK(e), Speaks(s, e), ~e.shut, ~e.reads,
           NEW f, EnvOK(f), f.own = e.own, f.peer = e.peer, f.written = e.written,
           f.shut = TRUE, f.low = e.low, f.reads = e.reads,
           NEW newState \in {"FIN_WAIT_1", "LAST_ACK"}
    PROVE  Speaks(SendFin(s, newState), f)
<1> DEFINE flags == {"FIN", "ACK"}
           none == 0
           yes == TRUE
           seqNum == s.sndNxt
           ackNum == s.rcvNxt
           q == Header(s, flags, seqNum, ackNum, none)
           t == SendSegment(s, flags, seqNum, ackNum, none, yes)
           next == Plus(t.sndNxt, 1)
           r == [t EXCEPT !.sndNxt = next]
           v == ChangeState(r, newState)
           x == Minus(s.sndNxt, e.own)
<1>1. SendFin(s, newState) = IF Fails(s) THEN t ELSE v
  BY DEF SendFin
<1>2. /\ flags \in SUBSET Flags /\ none \in 0 .. Mss /\ yes \in BOOLEAN
      /\ seqNum \in SeqNums /\ ackNum \in SeqNums /\ DOMAIN s = SocketFields
      /\ e.own \in SeqNums /\ s.sndUna \in SeqNums
  BY Sizes, LooseFields DEF Flags, EnvOK
<1>3. Speaks(s, f)
  BY ShutSpeaks
<1>4. Placed(s, f) /\ Placed(s, e)
  BY <1>3 DEF Speaks, Ready
<1>5. x = e.written + 1 /\ x \in Nat /\ e.written \in Nat /\ 2 * (e.written + 2) < SeqSpace
  <2>1. x \in Nat /\ e.written \in Nat /\ 2 * (e.written + 2) < SeqSpace
    BY <1>4, Positions
  <2>2. x + s.sndUser = e.written + 1
    BY <1>4 DEF Placed
  <2> HIDE DEF x
  <2> QED BY <2>1, <2>2
<1>6. /\ q.flags = flags /\ q.seq = s.sndNxt /\ q.length = 0 /\ q.ack = s.rcvNxt
      /\ q \in Headers
  <2>1. /\ q.flags = flags /\ q.seq = s.sndNxt /\ q.length = 0 /\ q.ack = s.rcvNxt
    BY DEF Header
  <2>2. q \in Headers
    <3>1. s.rcvWnd \in 0 .. RxBufferSize
      BY LooseFields, Sizes
    <3> HIDE DEF flags, seqNum, ackNum, none
    <3> QED BY <1>2, <3>1, HeaderOf
  <2> QED BY <2>1, <2>2
<1>7. /\ SeqSpace \in Nat /\ Limit(s, f.reads, f.peer) = SeqSpace
      /\ Minus(s.rcvNxt, f.peer) <= SeqSpace
  <2>1. SeqSpace \in Nat /\ Limit(s, f.reads, f.peer) = SeqSpace
    BY Sizes DEF Limit
  <2>2. Minus(s.rcvNxt, f.peer) \in 0 .. SeqSpace - 1
    <3>1. s.rcvNxt \in SeqNums /\ f.peer \in SeqNums
      BY LooseFields DEF EnvOK
    <3> QED BY <3>1, MinusIs
  <2> QED BY <2>1, <2>2
<1> HIDE DEF q
<1>8. HeaderGood(q, s, f)
  BY <1>5, <1>6, <1>7 DEF HeaderGood, HeaderRight, AckBelow
<1>9. SegmentGood(Segment(s, q), s, f)
  BY <1>3, <1>6, <1>8, HeaderSends DEF Speaks
<1>10. Speaks(t, f)
  <2> HIDE DEF flags, seqNum, ackNum, none, yes
  <2> QED BY <1>2, <1>3, <1>8, <1>9, SendSegmentSpeaks DEF q
<1>11. Differs(s, t, {"queue", "out"})
  BY <1>2, SendSegmentDiffers
<1> HIDE DEF t
<1>12. t.sndNxt = s.sndNxt /\ DOMAIN t = SocketFields
  BY <1>11 DEF Differs, AlikeBut, Core
<1>13. r.sndNxt = next /\ Differs(t, r, {"sndNxt"})
  BY <1>12 DEF Differs, AlikeBut, Core, SocketFields
<1>14. next \in SeqNums /\ Minus(next, e.own) = e.written + 2
  <2> DEFINE one == 1
             y == s.sndNxt
  <2>1. y \in SeqNums /\ one \in Int /\ one \in 0 .. SeqSpace - 1
    BY <1>2, <1>5, <1>7
  <2>2. Minus(y, e.own) + one < SeqSpace /\ Minus(y, e.own) + one = e.written + 2
    BY <1>5, <1>7
  <2>3. next = Plus(y, one)
    BY <1>12
  <2> HIDE DEF next, one, y
  <2>4. Plus(y, one) \in SeqNums
    BY <2>1, PlusOf
  <2>5. Minus(Plus(y, one), e.own) = Minus(y, e.own) + one
    BY <1>2, <2>1, <2>2, MinusOfPlus
  <2> QED BY <2>2, <2>3, <2>4, <2>5
<1> HIDE DEF next, r
<1>15. Differs(r, v, {"state", "closedFlag"}) /\ v.state = newState
  BY <1>13, EventsDiffer DEF Differs
<1> HIDE DEF v
<1>16. Differs(t, v, {"sndNxt", "state", "closedFlag"}) /\ v.sndNxt = next
  <2>1. Differs(t, v, {"sndNxt", "state", "closedFlag"})
    BY <1>13, <1>15, DiffersOf
  <2>2. v.sndNxt = r.sndNxt
    BY <1>15 DEF Differs, AlikeBut, Core
  <2> QED BY <1>13, <2>1, <2>2
<1>17. /\ v.owned = s.owned /\ v.iss = s.iss /\ v.sndUna = s.sndUna /\ v.sndUser = s.sndUser
       /\ v.queue = t.queue /\ v.out = t.out /\ v.txBuffer = t.txBuffer
       /\ t.txBuffer = s.txBuffer
  BY <1>11, <1>16 DEF Differs, AlikeBut, Core
<1>18. Speaks(v, f)
  <2>1. Placed(v, f)
    <3>1. Minus(s.sndUna, e.own) <= e.written + 2
      <4>1. Minus(s.sndUna, e.own) \in Nat /\ Minus(s.sndUna, e.own) <= x
        BY <1>4, Positions
      <4> HIDE DEF x
      <4> QED BY <1>5, <4>1
    <3>2. 1 <= e.written + 2
      BY <1>5
    <3> QED BY <1>4, <1>14, <1>16, <1>17, <3>1, <3>2 DEF Placed
  <2>2. Stored(v, f)
    BY <1>3, <1>17 DEF Speaks, Ready, Stored
  <2>3. Ready(v, f)
    BY <1>15, <1>17, <2>1, <2>2 DEF Ready, Hearing
  <2>4. \A g : HeaderGood(g, t, f) => HeaderGood(g, v, f)
    BY <1>17 DEF HeaderGood, Limit
  <2>5. \A g : SegmentGood(g, t, f) => SegmentGood(g, v, f)
    BY DEF SegmentGood, Limit
  <2> QED BY <1>10, <1>17, <2>3, <2>4, <2>5 DEF Speaks
<1> QED BY <1>1, <1>10, <1>18

LEMMA DrainTurnKeeps ==
    ASSUME StreamInv, HostsFit, HostsFit', FinBehindData', ShortStreams, NEW h \in Hosts,
           NEW nic \in Nics, DrainTurn(h, nic)
    PROVE  StreamInv'
<1> DEFINE p == Peer(h)
           s == [sock[h] EXCEPT !.nic = nic]
           finState == task[h].finState
           t == SendFin(s, finState)
           yes == TRUE
           done == s.eventFlags = {"TX_DONE"}
           g == Goto(h, "fin")
           r == sock[h]
           e == Env(h)
<1>1. /\ task[h].at = "drain" /\ UNCHANGED <<written, read, ended>>
      /\ shut' = [shut EXCEPT ![h] = @ \/ (done /\ nic # "memory")]
      /\ \/ ~done /\ ReturnError(h, s)
         \/ /\ done
            /\ \/ nic = "up" /\ Await(h, t, g, {"TX_SHUTDOWN"})
               \/ nic # "up" /\ Returns(h, t, yes)
  BY PlaceOf DEF DrainTurn, ReturnError
<1>2. p \in Hosts /\ p # h /\ Peer(p) = h
  BY HostIs
<1>3. task[h].how = "BOTH" /\ ~task[h].closing /\ ~Reading(task[h]) /\ ~shut[h] /\ r.owned
  BY <1>1, StageFacts
<1>4. g \in Tasks /\ g.at = "fin" /\ g.closing = task[h].closing /\ g.how = task[h].how
  BY PlaceIs DEF Waits
<1>5. InOrder(s, e) /\ Differs(r, s, {}) /\ s.state = r.state /\ s.out = <<>> /\ s.nic = nic
  BY NicInOrder
<1>6. Fit(s) /\ Loose(s) /\ EnvOK(e) /\ Speaks(s, e) /\ DOMAIN s = SocketFields
  BY <1>5, InOrderOf
<1>7. Draining(r) /\ finState \in {"FIN_WAIT_1", "LAST_ACK"}
  BY <1>1 DEF HostsFit, TasksFit, TaskFits, Tasks
<1>8. shut \in [Hosts -> BOOLEAN]
  BY DEF StreamInv, HistoryFits
<1>9. Stage(h) /\ Begins(p)
  BY <1>2 DEF StreamInv
<1>10. HistoryFits' /\ SameHistory(p)
  BY <1>1, <1>2, <1>8 DEF StreamInv, HistoryFits, SameHistory
<1> HIDE DEF s, finState, yes, g, done
<1>11. ASSUME Returns(h, s, yes), UNCHANGED shut
       PROVE  StreamInv'
  <2>1. ReturnError(h, s)
    BY <1>11 DEF ReturnError, yes
  <2> QED BY <1>1, <1>3, <1>5, <1>6, <1>10, <1>11, <2>1, ErrorKeeps
<1>12. CASE ~done /\ ReturnError(h, s)
  <2>1. UNCHANGED shut /\ Returns(h, s, yes)
    BY <1>1, <1>8, <1>12 DEF ReturnError, yes
  <2> QED BY <1>11, <2>1
<1>13. CASE done /\ nic = "memory" /\ Returns(h, t, yes)
  <2>1. UNCHANGED shut
    BY <1>1, <1>8, <1>13
  <2>2. t = s
    BY <1>5, <1>6, <1>13, FinDiffers
  <2> QED BY <1>11, <1>13, <2>1, <2>2
<1>14. ASSUME NEW k \in Tasks, Leaves(h, t, k), done, nic # "memory",
              ~k.closing \/ k.at = "idle", k.at \in {"idle", "fin"}, k.how = "BOTH", ~Reading(k)
       PROVE  StreamInv'
  <2> DEFINE f == EnvAfter(h, k)
  <2>1. shut'[h] = TRUE
    BY <1>1, <1>8, <1>14
  <2>2. Apart(s, 0)
    <3>1. \A y : Offset(s, y) = Offset(r, y)
      BY <1>5 DEF Offset, Differs, AlikeBut, Core
    <3> QED BY <1>3, <1>5, <1>7, OwnSocketFits, SocketWithNic DEF Goes, Draining, s
  <2>3. Fit(t)
    BY <1>6, <1>7, <2>2, SendFinFits
  <2>4. /\ Differs(s, t, {"queue", "out", "sndNxt", "state", "closedFlag"})
        /\ t.state \in {s.state, finState}
    BY <1>6, FinDiffers
  <2>5. /\ t.owned = s.owned /\ t.sndUser = s.sndUser /\ t.sndUna = s.sndUna /\ t.iss = s.iss
        /\ s.owned = r.owned /\ s.sndUna = r.sndUna /\ s.iss = r.iss
    BY <1>5, <2>4 DEF Differs, AlikeBut, Core
  <2>6. Works(h)
    BY <1>1 DEF Works
  <2>7. s.sndUser = 0
    <3> HIDE DEF t
    <3>1. PICK u, j : /\ Put(h, u) /\ Become(h, j) /\ Differs(t, u, {}) /\ Loose(u)
                      /\ j.at = k.at /\ j.how = k.how /\ j.closing = k.closing
      BY <1>14, <2>3, <2>6, LeavesIs
    <3>2. Rests(u, sock'[h])
      BY <3>1, PutSteps
    <3>3. sock'[h].sndUser = u.sndUser /\ u.sndUser = t.sndUser
      BY <3>1, <3>2 DEF Rests, Differs, AlikeBut, Core
    <3>4. sock'[h].sndUser = 0
      BY <2>1 DEF FinBehindData
    <3> QED BY <2>5, <3>3, <3>4
  <2>8. EnvOK(f)
    BY <1>10, EnvAfterIs
  <2>9. /\ f.own = e.own /\ f.peer = e.peer /\ f.written = e.written /\ f.shut = TRUE
        /\ f.low = e.low /\ f.reads = e.reads /\ ~e.reads /\ ~e.shut
    <3>1. Reading(k) = Reading(task[h])
      BY <1>3, <1>14 DEF Reading
    <3> QED BY <1>1, <1>3, <2>1, <3>1 DEF Env, EnvAfter
  <2>10. s.state \in {"ESTABLISHED", "CLOSE_WAIT", "CLOSED"}
    BY <1>5, <1>7 DEF Draining
  <2> HIDE DEF f, e
  <2>11. Speaks(t, f)
    BY <1>3, <1>5, <1>6, <1>7, <1>14, <2>5, <2>7, <2>8, <2>9, <2>10, FinSpeaks
  <2>12. Right(t, f)
    BY <2>9, <2>11 DEF Right, Hears
  <2> HIDE DEF t
  <2>13. Fresh(p) => Unheard(t, written'[h])
    <3>1. Fresh(p) => Unheard(r, written[h])
      BY <1>2, <1>9 DEF Begins
    <3>2. written'[h] = written[h] /\ s.state = r.state
      BY <1>1, <1>5
    <3> QED BY <1>7, <2>4, <2>5, <3>1, <3>2 DEF Unheard
  <2>14. t.state # "SYN_SENT"
    BY <1>7, <2>4, <2>10
  <2>15. Limit(r, Reading(task[h]), Iss(p)) <= Limit(t, Reading(k), Iss(p))
    <3>1. SeqSpace \in Nat
      BY Sizes
    <3>2. /\ Limit(r, Reading(task[h]), Iss(p)) = SeqSpace
          /\ Limit(t, Reading(k), Iss(p)) = SeqSpace
      BY <1>3, <1>14 DEF Limit
    <3> QED BY <3>1, <3>2
  <2>16. StageOf(k, t, shut'[h], read'[h], ended'[h])
    <3>1. read'[h] = [i \in 1 .. Len(read'[h]) |-> i]
      BY <1>1, <1>9 DEF Stage, StageOf
    <3> QED BY <1>3, <1>14, <2>5, <3>1 DEF StageOf
  <2>17. written[h] <= written'[h]
    BY <1>1, RestOf, System
  <2> QED BY <1>1, <1>3, <1>10, <1>14, <2>3, <2>6, <2>12, <2>13, <2>14, <2>15, <2>16, <2>17,
             CallStep DEF f
<1>15. CASE done /\ nic = "up" /\ Await(h, t, g, {"TX_SHUTDOWN"})
  <2> HIDE DEF t
  <2>1. Leaves(h, t, g)
    BY <1>15 DEF Leaves, Events
  <2>2. ~Reading(g)
    BY <1>4 DEF Reading
  <2> QED BY <1>3, <1>4, <1>14, <1>15, <2>1, <2>2
<1>16. CASE done /\ nic \notin {"up", "memory"} /\ Returns(h, t, yes)
  <2> HIDE DEF t
  <2> DEFINE k == [Idle EXCEPT !.closing = yes]
  <2>1. yes \in BOOLEAN /\ yes
    BY DEF yes
  <2>2. k \in Tasks /\ k.at = "idle" /\ k.closing = yes /\ (Reading(k) <=> ~yes)
    BY <2>1, IdleIs
  <2>3. Leaves(h, t, k)
    BY <1>16, <2>1 DEF Leaves
  <2>4. k.how = "BOTH"
    BY DEF Idle
  <2> HIDE DEF k
  <2> QED BY <1>14, <1>16, <2>1, <2>2, <2>3, <2>4
<1> QED BY <1>1, <1>12, <1>13, <1>15, <1>16

-----------------------------------------------------------------------------
(* socketConnect, socketAccept and socketClose *)

\* What a connection starts from.
Opening(s, e) ==
    /\ Fit(s) /\ EnvOK(e) /\ e.written = 0
    /\ s.state = "CLOSED" /\ s.sackBlock = <<>> /\ s.queue = <<>> /\ s.out = <<>>
    /\ s.sndUser = 0 /\ ~s.closedFlag /\ ~s.probing

LEMMA OpensRight ==
    ASSUME NEW s, NEW e, Opening(s, e)
    PROVE  LET t == InitControlBlock(s, e.own)
           IN  /\ Loose(t) /\ Speaks(t, e) /\ t.owned /\ t.state = "CLOSED"
               /\ t.txBuffer # Released /\ t.sndUna = t.iss /\ t.iss = e.own
               /\ t.rxBuffer \in [0 .. RxBufferSize - 1 -> Nat]
               /\ t.rcvUser = 0 /\ t.sackBlock = <<>> /\ t.queue = <<>> /\ t.out = <<>>
               /\ ~t.closedFlag /\ ~t.probing /\ t.nic = s.nic
<1> DEFINE iss == e.own
           t == InitControlBlock(s, iss)
           nxt == Plus(iss, 1)
           tx == Allocated(TxBufferSize)
           rx == Allocated(RxBufferSize)
           cwnd == Least(3 * Mss, TxBufferSize)
<1>1. Fit(s) /\ EnvOK(e) /\ iss \in SeqNums /\ DOMAIN s = SocketFields /\ e.low \in Nat
      /\ e.written = 0
  BY DEF Opening, EnvOK, Fit, Bounded, Loose, WaitOK
<1>2. tx # Released /\ rx \in [0 .. RxBufferSize - 1 -> Nat]
  <2>1. DOMAIN tx = 0 .. TxBufferSize - 1 /\ 0 \in DOMAIN tx
    BY Sizes DEF Allocated
  <2>2. DOMAIN Released = {}
    BY DEF Released
  <2>3. rx \in [0 .. RxBufferSize - 1 -> Nat]
    BY DEF Allocated
  <2> HIDE DEF tx, rx
  <2> QED BY <2>1, <2>2, <2>3
<1>3. Minus(iss, iss) = 0 /\ Minus(nxt, iss) = 1
  <2> DEFINE one == 1
  <2>1. Minus(iss, iss) = 0
    BY <1>1, MinusIs
  <2>2. one \in 0 .. SeqSpace - 1 /\ one < SeqSpace /\ one = 1
    BY Sizes
  <2> HIDE DEF one, iss
  <2>3. Minus(Plus(iss, one), iss) = 1
    BY <1>1, <2>1, <2>2, MinusOfPlus
  <2> QED BY <2>1, <2>2, <2>3
<1>4. t = [s EXCEPT !.owned = TRUE, !.txBuffer = tx, !.rxBuffer = rx,
                    !.iss = iss, !.sndUna = iss, !.sndNxt = nxt,
                    !.rcvUser = 0, !.rcvWnd = RxBufferSize,
                    !.congestState = "IDLE", !.recover = iss, !.cwnd = cwnd]
  BY DEF InitControlBlock
<1>5. Loose(t)
  <2> HIDE DEF iss, nxt, tx, rx, cwnd
  <2>1. s.sackBlock = <<>>
    BY DEF Opening
  <2> QED BY <1>1, <2>1, InitControlBlockFits DEF Bounded
<1> HIDE DEF t, iss, nxt, tx, rx, cwnd
<1>6. /\ t.owned = TRUE /\ t.txBuffer = tx /\ t.rxBuffer = rx /\ t.iss = iss
      /\ t.sndUna = iss /\ t.sndNxt = nxt /\ t.rcvUser = 0
      /\ t.state = s.state /\ t.sackBlock = s.sackBlock /\ t.queue = s.queue
      /\ t.out = s.out /\ t.sndUser = s.sndUser /\ t.closedFlag = s.closedFlag
      /\ t.probing = s.probing /\ t.nic = s.nic
  BY <1>1, <1>4 DEF SocketFields
<1>7. /\ t.state = "CLOSED" /\ t.sackBlock = <<>> /\ t.queue = <<>> /\ t.out = <<>>
      /\ t.sndUser = 0 /\ ~t.closedFlag /\ ~t.probing
  BY <1>6 DEF Opening
<1>8. Placed(t, e)
  <2>1. Minus(t.sndUna, e.own) = 0 /\ Minus(t.sndNxt, e.own) = 1 /\ t.iss = e.own
    BY <1>3, <1>6 DEF iss
  <2> QED BY <1>1, <1>7, <2>1, Sizes DEF Placed
<1>9. Stored(t, e)
  BY <1>1 DEF Stored
<1>10. Ready(t, e)
  BY <1>6, <1>7, <1>8, <1>9 DEF Ready, Hearing
<1>11. Speaks(t, e)
  BY <1>7, <1>10 DEF Speaks
<1> QED BY <1>2, <1>5, <1>6, <1>7, <1>11 DEF t, iss

\* Nothing sent acknowledges anything.
Silent(s) == (\A i \in DOMAIN s.queue : Mute(s.queue[i])) /\ \A i \in DOMAIN s.out : Mute(s.out[i])

LEMMA SentSilent ==
    ASSUME NEW s, Loose(s), Silent(s), NEW flags \in SUBSET Flags, NEW seqNum \in SeqNums,
           NEW ackNum \in SeqNums, NEW length \in 0 .. Mss, NEW addToQueue \in BOOLEAN,
           "ACK" \notin flags
    PROVE  Silent(SendSegment(s, flags, seqNum, ackNum, length, addToQueue))
<1> DEFINE q == Header(s, flags, seqNum, ackNum, length)
           g == Segment(s, q)
           t == SendSegment(s, flags, seqNum, ackNum, length, addToQueue)
<1>1. /\ q \in Headers /\ q.flags = flags /\ g.flags = q.flags
      /\ t.queue \in {s.queue, Append(s.queue, q)}
      /\ t.out \in {s.out, Append(s.out, g)}
  BY SentIs
<1>2. g \in Segments
  BY <1>1, SegmentOf DEF Loose, SendOK
<1>3. s.queue \in Seq(Headers) /\ s.out \in Seq(Segments)
  BY LooseFields
<1>4. Mute(q) /\ Mute(g)
  BY <1>1 DEF Mute
<1> HIDE DEF q, g, t
<1>5. ASSUME NEW i \in DOMAIN t.queue
      PROVE  Mute(t.queue[i])
  <2>1. CASE t.queue = s.queue
    BY <2>1 DEF Silent
  <2>2. CASE t.queue = Append(s.queue, q)
    <3>1. (i \in DOMAIN s.queue /\ t.queue[i] = s.queue[i]) \/ t.queue[i] = q
      BY <1>1, <1>3, <2>2, Appended
    <3> QED BY <1>4, <3>1 DEF Silent
  <2> QED BY <1>1, <2>1, <2>2
<1>6. ASSUME NEW i \in DOMAIN t.out
      PROVE  Mute(t.out[i])
  <2>1. CASE t.out = s.out
    BY <2>1 DEF Silent
  <2>2. CASE t.out = Append(s.out, g)
    <3>1. (i \in DOMAIN s.out /\ t.out[i] = s.out[i]) \/ t.out[i] = g
      BY <1>2, <1>3, <2>2, Appended
    <3> QED BY <1>4, <3>1 DEF Silent
  <2> QED BY <1>1, <2>1, <2>2
<1> QED BY <1>5, <1>6 DEF Silent, t

\* The SYN of the client.
LEMMA ActiveOpenRight ==
    ASSUME NEW s, NEW e, Opening(s, e)
    PROVE  LET t == ActiveOpen(s, e.own)
           IN  /\ Fit(t) /\ Right(t, e) /\ t.owned /\ Live(t)
               /\ t.state = IF s.nic = "up" THEN "SYN_SENT" ELSE "CLOSED"
               /\ s.nic = "up" => FreshSends(t)
               /\ Unheard(t, 0)
<1> DEFINE iss == e.own
           r == InitControlBlock(s, iss)
           flags == {"SYN"}
           none == 0
           noAck == 0
           yes == TRUE
           a == SendSegment(r, flags, iss, noAck, none, yes)
           b == ChangeState(a, "SYN_SENT")
           t == ActiveOpen(s, iss)
<1>1. /\ Loose(r) /\ Speaks(r, e) /\ r.owned /\ r.state = "CLOSED"
      /\ r.txBuffer # Released /\ r.sndUna = r.iss /\ r.iss = iss
      /\ r.rxBuffer \in [0 .. RxBufferSize - 1 -> Nat]
      /\ r.rcvUser = 0 /\ r.sackBlock = <<>> /\ r.queue = <<>> /\ r.out = <<>>
      /\ ~r.closedFlag /\ ~r.probing
  BY OpensRight
<1>2. t = IF s.nic # "up" THEN a ELSE b
  BY DEF ActiveOpen, Fails
<1>3. /\ flags \in SUBSET Flags /\ noAck \in SeqNums /\ none \in 0 .. Mss /\ yes \in BOOLEAN
      /\ EnvOK(e) /\ iss \in SeqNums /\ none = 0 /\ "ACK" \notin flags
  BY Sizes DEF Flags, SeqNums, Opening, EnvOK
<1>4. Speaks(a, e)
  <2>1. flags \in {{"SYN"}, {"SYN", "ACK"}}
    OBVIOUS
  <2> HIDE DEF r, flags
  <2>2. Speaks(SendSegment(r, flags, iss, noAck, 0, TRUE), e)
    BY <1>1, <1>3, <2>1, SynSpeaks
  <2> QED BY <2>2
<1>5. Fit(t)
  <2>1. Fit(s) /\ s.state = "CLOSED" /\ s.sackBlock = <<>>
    BY DEF Opening
  <2> QED BY <1>3, <2>1, ActiveOpenFits
<1> HIDE DEF r, flags, none, noAck, yes, t, iss
<1>6. Differs(r, a, {"queue", "out"}) /\ Loose(a) /\ DOMAIN a = SocketFields
  BY <1>1, <1>3, SendSegmentDiffers, SendSegmentFits, LooseFields
<1>9. Silent(a)
  <2>1. Silent(r)
    BY <1>1 DEF Silent
  <2> QED BY <1>1, <1>3, <2>1, SentSilent
<1> HIDE DEF a
<1>10. Differs(a, b, {"state", "closedFlag"}) /\ b.state = "SYN_SENT"
       /\ (b.closedFlag => a.closedFlag)
  BY <1>6, EventsDiffer
<1> HIDE DEF b
<1>11. /\ a.owned = r.owned /\ a.state = r.state /\ a.txBuffer = r.txBuffer
       /\ a.sndUna = r.sndUna /\ a.iss = r.iss /\ a.rxBuffer = r.rxBuffer
       /\ a.rcvUser = r.rcvUser /\ a.closedFlag = r.closedFlag /\ a.probing = r.probing
  BY <1>6 DEF Differs, AlikeBut, Core
<1>12. /\ b.owned = a.owned /\ b.txBuffer = a.txBuffer /\ b.sndUna = a.sndUna
       /\ b.iss = a.iss /\ b.rxBuffer = a.rxBuffer /\ b.rcvUser = a.rcvUser
       /\ b.probing = a.probing /\ b.queue = a.queue /\ b.out = a.out
       /\ b.sndNxt = a.sndNxt /\ b.sndUser = a.sndUser
  BY <1>10 DEF Differs, AlikeBut, Core
<1>13. a.rcvNxt \in SeqNums /\ b.rcvNxt = a.rcvNxt /\ a.queue \in Seq(Headers)
       /\ a.out \in Seq(Segments)
  BY <1>6, <1>10, LooseFields DEF Differs, AlikeBut, Core
<1>14. Speaks(b, e)
  <2>1. Limit(a, e.reads, e.peer) = SeqSpace /\ Limit(b, e.reads, e.peer) = SeqSpace
    BY <1>1, <1>10, <1>11 DEF Limit, Hearing
  <2>2. Ready(b, e)
    <3>1. Placed(a, e) /\ Stored(a, e)
      BY <1>1, <1>4, <1>11 DEF Speaks, Ready
    <3>2. Placed(b, e) /\ Stored(b, e)
      BY <1>12, <3>1 DEF Placed, Stored
    <3> QED BY <1>1, <1>10, <1>11, <1>12, <3>2 DEF Ready
  <2>3. \A i \in DOMAIN b.queue : HeaderGood(b.queue[i], b, e)
    BY <1>4, <1>12, <2>1 DEF Speaks, HeaderGood
  <2>4. \A i \in DOMAIN b.out : SegmentGood(b.out[i], b, e)
    BY <1>4, <1>12, <2>1 DEF Speaks, SegmentGood
  <2> QED BY <2>2, <2>3, <2>4 DEF Speaks
<1>15. CASE s.nic = "up"
  <2>1. t = b
    BY <1>2, <1>15
  <2>2. Right(b, e) /\ Live(b) /\ Unheard(b, 0)
    BY <1>1, <1>10, <1>11, <1>12, <1>14 DEF Right, Hears, Hearing, Live, Unheard
  <2>3. FreshSends(b)
    BY <1>1, <1>9, <1>10, <1>11, <1>12 DEF FreshSends, FreshSocket, Silent
  <2> QED BY <1>1, <1>5, <1>10, <1>11, <1>12, <1>15, <2>1, <2>2, <2>3 DEF t, iss
<1>16. CASE s.nic # "up"
  <2>1. t = a
    BY <1>2, <1>16
  <2>2. Right(a, e) /\ Live(a) /\ Unheard(a, 0)
    BY <1>1, <1>4, <1>11 DEF Right, Hears, Hearing, Live, Unheard
  <2> QED BY <1>1, <1>5, <1>11, <1>16, <2>1, <2>2 DEF t, iss
<1> QED BY <1>15, <1>16

\* tcpConnect
LEMMA ConnectKeeps ==
    ASSUME StreamInv, HostsFit, HostsFit', ShortStreams, NEW nic \in Nics, Connect(nic)
    PROVE  StreamInv'
<1> DEFINE h == "client"
           p == Peer(h)
           s == [sock[h] EXCEPT !.nic = nic]
           t == ActiveOpen(s, ClientIss)
           g == Goto(h, "connect")
           yes == TRUE
           b == [Idle EXCEPT !.closing = yes]
           k == IF nic = "up" THEN g ELSE b
           e == EnvAfter(h, k)
<1>1. h \in Hosts /\ Works(h) /\ Iss(h) = ClientIss /\ "connect" \in Waits
      /\ {"CONNECTED", "CLOSED"} \in SUBSET Events
  BY DEF Hosts, Works, Iss, Waits, Events
<1>2. /\ task[h].at = "start"
      /\ UNCHANGED <<written, shut, read, ended>>
      /\ IF nic = "up" THEN Await(h, t, g, {"CONNECTED", "CLOSED"}) ELSE Returns(h, t, TRUE)
  BY DEF Connect, ReturnError, history
<1>3. s = [sock[h] EXCEPT !.nic = nic]
  OBVIOUS
<1>4. sock[h].sackBlock = <<>> /\ TasksFit
  BY <1>1, <1>2 DEF HostsFit, TasksFit, TaskFits
<1> HIDE DEF h
<1>5. p \in Hosts /\ Peer(p) = h
  BY <1>1, HostIs
<1>6. HistoryFits' /\ SameHistory(p)
  BY <1>2, SameHistoryFits
<1>7. Begins(h) /\ Begins(p) /\ Stage(h)
  BY <1>1, <1>5 DEF StreamInv
<1>8. Fresh(h) /\ Untouched(h) /\ FreshSocket(sock[h]) /\ task[h].closing \in BOOLEAN
  <2>1. task[h] \in Tasks
    BY <1>1, <1>4 DEF TasksFit
  <2> QED BY <1>2, <1>7, <2>1 DEF Begins, Fresh, Tasks
<1>9. ~task[h].closing /\ ~shut[h] /\ read[h] = <<>> /\ written[h] = 0 /\ Live(sock[h])
  BY <1>2, <1>7, <1>8 DEF Stage, StageOf, Reading, Untouched
<1> HIDE DEF yes
<1>10. /\ g \in Tasks /\ g.at = "connect" /\ g.closing = FALSE
       /\ b \in Tasks /\ b.at = "idle" /\ b.closing = yes
  <2>1. yes \in BOOLEAN
    BY DEF yes
  <2> QED BY <1>1, <1>8, <1>9, <2>1, PlaceIs, IdleIs
<1>11. Leaves(h, t, k)
  <2>1. CASE nic = "up"
    BY <1>1, <1>2, <2>1 DEF Leaves
  <2>2. CASE nic # "up"
    <3>1. Returns(h, t, yes) /\ yes \in BOOLEAN /\ k = b
      BY <1>2, <2>2 DEF yes
    <3> HIDE DEF t, k
    <3> QED BY <3>1 DEF Leaves
  <2> QED BY <2>1, <2>2
<1>12. EnvOK(e) /\ e.own = ClientIss /\ e.written = 0
  <2>1. EnvOK(e)
    BY <1>1, <1>6, EnvAfterIs
  <2> QED BY <1>1, <1>2, <1>9, <2>1 DEF EnvAfter
<1> HIDE DEF s, e
<1>13. /\ InOrder(s, Env(h)) /\ Differs(sock[h], s, {}) /\ s.out = <<>>
       /\ s.closedFlag = sock[h].closedFlag /\ FreshSocket(s) /\ s.nic = nic
       /\ s.state = sock[h].state
  BY <1>1, <1>3, <1>8, NicInOrder
<1>14. Opening(s, e)
  <2>1. s.state = "CLOSED" /\ s.sndUser = 0 /\ ~s.probing /\ ~s.owned /\ ~s.closedFlag
    BY <1>2, <1>7, <1>9, <1>13 DEF FreshSocket, Stage, StageOf, Live
  <2>2. s.sackBlock = <<>>
    BY <1>4, <1>13 DEF Differs, AlikeBut, Core
  <2>3. s.queue = <<>>
    BY <1>13, <2>1 DEF InOrder, Right, Speaks, Ready
  <2> QED BY <1>12, <1>13, <2>1, <2>2, <2>3 DEF Opening, InOrder
<1>15. /\ Fit(t) /\ Right(t, e) /\ t.owned /\ Live(t)
       /\ t.state = IF nic = "up" THEN "SYN_SENT" ELSE "CLOSED"
       /\ nic = "up" => FreshSends(t)
       /\ Unheard(t, 0)
  BY <1>12, <1>13, <1>14, ActiveOpenRight
<1>16. /\ k \in Tasks /\ k.at = (IF nic = "up" THEN "connect" ELSE "idle")
       /\ k.closing = (nic # "up")
  <2>1. CASE nic = "up"
    BY <1>10, <2>1
  <2>2. CASE nic # "up"
    <3>1. k = b
      BY <2>2
    <3>2. b.closing
      BY <1>10 DEF yes
    <3> HIDE DEF k, b
    <3>3. k.closing
      BY <3>1, <3>2
    <3>4. k.closing = TRUE /\ (nic # "up") = TRUE
      BY <1>10, <2>2, <3>1 DEF b, yes
    <3> QED BY <1>10, <2>2, <3>1, <3>4
  <2> QED BY <2>1, <2>2
<1> HIDE DEF k, t
<1>17. written[h] <= written'[h]
  BY <1>2, <1>9
<1>18. k.at \in {"start", "accept"} \/ t.state = "SYN_SENT" =>
            Fresh(h) /\ Untouched(h)' /\ FreshSends(t)
  BY <1>2, <1>8, <1>15, <1>16 DEF Untouched
<1>19. Fresh(p) => Unheard(t, written'[h])
  BY <1>2, <1>9, <1>15
<1>20. StageOf(k, t, shut'[h], read'[h], ended'[h])
  <2>1. read'[h] = [i \in 1 .. Len(read'[h]) |-> i]
    BY <1>2, <1>7 DEF Stage, StageOf
  <2> QED BY <1>2, <1>9, <1>15, <1>16, <2>1 DEF StageOf
<1> QED BY <1>1, <1>2, <1>6, <1>8, <1>11, <1>15, <1>16, <1>17, <1>18, <1>19, <1>20,
           CallStep DEF e

\* The socket that answers a request.
LEMMA PassiveOpenRight ==
    ASSUME NEW s, NEW e, Opening(s, e), s.nic = "up", NEW item \in Requests,
           item.isn = e.peer, e.got = 0
    PROVE  LET t == PassiveOpen(s, item, e.own)
           IN  /\ Fit(t) /\ Begun(t, e) /\ ~t.closedFlag /\ t.state = "SYN_RECEIVED"
               /\ Unheard(t, 0)
<1> DEFINE iss == e.own
           r == InitControlBlock(s, iss)
           isn == item.isn
           nxt == Plus(isn, 1)
           a == [r EXCEPT !.irs = isn, !.rcvNxt = nxt]
           u == SendSegment(a, {"SYN", "ACK"}, iss, a.rcvNxt, 0, TRUE)
           t == ChangeState(u, "SYN_RECEIVED")
<1>1. /\ Loose(r) /\ Speaks(r, e) /\ r.owned /\ r.state = "CLOSED"
      /\ r.txBuffer # Released /\ r.sndUna = r.iss /\ r.iss = iss
      /\ r.rxBuffer \in [0 .. RxBufferSize - 1 -> Nat]
      /\ r.rcvUser = 0 /\ r.sackBlock = <<>> /\ r.queue = <<>> /\ r.out = <<>>
      /\ ~r.closedFlag
  BY OpensRight
<1>2. PassiveOpen(s, item, iss) = t
  BY DEF PassiveOpen, Fails
<1>3. /\ EnvOK(e) /\ iss \in SeqNums /\ isn \in SeqNums /\ nxt \in SeqNums
      /\ nxt = Plus(e.peer, 1) /\ isn = e.peer
  BY PlusOf DEF Opening, EnvOK
<1>4. Fit(t)
  <2>1. Fit(s) /\ s.state = "CLOSED" /\ s.sackBlock = <<>>
    BY DEF Opening
  <2> QED BY <1>2, <1>3, <2>1, PassiveOpenFits
<1> HIDE DEF iss, r, isn, nxt
<1>5. /\ Differs(r, a, {"irs", "rcvNxt"}) /\ a.irs = isn /\ a.rcvNxt = nxt
      /\ SameSender(r, a) /\ SameWaiter(r, a) /\ DOMAIN a = SocketFields
      /\ a.rcvUser = r.rcvUser /\ a.rcvWnd = r.rcvWnd /\ a.sackBlock = r.sackBlock
  <2>1. DOMAIN r = SocketFields
    BY <1>1, LooseFields
  <2>2. DOMAIN a = SocketFields /\ a.irs = isn /\ a.rcvNxt = nxt
    BY <2>1 DEF SocketFields
  <2>3. Differs(r, a, {"irs", "rcvNxt"})
    BY <2>1 DEF Differs, AlikeBut, Core, SocketFields
  <2>4. SameSender(r, a) /\ SameWaiter(r, a)
    BY <2>1 DEF SameSender, SameWaiter, SocketFields
  <2> QED BY <2>1, <2>2, <2>3, <2>4 DEF SocketFields
<1>6. Loose(a)
  <2>1. SendOK(a) /\ WaitOK(a)
    BY <1>1, <1>5, SameSenderOK, SameWaiterOK DEF Loose
  <2>2. ReceiveOK(a)
    BY <1>1, <1>3, <1>5 DEF Loose, ReceiveOK
  <2> QED BY <2>1, <2>2 DEF Loose
<1>7. u = SendSegment(a, {"SYN", "ACK"}, a.iss, a.rcvNxt, 0, TRUE)
  BY <1>1, <1>5 DEF SameSender
<1> HIDE DEF a
<1>8. /\ a.owned = r.owned /\ a.state = r.state /\ a.txBuffer = r.txBuffer
      /\ a.sndUna = r.sndUna /\ a.sndNxt = r.sndNxt /\ a.sndUser = r.sndUser
      /\ a.iss = r.iss /\ a.rxBuffer = r.rxBuffer /\ a.queue = r.queue
      /\ a.out = r.out /\ a.closedFlag = r.closedFlag
  BY <1>5 DEF Differs, AlikeBut, Core
<1>9. Beginning(a, e)
  <2>1. Ready(a, e)
    <3>1. Placed(r, e) /\ Stored(r, e)
      BY <1>1 DEF Speaks, Ready
    <3>2. Placed(a, e) /\ Stored(a, e)
      BY <1>8, <3>1 DEF Placed, Stored
    <3> QED BY <1>1, <1>8, <3>2 DEF Ready, Hearing
  <2>2. Speaks(a, e) /\ Answered(a)
    BY <1>1, <1>8, <2>1 DEF Speaks, Answered
  <2> QED BY <1>1, <1>3, <1>5, <1>6, <1>8, <2>2 DEF Beginning
<1>10. Beginning(u, e) /\ Differs(a, u, {"queue", "out"})
  BY <1>1, <1>7, <1>8, <1>9, BeginningSends
<1> HIDE DEF u
<1>11. /\ Begun(t, e) /\ (~u.closedFlag => ~t.closedFlag) /\ t.state = "SYN_RECEIVED"
  BY <1>10, BeginningBegins
<1>12. /\ u.closedFlag = a.closedFlag /\ u.sndUna = a.sndUna /\ u.iss = a.iss
       /\ DOMAIN u = SocketFields
  BY <1>10, LooseFields DEF Differs, AlikeBut, Core, Beginning
<1>13. Differs(u, t, {"state", "closedFlag"})
  BY <1>12, EventsDiffer
<1> HIDE DEF t
<1>14. t.sndUna = t.iss
  BY <1>1, <1>8, <1>12, <1>13 DEF Differs, AlikeBut, Core
<1> QED BY <1>1, <1>2, <1>4, <1>8, <1>11, <1>12, <1>14 DEF Unheard, iss, isn

\* A step of the listener leaves the hosts as they are.
LEMMA ListenerKeeps ==
    ASSUME StreamInv, HostsFit, UNCHANGED <<written, shut, read, ended>>,
           task["server"].at \in {"start", "accept"},
           task'["server"].at \in {"start", "accept"}, ~task'["server"].closing,
           task'["client"] = task["client"],
           \A h \in Hosts : sock'[h] = sock[h] /\ net'[h] = net[h], ListenerRight'
    PROVE  StreamInv'
<1>1. \A h \in Hosts : h = "client" \/ h = "server"
  BY DEF Hosts
<1>2. Stage("server") /\ Begins("server") /\ "server" \in Hosts
  BY DEF StreamInv, Hosts
<1>3. ~task["server"].closing /\ Reading(task["server"]) /\ Reading(task'["server"])
  BY <1>2 DEF Stage, StageOf, Reading
<1>4. \A h \in Hosts : Reading(task'[h]) = Reading(task[h])
  <2>1. Reading(task'["server"]) = Reading(task["server"])
    BY <1>3 DEF Reading
  <2> QED BY <1>1, <2>1
<1>5. \A h \in Hosts : Peer(h) \in Hosts
  BY HostIs
<1>6. \A h \in Hosts : Low(h)' = Low(h)
  BY <1>4, <1>5 DEF Low
<1>7. \A h \in Hosts : Env(h)' = Env(h)
  BY <1>4, <1>5, <1>6 DEF Env
<1>8. ASSUME NEW h \in Hosts
      PROVE  Right(sock'[h], Env(h)') /\ Wire(h)' /\ Begins(h)' /\ Stage(h)'
  <2>1. Right(sock[h], Env(h)) /\ Wire(h) /\ Begins(h) /\ Stage(h)
    BY DEF StreamInv
  <2>2. Wire(h)'
    BY <1>5, <1>6, <2>1 DEF Wire
  <2>3. Fresh(h)' = Fresh(h)
    BY <1>1 DEF Fresh
  <2>4. Begins(h)'
    BY <1>5, <2>1, <2>3 DEF Begins, Untouched
  <2>5. Stage(h)'
    <3>1. CASE h = "client"
      BY <2>1, <3>1 DEF Stage
    <3>2. CASE h = "server"
      BY <1>2, <1>3, <2>1, <3>2 DEF Stage, StageOf
    <3> QED BY <1>1, <3>1, <3>2
  <2> QED BY <1>7, <2>1, <2>2, <2>4, <2>5
<1>9. HistoryFits'
  BY DEF StreamInv, HistoryFits
<1> QED BY <1>8, <1>9 DEF StreamInv

LEMMA ListenerPuts ==
    ASSUME HostsFit, NEW x, DOMAIN x = SocketFields, x.out = <<>>, Put("listener", x),
           \A i \in DOMAIN x.synQueue : x.synQueue[i].isn = ClientIss
    PROVE  /\ \A h \in Hosts : sock'[h] = sock[h] /\ net'[h] = net[h]
           /\ ListenerRight'
<1> DEFINE y == [x EXCEPT !.out = <<>>, !.nic = "up"]
<1>1. /\ sock' = [sock EXCEPT !["listener"] = y]
      /\ net' = [net EXCEPT !["client"] = @ \o x.out]
  BY DEF Put, HostOf, Peer
<1>2. y.synQueue = x.synQueue
  BY DEF SocketFields
<1> HIDE DEF y
<1>3. "listener" \in DOMAIN sock /\ "listener" \notin Hosts
  BY DEF HostsFit, SocketsFit, Sockets, Hosts
<1>4. net \in [Hosts -> Seq(Segments)] /\ net["client"] \in Seq(Segments)
  BY DEF HostsFit, NetFits, Hosts
<1>5. net["client"] \o x.out = net["client"]
  BY <1>4
<1>6. \A h \in Hosts : sock'[h] = sock[h]
  BY <1>1, <1>3
<1>7. \A h \in Hosts : net'[h] = net[h]
  BY <1>1, <1>4, <1>5
<1>8. sock'["listener"] = y
  BY <1>1, <1>3
<1> QED BY <1>2, <1>6, <1>7, <1>8 DEF ListenerRight

LEMMA ListenerIs ==
    ASSUME StreamInv, HostsFit
    PROVE  LET s == sock["listener"]
           IN  /\ DOMAIN s = SocketFields /\ s.out = <<>> /\ s.synQueue \in Seq(Requests)
               /\ \A i \in DOMAIN s.synQueue : s.synQueue[i].isn = ClientIss
               /\ s.synQueue # <<>> =>
                    /\ Head(s.synQueue) \in Requests /\ Head(s.synQueue).isn = ClientIss
                    /\ \A i \in DOMAIN Tail(s.synQueue) : Tail(s.synQueue)[i].isn = ClientIss
<1> DEFINE s == sock["listener"]
           q == s.synQueue
<1>1. AtRest(s)
  BY DEF HostsFit, SocketsFit, Sockets
<1>2. DOMAIN s = SocketFields /\ s.out = <<>> /\ q \in Seq(Requests)
  BY <1>1 DEF AtRest, Fit, Bounded, Loose, WaitOK
<1>3. \A i \in DOMAIN q : q[i].isn = ClientIss
  BY DEF StreamInv, ListenerRight
<1> HIDE DEF q
<1>4. ASSUME q # <<>>
      PROVE  /\ Head(q) \in Requests /\ Head(q).isn = ClientIss
             /\ \A i \in DOMAIN Tail(q) : Tail(q)[i].isn = ClientIss
  <2>1. Head(q) = q[1] /\ 1 \in DOMAIN q /\ Head(q) \in Requests
    BY <1>2, <1>4
  <2>2. ASSUME NEW i \in DOMAIN Tail(q)
        PROVE  Tail(q)[i].isn = ClientIss
    <3>1. Tail(q)[i] = q[i + 1] /\ i + 1 \in DOMAIN q
      BY <1>2, <1>4
    <3> QED BY <1>3, <3>1
  <2> QED BY <1>3, <2>1, <2>2
<1> QED BY <1>2, <1>3, <1>4 DEF q

\* tcpAccept up to its wait.
LEMMA AcceptKeeps ==
    ASSUME StreamInv, HostsFit, HostsFit', Accept
    PROVE  StreamInv'
<1> DEFINE s == sock["listener"]
           u == [s EXCEPT !.eventMask = {"RX_READY"}, !.event = FALSE]
           r == Goto("server", "accept")
           t == [r EXCEPT !.blocked = TRUE]
<1>1. /\ task["server"].at = "start" /\ UNCHANGED <<written, shut, read, ended>>
      /\ \/ Put("listener", u) /\ Become("server", t)
         \/ Become("server", r) /\ UNCHANGED <<sock, net>>
  BY DEF Accept, history
<1>2. "server" \in Hosts /\ "accept" \in Waits /\ Stage("server")
  BY DEF StreamInv, Hosts, Waits
<1>3. r \in Tasks /\ r.at = "accept" /\ r.closing = task["server"].closing
  BY <1>2, PlaceIs
<1>4. /\ task \in [Hosts -> Tasks] /\ task["server"].closing \in BOOLEAN
  BY <1>2 DEF HostsFit, TasksFit, Tasks
<1>5. ~task["server"].closing
  BY <1>1, <1>2 DEF Stage, StageOf
<1> HIDE DEF r
<1>6. t.at = "accept" /\ t.closing = r.closing
  BY <1>3 DEF Tasks
<1>7. task'["server"] \in {t, r} /\ task'["client"] = task["client"]
  BY <1>1, <1>4 DEF Become, Hosts
<1>8. task'["server"].at = "accept" /\ ~task'["server"].closing
  <2> HIDE DEF t
  <2> QED BY <1>3, <1>5, <1>6, <1>7
<1> HIDE DEF t
<1>9. (\A h \in Hosts : sock'[h] = sock[h] /\ net'[h] = net[h]) /\ ListenerRight'
  <2>1. CASE Put("listener", u)
    <3>1. /\ DOMAIN s = SocketFields /\ s.out = <<>>
          /\ \A i \in DOMAIN s.synQueue : s.synQueue[i].isn = ClientIss
      BY ListenerIs
    <3> HIDE DEF s
    <3>2. DOMAIN u = SocketFields /\ u.out = <<>> /\ u.synQueue = s.synQueue
      BY <3>1 DEF SocketFields
    <3> HIDE DEF u
    <3> QED BY <2>1, <3>1, <3>2, ListenerPuts
  <2>2. CASE UNCHANGED <<sock, net>>
    BY <2>2 DEF StreamInv, ListenerRight
  <2> QED BY <1>1, <2>1, <2>2
<1> QED BY <1>1, <1>7, <1>8, <1>9, ListenerKeeps

\* The request is dropped, or there was none.
LEMMA AcceptDropsKeeps ==
    ASSUME StreamInv, HostsFit, UNCHANGED <<written, shut, read, ended>>,
           task["server"].at = "accept", Become("server", Start),
           NEW x, x \in {Unwatched(sock["listener"]),
                         Unwatched([sock["listener"] EXCEPT !.synQueue = Tail(@)])},
           sock["listener"].synQueue = <<>> => x = Unwatched(sock["listener"]),
           Put("listener", x)
    PROVE  StreamInv'
<1> DEFINE s == sock["listener"]
           rest == [s EXCEPT !.synQueue = Tail(@)]
<1>1. /\ DOMAIN s = SocketFields /\ s.out = <<>>
      /\ \A i \in DOMAIN s.synQueue : s.synQueue[i].isn = ClientIss
      /\ s.synQueue # <<>> =>
            \A i \in DOMAIN Tail(s.synQueue) : Tail(s.synQueue)[i].isn = ClientIss
  BY ListenerIs
<1>2. x \in {Unwatched(s), Unwatched(rest)} /\ (s.synQueue = <<>> => x = Unwatched(s))
  OBVIOUS
<1> HIDE DEF s
<1>3. DOMAIN rest = SocketFields /\ rest.out = <<>> /\ rest.synQueue = Tail(s.synQueue)
  BY <1>1 DEF SocketFields
<1> HIDE DEF rest
<1>4. \A r : DOMAIN r = SocketFields => /\ DOMAIN Unwatched(r) = SocketFields
                                        /\ Unwatched(r).out = r.out
                                        /\ Unwatched(r).synQueue = r.synQueue
  BY DEF Unwatched, SocketFields
<1>5. /\ DOMAIN x = SocketFields /\ x.out = <<>>
      /\ \A i \in DOMAIN x.synQueue : x.synQueue[i].isn = ClientIss
  <2>1. CASE x = Unwatched(s)
    BY <1>1, <1>4, <2>1
  <2>2. CASE x = Unwatched(rest) /\ s.synQueue # <<>>
    BY <1>1, <1>3, <1>4, <2>2
  <2> QED BY <1>2, <2>1, <2>2
<1>6. (\A h \in Hosts : sock'[h] = sock[h] /\ net'[h] = net[h]) /\ ListenerRight'
  BY <1>5, ListenerPuts
<1>7. task'["server"] = Start /\ task'["client"] = task["client"]
  BY DEF Become, HostsFit, TasksFit, Hosts
<1>8. Start.at = "start" /\ Start.closing = FALSE
  BY DEF Start, Idle
<1> QED BY <1>6, <1>7, <1>8, ListenerKeeps

\* tcpAccept, once there is a request.
LEMMA AcceptAnswersKeeps ==
    ASSUME StreamInv, HostsFit, HostsFit', ShortStreams,
           UNCHANGED <<written, shut, read, ended>>,
           task["server"].at = "accept", Become("server", Idle),
           sock["listener"].synQueue # <<>>,
           LET s == sock["listener"]
               rest == [s EXCEPT !.synQueue = Tail(@)]
               new == PassiveOpen([Opened EXCEPT !.nic = "up"], Head(s.synQueue), ServerIss)
           IN  /\ sock' = [sock EXCEPT !["listener"] = Unwatched(rest),
                                       !["server"] = [new EXCEPT !.out = <<>>]]
               /\ net' = [net EXCEPT !["client"] = @ \o new.out]
    PROVE  StreamInv'
<1> DEFINE h == "server"
           p == "client"
           s == sock["listener"]
           rest == [s EXCEPT !.synQueue = Tail(@)]
           item == Head(s.synQueue)
           nic == "up"
           r == [Opened EXCEPT !.nic = nic]
           t == PassiveOpen(r, item, ServerIss)
           x == Unwatched(rest)
           y == [t EXCEPT !.out = <<>>]
           e == Env(h)'
<1>1. /\ sock' = [sock EXCEPT !["listener"] = x, !["server"] = y]
      /\ net' = [net EXCEPT !["client"] = @ \o t.out]
  OBVIOUS
<1>2. /\ h \in Hosts /\ p \in Hosts /\ Peer(h) = p /\ Iss(h) = ServerIss /\ Iss(p) = ClientIss
      /\ nic \in Nics
  BY DEF Hosts, Peer, Iss, Nics
<1>3. /\ DOMAIN s = SocketFields /\ s.synQueue # <<>> /\ item \in Requests
      /\ item.isn = ClientIss
      /\ \A i \in DOMAIN Tail(s.synQueue) : Tail(s.synQueue)[i].isn = ClientIss
  BY ListenerIs
<1> HIDE DEF s, item
<1>4. DOMAIN rest = SocketFields /\ rest.synQueue = Tail(s.synQueue)
  BY <1>3 DEF SocketFields
<1> HIDE DEF rest
<1>5. x.synQueue = rest.synQueue
  BY <1>4 DEF Unwatched, SocketFields
<1> HIDE DEF x, y, t
<1>6. /\ sock'["listener"] = x /\ sock'[h] = y /\ sock'[p] = sock[p]
  BY <1>1 DEF HostsFit, SocketsFit, Sockets
<1>7. net'[h] = net[h] /\ net'[p] = net[p] \o t.out
  BY <1>1, <1>2 DEF HostsFit, NetFits
<1>8. task'[h] = Idle /\ task'[p] = task[p]
  BY <1>2 DEF Become, HostsFit, TasksFit
<1>9. Begins(h) /\ Begins(p) /\ Stage(h)
  BY <1>2 DEF StreamInv
<1>10. /\ Fresh(h) /\ Untouched(h) /\ ~task[h].closing /\ ~shut[h]
       /\ read[h] = <<>> /\ written[h] = 0
  <2>1. Fresh(h) /\ Untouched(h) /\ ~task[h].closing
    BY <1>9 DEF Begins, Fresh, Stage, StageOf
  <2> QED BY <1>9, <2>1 DEF Stage, StageOf, Reading, Untouched
<1>11. HistoryFits'
  BY DEF StreamInv, HistoryFits
<1>12. EnvOK(e) /\ e.own = ServerIss /\ e.peer = ClientIss /\ e.written = 0 /\ e.got = 0
  <2>1. EnvOK(e)
    BY <1>2, <1>11, EnvFitsNext
  <2>2. Len(read'[h]) = 0
    BY <1>10
  <2> QED BY <1>2, <1>10, <2>1, <2>2 DEF Env
<1>13. Opening(r, e) /\ r.nic = "up"
  <2>1. Fit(r) /\ r.state = "CLOSED" /\ r.sackBlock = <<>> /\ r.nic = nic
    BY <1>2, OpenedFits
  <2>2. /\ r.queue = <<>> /\ r.out = <<>> /\ r.sndUser = 0 /\ r.closedFlag = FALSE
        /\ r.probing = FALSE
    BY DEF Opened, Unused
  <2> HIDE DEF r, e
  <2> QED BY <1>12, <2>1, <2>2 DEF Opening, nic
<1> HIDE DEF r, e
<1>14. /\ Fit(t) /\ Begun(t, e) /\ ~t.closedFlag /\ t.state = "SYN_RECEIVED"
       /\ Unheard(t, 0)
  <2>1. item \in Requests /\ item.isn = e.peer
    BY <1>3, <1>12
  <2>2. LET v == PassiveOpen(r, item, e.own)
        IN  /\ Fit(v) /\ Begun(v, e) /\ ~v.closedFlag /\ v.state = "SYN_RECEIVED"
            /\ Unheard(v, 0)
    BY <1>12, <1>13, <2>1, PassiveOpenRight
  <2> QED BY <1>12, <2>2 DEF t
<1>15. Loose(t) /\ Rests(t, y)
  <2>1. Loose(t) /\ DOMAIN t = SocketFields
    BY <1>14, LooseFields DEF Fit, Bounded
  <2>2. Differs(t, y, {"out"}) /\ y.out = <<>>
    BY <2>1 DEF y, Differs, AlikeBut, Core, SocketFields
  <2> QED BY <2>1, <2>2 DEF Rests
<1>16. Stepped(h, t)
  BY <1>2, <1>6, <1>7, <1>8, <1>15 DEF Stepped
<1>17. Idle.at = "idle" /\ Idle.closing = FALSE
  BY DEF Idle
<1>18. /\ y.state = t.state /\ y.owned = t.owned /\ y.closedFlag = t.closedFlag
  BY <1>15, RestsSame
<1>19. Proceeds(h, t)
  <2>1. ~Fresh(h)'
    BY <1>6, <1>8, <1>14, <1>17, <1>18 DEF Fresh
  <2> HIDE DEF h, p
  <2> QED BY <1>2, <1>10, <1>14, <2>1 DEF Proceeds
<1>20. Stage(h)'
  <2>1. read'[h] = [i \in 1 .. Len(read'[h]) |-> i]
    BY <1>9 DEF Stage, StageOf
  <2>2. StageOf(Idle, y, shut'[h], read'[h], ended'[h])
    BY <1>10, <1>14, <1>17, <1>18, <2>1 DEF StageOf, Live, Hearing, Begun
  <2> QED BY <1>6, <1>8, <2>2 DEF Stage
<1>21. ListenerRight'
  BY <1>3, <1>4, <1>5, <1>6 DEF ListenerRight
<1>22. Right(t, e)
  BY <1>14 DEF Begun
<1> QED BY <1>2, <1>11, <1>15, <1>16, <1>19, <1>20, <1>21, <1>22, HostStep DEF e

LEMMA AcceptTurnKeeps ==
    ASSUME StreamInv, HostsFit, HostsFit', ShortStreams, NEW nic \in Nics, AcceptTurn(nic)
    PROVE  StreamInv'
<1> DEFINE s == sock["listener"]
           rest == [s EXCEPT !.synQueue = Tail(@)]
           new == PassiveOpen([Opened EXCEPT !.nic = nic], Head(s.synQueue), ServerIss)
<1>1. task["server"].at = "accept" /\ UNCHANGED <<written, shut, read, ended>>
  BY PlaceOf DEF AcceptTurn, history
<1>2. CASE s.synQueue = <<>>
  <2>1. Put("listener", Unwatched(s)) /\ Become("server", Start)
    BY <1>2 DEF AcceptTurn
  <2> QED BY <1>1, <1>2, <2>1, AcceptDropsKeeps
<1>3. CASE s.synQueue # <<>> /\ nic = "up"
  <2>1. /\ sock' = [sock EXCEPT !["listener"] = Unwatched(rest),
                                !["server"] = [new EXCEPT !.out = <<>>]]
        /\ net' = [net EXCEPT !["client"] = @ \o new.out]
        /\ Become("server", Idle)
    BY <1>3 DEF AcceptTurn
  <2> QED BY <1>1, <1>3, <2>1, AcceptAnswersKeeps
<1>4. CASE s.synQueue # <<>> /\ nic # "up"
  <2>1. Put("listener", Unwatched(rest)) /\ Become("server", Start)
    BY <1>4 DEF AcceptTurn
  <2> QED BY <1>1, <1>4, <2>1, AcceptDropsKeeps
<1> QED BY <1>2, <1>3, <1>4

\* What tcpAbort leaves is not owned, and has said nothing wrong.
LEMMA AbortRight ==
    ASSUME NEW s, NEW e, InOrder(s, e), s.out = <<>>
    PROVE  LET t == Abort(s)
           IN  /\ Fit(t) /\ Right(t, e) /\ ~t.owned /\ t.state \in {"CLOSED", "TIME_WAIT"}
<1> DEFINE una == s.sndNxt
           rst == {"RST"}
           none == 0
           noAck == 0
           no == FALSE
           a == SendSegment(s, rst, una, noAck, none, no)
           b == [s EXCEPT !.owned = FALSE]
           t == Abort(s)
<1>1. /\ Fit(s) /\ EnvOK(e) /\ Loose(s) /\ Speaks(s, e) /\ DOMAIN s = SocketFields
      /\ Ready(s, e)
  BY InOrderOf DEF Speaks
<1>2. /\ rst \in SUBSET Flags /\ none \in 0 .. Mss /\ no \in BOOLEAN
      /\ noAck \in SeqNums /\ una \in SeqNums
  BY <1>1, LooseFields, Sizes DEF Flags, SeqNums
<1>3. t = Free(a) \/ t = Free(s) \/ (t = b /\ s.state = "TIME_WAIT")
  BY DEF Abort
<1>4. Fit(t)
  BY <1>1, AbortFits
<1>5. Speaks(a, e)
  <2>1. Speaks(SendSegment(s, {"RST"}, una, 0, 0, FALSE), e)
    BY <1>1, <1>2, SendResetSpeaks
  <2> QED BY <2>1
<1> HIDE DEF t, una, rst, none, noAck, no
<1>6. Loose(a)
  BY <1>1, <1>2, SendSegmentFits
<1> HIDE DEF a
<1>7. CASE t = Free(a)
  <2>1. Right(Free(a), e) /\ Free(a).owned = FALSE /\ Free(a).state = "CLOSED"
    BY <1>1, <1>5, <1>6, FreeRight
  <2> QED BY <1>4, <1>7, <2>1 DEF t
<1>8. CASE t = Free(s)
  <2>1. Right(Free(s), e) /\ Free(s).owned = FALSE /\ Free(s).state = "CLOSED"
    BY <1>1, FreeRight
  <2> QED BY <1>4, <1>8, <2>1 DEF t
<1>9. CASE t = b /\ s.state = "TIME_WAIT"
  <2>1. b.owned = FALSE /\ b.state = s.state /\ b.queue = s.queue /\ b.out = s.out
    BY <1>1 DEF SocketFields
  <2> HIDE DEF b
  <2>2. Ready(b, e)
    BY <1>1, <1>9, <2>1 DEF Ready, Hearing
  <2>3. b.queue = <<>>
    BY <1>1, <1>9, <2>1 DEF Ready
  <2>4. Right(b, e)
    BY <1>9, <2>1, <2>2, <2>3 DEF Right, Speaks, Hears, Hearing
  <2> QED BY <1>4, <1>9, <2>1, <2>4 DEF t
<1> QED BY <1>3, <1>7, <1>8, <1>9

LEMMA CloseKeeps ==
    ASSUME StreamInv, HostsFit, HostsFit', ShortStreams, NEW h \in Hosts, NEW nic \in Nics,
           Close(h, nic)
    PROVE  StreamInv'
<1> DEFINE p == Peer(h)
           s == [sock[h] EXCEPT !.nic = nic]
           t == Abort(s)
           k == [Idle EXCEPT !.at = "closed"]
           e == Env(h)
           f == Env(h)'
<1>1. p \in Hosts /\ Peer(p) = h /\ p # h
  BY HostIs
<1>2. Put(h, t) /\ Become(h, k) /\ UNCHANGED <<written, shut, read, ended>>
  BY DEF Close, history
<1>3. k.at = "closed" /\ k.closing = FALSE /\ ~Reading(k)
  BY DEF Idle, Reading
<1> HIDE DEF k
<1>4. Begins(h) /\ Begins(p) /\ Stage(h)
  BY <1>1 DEF StreamInv
<1>5. HistoryFits'
  BY <1>2 DEF StreamInv, HistoryFits
<1>6. InOrder(s, e) /\ s.out = <<>>
  BY NicInOrder
<1> HIDE DEF s, e, f
<1>7. Fit(t) /\ Right(t, e) /\ ~t.owned /\ t.state \in {"CLOSED", "TIME_WAIT"}
  BY <1>6, AbortRight
<1> HIDE DEF t
<1>8. Loose(t)
  BY <1>7 DEF Fit, Bounded
<1>9. /\ Rests(t, sock'[h]) /\ sock'[p] = sock[p]
      /\ net'[p] = net[p] \o t.out /\ net'[h] = net[h]
      /\ sock'["listener"] = sock["listener"]
  BY <1>2, <1>8, PutSteps
<1>10. task'[h] = k /\ task'[p] = task[p]
  BY <1>1, <1>2 DEF Become, HostsFit, TasksFit
<1>11. Stepped(h, t)
  BY <1>2, <1>9, <1>10 DEF Stepped
<1>12. EnvOK(e) /\ EnvOK(f)
  BY <1>5, EnvFits, EnvFitsNext DEF e, f, StreamInv
<1>13. Low(h)' = Low(h)
  BY <1>8, <1>11, LowNext
<1>14. Grown(e, f) /\ e.low = f.low /\ e.low \in Nat
  <2>1. written[p] \in Nat
    BY <1>1, RestOf, System
  <2>2. f.reads = FALSE
    BY <1>3, <1>10 DEF f, Env
  <2>3. Grown(e, f) /\ e.low = f.low
    BY <1>2, <1>3, <1>10, <1>13, <2>1 DEF Grown, e, f, Env
  <2> QED BY <1>12, <2>3 DEF EnvOK
<1>15. Right(t, f)
  <2>1. e.low <= f.low
    BY <1>14
  <2> QED BY <1>7, <1>8, <1>12, <1>14, <2>1, GrownRight
<1>16. Proceeds(h, t)
  <2>1. Limit(sock[h], Reading(task[h]), Iss(p)) <= Limit(t, Reading(task'[h]), Iss(p))
    <3>1. sock[h].rcvNxt \in SeqNums /\ t.rcvNxt \in SeqNums /\ Iss(p) \in SeqNums
      BY <1>1, <1>8, RestOf, LooseFields, HostIs
    <3>2. Limit(sock[h], Reading(task[h]), Iss(p)) \in 0 .. SeqSpace /\ SeqSpace \in Nat
      BY <3>1, LimitFits, MinusIs
    <3>3. Limit(t, Reading(task'[h]), Iss(p)) = SeqSpace
      BY <1>3, <1>10 DEF Limit
    <3> QED BY <3>2, <3>3
  <2>2. written[h] <= written'[h]
    <3>1. written[h] \in Nat
      BY RestOf, System
    <3> QED BY <1>2, <3>1
  <2>3. ~Fresh(h)'
    <3>1. sock'[h].state = t.state
      BY <1>9, RestsSame
    <3> QED BY <1>3, <1>7, <1>10, <3>1 DEF Fresh
  <2>4. Fresh(p) => Unheard(t, written'[h])
    BY <1>1, <1>2, <1>4, <1>7 DEF Begins, Unheard
  <2> QED BY <1>2, <2>1, <2>2, <2>3, <2>4 DEF Proceeds
<1>17. Stage(h)'
  <2>1. read'[h] = [i \in 1 .. Len(read'[h]) |-> i]
    BY <1>2, <1>4 DEF Stage, StageOf
  <2>2. StageOf(k, sock'[h], shut'[h], read'[h], ended'[h])
    BY <1>3, <2>1 DEF StageOf
  <2> QED BY <1>10, <2>2 DEF Stage
<1>18. ListenerRight'
  BY <1>9 DEF StreamInv, ListenerRight
<1> QED BY <1>5, <1>8, <1>11, <1>15, <1>16, <1>17, <1>18, HostStep DEF f

-----------------------------------------------------------------------------
(* The invariant *)

LEMMA InitRight ==
    ASSUME Init
    PROVE  StreamInv
<1>1. ASSUME NEW h \in Hosts
      PROVE  /\ sock[h] \in {Opened, Unused} /\ task[h] = Start /\ net[h] = <<>>
             /\ written[h] = 0 /\ shut[h] = FALSE /\ read[h] = <<>> /\ ended[h] = FALSE
  BY DEF Init, Sockets, Hosts
<1>2. \A h \in Hosts : Peer(h) \in Hosts
  BY HostIs
<1>3. ASSUME NEW s \in {Opened, Unused}
      PROVE  /\ s.owned = FALSE /\ s.state = "CLOSED" /\ s.queue = <<>> /\ s.out = <<>>
             /\ s.sndUser = 0 /\ s.probing = FALSE /\ s.closedFlag = FALSE
  BY DEF Opened, Unused
<1>4. Start.at = "start" /\ Start.closing = FALSE
  BY DEF Start, Idle
<1>5. ASSUME NEW h \in Hosts
      PROVE  Right(sock[h], Env(h)) /\ Wire(h) /\ Begins(h) /\ Stage(h)
  <2> DEFINE s == sock[h]
             r == sock[Peer(h)]
  <2>1. /\ s.owned = FALSE /\ s.state = "CLOSED" /\ s.queue = <<>> /\ s.out = <<>>
        /\ s.sndUser = 0 /\ s.probing = FALSE /\ s.closedFlag = FALSE
        /\ r.owned = FALSE /\ r.state = "CLOSED"
    BY <1>1, <1>2, <1>3
  <2>2. /\ task[h] = Start /\ net[h] = <<>> /\ net[Peer(h)] = <<>>
        /\ written[h] = 0 /\ written[Peer(h)] = 0 /\ shut[h] = FALSE
        /\ read[h] = <<>> /\ ended[h] = FALSE
    BY <1>1, <1>2
  <2> HIDE DEF s, r
  <2>3. Right(s, Env(h))
    BY <2>1 DEF Right, Speaks, Ready, Hears, Hearing
  <2>4. Wire(h)
    BY <2>2 DEF Wire
  <2>5. Begins(h)
    BY <2>1, <2>2 DEF Begins, Untouched, FreshSocket, Unheard, s, r
  <2>6. Stage(h)
    BY <1>4, <2>1, <2>2 DEF Stage, StageOf, Live, s
  <2> QED BY <2>3, <2>4, <2>5, <2>6 DEF s
<1>6. ListenerRight
  <2>1. sock["listener"].synQueue = <<>>
    BY DEF Init, Sockets, Opened, Unused
  <2> QED BY <2>1 DEF ListenerRight
<1>7. HistoryFits
  BY DEF Init, HistoryFits
<1> QED BY <1>5, <1>6, <1>7 DEF StreamInv

LEMMA NextKeeps ==
    ASSUME ShortStreams, NoHalfClose, StreamInv, HostsFit, HostsFit', FinBehindData',
           [Next]_vars
    PROVE  StreamInv'
<1>1. CASE \E nic \in Nics : Connect(nic) \/ AcceptTurn(nic)
  BY <1>1, ConnectKeeps, AcceptTurnKeeps
<1>2. CASE ConnectReturns \/ Accept
  BY <1>2, ConnectReturnsKeeps, AcceptKeeps
<1>3. CASE \E h \in Hosts : Call(h) \/ Network(h)
  BY <1>3, SendKeeps, ReceiveKeeps, ShutdownKeeps, NetworkKeeps DEF Call
<1>4. ASSUME NEW h \in Hosts, NEW nic \in Nics, Turn(h, nic)
      PROVE  StreamInv'
  BY <1>4, SendTurnKeeps, ReceiveTurnKeeps, FlushTurnKeeps, DrainTurnKeeps, FinTurnKeeps,
     EndTurnKeeps DEF Turn
<1>5. ASSUME NEW h \in Hosts, NEW nic \in Nics, Tick(h, nic)
      PROVE  StreamInv'
  BY <1>5, RetransmitTickKeeps, PersistTickKeeps, OverrideTickKeeps, OtherTicksKeep DEF Tick
<1>6. ASSUME NEW h \in Hosts, NEW nic \in Nics, Close(h, nic) \/ ProcessSegment(h, nic)
      PROVE  StreamInv'
  BY <1>6, CloseKeeps, ProcessSegmentKeeps
<1>7. CASE UNCHANGED vars
  <2>1. \A h \in Hosts : /\ Env(h)' = Env(h) /\ Wire(h)' = Wire(h) /\ Begins(h)' = Begins(h)
                         /\ Stage(h)' = Stage(h) /\ sock'[h] = sock[h]
    BY <1>7 DEF vars, history, Env, Low, Wire, Begins, Untouched, Fresh, Stage
  <2> QED BY <1>7, <2>1 DEF vars, history, StreamInv, ListenerRight, HistoryFits
<1> QED BY <1>1, <1>2, <1>3, <1>4, <1>5, <1>6, <1>7 DEF Next

\* The inductive invariant.
Streams == HostsFit /\ StreamInv

LEMMA StreamsKept ==
    ASSUME ShortStreams, NoHalfClose
    PROVE  Spec /\ []FinBehindData => []Streams
<1>1. Init => Streams
  BY InitFits, InitRight DEF Streams
<1>2. Streams /\ [Next]_vars /\ FinBehindData' => Streams'
  BY NextFits, NextKeeps DEF Streams
<1> QED BY <1>1, <1>2, PTL DEF Spec

-----------------------------------------------------------------------------
(* What the programs see *)

LEMMA StreamsAcked ==
    ASSUME ShortStreams, Streams
    PROVE  AckedIsKept
<1> SUFFICES ASSUME NEW h \in Hosts, Connected(h), MayRead(Peer(h))
             PROVE  LET t == sock[Peer(h)]
                        n == Len(read[Peer(h)])
                    IN  /\ Acknowledged(h) <= n + t.rcvUser
                        /\ ReadData(t, t.rcvUser) = [k \in 1 .. t.rcvUser |-> n + k]
  BY DEF AckedIsKept
<1> DEFINE p == Peer(h)
           s == sock[h]
           t == sock[p]
           e == Env(p)
           n == Len(read[p])
           m == t.rcvUser
           u == Minus(s.sndUna, Iss(h))
           r == Minus(t.rcvNxt, Iss(h))
           w == written[h]
<1>1. p \in Hosts /\ Peer(p) = h /\ Iss(h) \in SeqNums
  BY HostIs
<1>2. Right(s, Env(h)) /\ Right(t, e) /\ Stage(p) /\ HostsFit /\ StreamInv
  BY <1>1 DEF Streams, StreamInv
<1>3. /\ Reading(task[p]) /\ s.owned /\ t.state \in Hearing /\ ~t.closedFlag
  <2>1. Reading(task[p])
    BY DEF MayRead, Reading
  <2> QED BY <1>2, <2>1 DEF Connected, Stage, StageOf, Live
<1>4. /\ e.reads /\ e.peer = Iss(h) /\ e.got = n /\ e.theirs = w /\ EnvOK(e)
  BY <1>1, <1>2, <1>3, EnvFits DEF Env, StreamInv
<1>5. Loose(s) /\ Loose(t)
  BY <1>1, <1>2, RestOf
<1>6. Hears(t, e) /\ (t.state = "SYN_RECEIVED" => m = 0)
      /\ IF t.state = "CLOSE_WAIT" THEN HeardAll(t, e) ELSE Heard(t, e)
  BY <1>2, <1>3, <1>4 DEF Right, Hears
<1>7. u <= r /\ s.iss = Iss(h)
  <2>1. Placed(s, Env(h))
    BY <1>2, <1>3 DEF Right, Speaks, Ready
  <2>2. Env(h).low = r /\ Env(h).own = Iss(h)
    BY <1>3 DEF Env, Low, Limit
  <2> QED BY <2>1, <2>2 DEF Placed
<1>8. u \in Nat /\ r \in Nat /\ m \in Nat /\ w \in Nat /\ n \in Nat
  <2>1. s.sndUna \in SeqNums /\ t.rcvNxt \in SeqNums /\ m \in Nat
    BY <1>5, LooseFields
  <2>2. w \in Nat /\ n \in Nat
    BY <1>4 DEF EnvOK, Short
  <2>3. u \in Nat
    BY <1>1, <2>1, MinusIs
  <2>4. r \in Nat
    BY <1>1, <2>1, MinusIs
  <2> QED BY <2>1, <2>2, <2>3, <2>4
<1>9. \/ n + m = w
      \/ n + m + 1 = r
  <2>1. CASE HeardAll(t, e)
    BY <1>4, <2>1 DEF HeardAll
  <2>2. CASE Heard(t, e)
    BY <1>4, <2>2 DEF Heard
  <2> QED BY <1>6, <2>1, <2>2
<1>10. Acknowledged(h) <= n + m
  <2>1. Acknowledged(h) = Least(u - 1, w)
    BY <1>7 DEF Acknowledged
  <2> HIDE DEF u, r, m, w, n
  <2>2. Least(u - 1, w) <= n + m
    BY <1>7, <1>8, <1>9 DEF Least
  <2> QED BY <2>1, <2>2
<1>11. ReadData(t, m) = [k \in 1 .. m |-> n + k]
  <2>1. CASE t.state \in {"ESTABLISHED", "CLOSE_WAIT"}
    <3>1. m \in Nat /\ m <= t.rcvUser
      BY <1>8
    <3>2. ReadData(t, m) = [k \in 1 .. m |-> e.got + k]
      <4> HIDE DEF m, t, e
      <4>1. m <= t.rcvUser
        BY <3>1
      <4> QED BY <1>4, <1>5, <1>6, <2>1, <3>1, <4>1, ReadIs
    <3> QED BY <1>4, <3>2
  <2>2. CASE m = 0
    BY <2>2 DEF ReadData, ReadBuffer
  <2> QED BY <1>3, <1>6, <2>1, <2>2 DEF Hearing
<1> QED BY <1>10, <1>11

\* What tcpProcessAck takes as acknowledged, and frees of the send buffer, the
\* peer's program has read or will read from its receive buffer, each unit at
\* its place (tcpProcessSegmentData, tcpReceive), however segments were lost,
\* repeated, delayed, cut or received out of order.
THEOREM AcknowledgedIsKept ==
    ShortStreams /\ NoHalfClose => (Spec /\ []FinBehindData => []AckedIsKept)
<1> SUFFICES ASSUME ShortStreams, NoHalfClose
             PROVE  Spec /\ []FinBehindData => []AckedIsKept
  OBVIOUS
<1>1. Spec /\ []FinBehindData => []Streams
  BY StreamsKept
<1>2. Streams => AckedIsKept
  BY StreamsAcked
<1> QED BY <1>1, <1>2, PTL

\* What is sent again is as it was written, as far as it is not acknowledged.
ResendsWhatIsMissing ==
    \A h \in Hosts :
        LET s == sock[h]
        IN  \A i \in DOMAIN s.queue :
                LET o == Minus(s.queue[i].seq, s.iss)
                    d == Segment(s, s.queue[i]).data
                IN  \A k \in DOMAIN d :
                        o + k - 1 >= Minus(s.sndUna, s.iss) => d[k] = o + k - 1

LEMMA StreamsResent ==
    ASSUME ShortStreams, Streams
    PROVE  ResendsWhatIsMissing
<1> SUFFICES ASSUME NEW h \in Hosts, NEW i \in DOMAIN sock[h].queue,
                    NEW k \in DOMAIN Segment(sock[h], sock[h].queue[i]).data,
                    Minus(sock[h].queue[i].seq, sock[h].iss) + k - 1
                        >= Minus(sock[h].sndUna, sock[h].iss)
             PROVE  Segment(sock[h], sock[h].queue[i]).data[k]
                        = Minus(sock[h].queue[i].seq, sock[h].iss) + k - 1
  BY DEF ResendsWhatIsMissing
<1> DEFINE s == sock[h]
           q == s.queue[i]
           e == Env(h)
           u == Minus(s.sndUna, e.own)
           f == [e EXCEPT !.low = u]
           g == Segment(s, q)
           o == Minus(q.seq, e.own)
<1>1. /\ Right(s, e) /\ HistoryFits /\ HostsFit
  BY DEF Streams, StreamInv
<1>2. EnvOK(e) /\ Loose(s)
  BY <1>1, EnvFits, RestOf
<1>3. /\ s.queue \in Seq(Headers) /\ s.iss \in SeqNums /\ s.sndUna \in SeqNums
      /\ s.txBuffer \in Buffers
  BY <1>2, LooseFields
<1>4. q \in Headers
  BY <1>3
<1>5. /\ s.owned /\ Placed(s, e) /\ Stored(s, e) /\ HeaderGood(q, s, e)
  <2>1. s.queue # <<>>
    BY <1>3
  <2> QED BY <1>1, <2>1 DEF Right, Speaks, Ready
<1>6. u \in 0 .. SeqSpace /\ e.own = s.iss
  <2>1. e.own \in SeqNums /\ s.iss = e.own
    BY <1>2, <1>5 DEF EnvOK, Placed
  <2>2. u \in SeqNums /\ SeqSpace \in Nat
    <3> HIDE DEF s, e
    <3> QED BY <1>3, <2>1, MinusIs, Sizes DEF SeqNums
  <2> QED BY <2>1, <2>2 DEF SeqNums
<1>7. /\ f.own = e.own /\ f.peer = e.peer /\ f.written = e.written /\ f.theirs = e.theirs
      /\ f.shut = e.shut /\ f.got = e.got /\ f.low = u
  BY DEF Env
<1> HIDE DEF f
<1>8. EnvOK(f)
  BY <1>2, <1>6, <1>7 DEF EnvOK
<1>9. Placed(s, f) /\ Stored(s, f) /\ HeaderRight(q, f) /\ (s.txBuffer = Released => q.length = 0)
  <2>1. Placed(s, f)
    <3>1. u <= u
      BY <1>6 DEF SeqNums
    <3> QED BY <1>5, <1>7, <3>1 DEF Placed
  <2>2. Stored(s, f)
    BY <1>5, <1>7 DEF Stored
  <2>3. HeaderRight(q, f) /\ (s.txBuffer = Released => q.length = 0)
    BY <1>5, <1>7 DEF HeaderGood, HeaderRight
  <2> QED BY <2>1, <2>2, <2>3
<1>10. SegmentRight(g, f.own, f.written, f.shut, f.low)
  <2> HIDE DEF s, q
  <2>1. q.length > 0 => s.txBuffer # Released /\ Placed(s, f) /\ Stored(s, f)
    BY <1>9
  <2> QED BY <1>3, <1>4, <1>8, <1>9, <2>1, SegmentIsRight
<1>11. g.seq = q.seq /\ g.data \in Seq(Nat)
  <2>1. q.seq \in SeqNums /\ q.length \in Nat
    BY <1>4, HeaderFields
  <2>2. g.seq = q.seq /\ g.data = ReadBuffer(s.txBuffer, s.iss, q.seq, q.length)
    BY DEF Segment
  <2> HIDE DEF g, q, s
  <2> QED BY <1>3, <2>1, <2>2, ReadBufferOf
<1>12. k \in 1 .. Len(g.data) /\ g.data # <<>>
  <2>1. k \in DOMAIN g.data
    OBVIOUS
  <2> HIDE DEF g
  <2> QED BY <1>11, <2>1
<1>13. g.data[k] = o + k - 1 \/ o + k - 1 < u
  BY <1>7, <1>10, <1>11, <1>12 DEF SegmentRight
<1>14. o + k - 1 >= u /\ o \in Int /\ u \in Int /\ k \in Int
  <2>1. o \in SeqNums
    <3>1. q.seq \in SeqNums /\ e.own \in SeqNums
      BY <1>2, <1>4, HeaderFields DEF EnvOK
    <3> HIDE DEF q, e
    <3> QED BY <3>1, MinusIs DEF SeqNums
  <2> QED BY <1>6, <1>12, <2>1 DEF SeqNums
<1>15. g.data[k] = o + k - 1
  <2> HIDE DEF o, u, g
  <2> QED BY <1>13, <1>14
<1> QED BY <1>6, <1>15

\* tcpRetransmitSegment reads the data again from the circular buffer, which
\* tcpSend goes on filling: it never writes over what the peer has not
\* acknowledged, so a segment that is needed again is what it was.
THEOREM MissingIsResent ==
    ShortStreams /\ NoHalfClose => (Spec /\ []FinBehindData => []ResendsWhatIsMissing)
<1> SUFFICES ASSUME ShortStreams, NoHalfClose
             PROVE  Spec /\ []FinBehindData => []ResendsWhatIsMissing
  OBVIOUS
<1>1. Spec /\ []FinBehindData => []Streams
  BY StreamsKept
<1>2. Streams => ResendsWhatIsMissing
  BY StreamsResent
<1> QED BY <1>1, <1>2, PTL

-----------------------------------------------------------------------------
(* The service *)

\* What the programs see.
Seen == <<written, shut, read, ended>>

LEMMA ServiceNames ==
    /\ Service!Ends = Hosts /\ Service!vars = Seen
    /\ \A h : Service!Other(h) = Peer(h)
BY DEF Service!Ends, Hosts, Service!vars, Seen, Service!Other, Peer

LEMMA InitServes == Init => Service!Init
BY DEF Init, Service!Init, Service!Ends, Hosts

LEMMA SendTurnWrites ==
    ASSUME StreamInv, HostsFit, ShortStreams, NEW h \in Hosts, NEW nic \in Nics,
           SendTurn(h, nic)
    PROVE  Service!Next \/ UNCHANGED Seen
<1> DEFINE s == [sock[h] EXCEPT !.nic = nic]
           room == RoomToWrite(s)
           size == task[h].size
           n == Least(room, size)
           w == written[h]
           most == Most(Units["client"], Units["server"])
<1>1. /\ task[h].at = "send" /\ UNCHANGED <<shut, read, ended>>
      /\ \/ UNCHANGED written
         \/ ~(room <= 0) /\ written' = [written EXCEPT ![h] = w + n]
  BY PlaceOf DEF SendTurn
<1>2. ~shut[h]
  BY <1>1, StageFacts
<1>3. /\ size \in Nat /\ size > 0 /\ w \in Nat /\ w + size <= Units[h] /\ Units[h] \in Nat
  BY <1>1, System DEF HostsFit, TasksFit, TaskFits, Tasks
<1>4. room \in Int
  <2>1. Fit(s)
    BY NicInOrder, InOrderOf
  <2> HIDE DEF s
  <2> QED BY <2>1, RoomOf DEF Fit, Bounded
<1>5. most \in Nat /\ Units[h] <= most
  <2>1. Units["client"] \in Nat /\ Units["server"] \in Nat /\ h \in {"client", "server"}
    BY System DEF Hosts
  <2> QED BY <2>1 DEF Most
<1> HIDE DEF room, size, most
<1>6. CASE ~(room <= 0) /\ written' = [written EXCEPT ![h] = w + n]
  <2>1. n \in Nat /\ n >= 1 /\ n <= size
    BY <1>3, <1>4, <1>6 DEF Least
  <2> HIDE DEF n, w
  <2>2. w + n \in w + 1 .. most
    BY <1>3, <1>5, <2>1
  <2>3. Service!Write(h)
    BY <1>1, <1>2, <1>6, <2>2 DEF Service!Write, w, most
  <2> QED BY <2>3, ServiceNames DEF Service!Next
<1> QED BY <1>1, <1>6 DEF Seen

LEMMA ReceiveTurnReads ==
    ASSUME StreamInv, HostsFit, ShortStreams, NEW h \in Hosts, NEW nic \in Nics,
           ReceiveTurn(h, nic)
    PROVE  Service!Next \/ UNCHANGED Seen
<1> DEFINE p == Peer(h)
           s == [sock[h] EXCEPT !.nic = nic]
           n == Least(s.rcvUser, task[h].size)
           e == Env(h)
           open == s.state \in {"ESTABLISHED", "FIN_WAIT_1", "FIN_WAIT_2"}
           over == \/ s.state \in {"CLOSE_WAIT", "LAST_ACK", "CLOSING", "TIME_WAIT"}
                   \/ s.state = "CLOSED" /\ ~s.resetFlag /\ s.closedFlag
           q == read[h]
           d == ReadData(s, n)
<1>1. /\ task[h].at = "receive" /\ UNCHANGED <<written, shut>>
      /\ \/ UNCHANGED <<read, ended>>
         \/ /\ s.rcvUser > 0 /\ (open \/ over)
            /\ read' = [read EXCEPT ![h] = q \o d] /\ UNCHANGED ended
         \/ /\ over /\ ~(s.rcvUser > 0)
            /\ ended' = [ended EXCEPT ![h] = TRUE] /\ UNCHANGED read
  BY PlaceOf DEF ReceiveTurn
<1>2. Reading(task[h]) /\ Live(sock[h]) /\ ~ended[h] /\ Stage(h)
  BY <1>1, StageFacts DEF StreamInv
<1>3. /\ InOrder(s, e) /\ s.state = sock[h].state /\ (Live(sock[h]) <=> Live(s))
  BY NicInOrder
<1>4. Loose(s) /\ EnvOK(e) /\ Hears(s, e)
  BY <1>3, InOrderOf
<1>5. /\ open \/ over => s.state \in {"ESTABLISHED", "CLOSE_WAIT"}
      /\ over => s.state = "CLOSE_WAIT"
  BY <1>2, <1>3 DEF Live, Hearing
<1>6. e.reads /\ e.got = Len(q) /\ e.theirs = written[p] /\ e.over = shut[p]
  BY <1>2 DEF Env
<1>7. /\ q \in Seq(Nat) /\ q = [k \in 1 .. Len(q) |-> k] /\ read \in [Hosts -> Seq(Nat)]
      /\ Len(q) \in Nat
  BY <1>2 DEF StreamInv, HistoryFits, Stage, StageOf
<1>8. s.rcvUser \in Nat /\ task[h].size \in Nat /\ written[p] \in Nat
  <2>1. p \in Hosts
    BY HostIs
  <2> QED BY <1>4, <2>1, LooseFields, RestOf, System DEF HostsFit, TasksFit, Tasks
<1>9. open \/ over => Len(q) + s.rcvUser <= written[p]
  <2>1. ASSUME open \/ over
        PROVE  Len(q) + s.rcvUser <= written[p]
    <3>1. s.state \in Hearing
      BY <1>5, <2>1 DEF Hearing
    <3>2. IF s.state = "CLOSE_WAIT" THEN HeardAll(s, e) ELSE Heard(s, e)
      BY <1>4, <1>6, <3>1 DEF Hears
    <3> DEFINE r == Minus(s.rcvNxt, e.peer)
    <3>3. r \in Nat
      <4>1. s.rcvNxt \in SeqNums /\ e.peer \in SeqNums
        BY <1>4, LooseFields DEF EnvOK
      <4> HIDE DEF s, e
      <4> QED BY <4>1, MinusIs
    <3>4. \/ Len(q) + s.rcvUser = written[p]
          \/ Len(q) + s.rcvUser + 1 = r /\ r <= written[p] + 1
      BY <1>6, <3>2 DEF HeardAll, Heard
    <3> DEFINE l == Len(q)
               m == s.rcvUser
               w == written[p]
    <3>5. l \in Nat /\ m \in Nat /\ w \in Nat /\ (l + m = w \/ (l + m + 1 = r /\ r <= w + 1))
      BY <1>7, <1>8, <3>4
    <3> HIDE DEF r, l, m, w
    <3>6. l + m <= w
      BY <3>3, <3>5
    <3> QED BY <3>6 DEF l, m, w
  <2> QED BY <2>1
<1> HIDE DEF s, e, q, open, over
<1>10. CASE /\ s.rcvUser > 0 /\ (open \/ over)
            /\ read' = [read EXCEPT ![h] = q \o d] /\ UNCHANGED ended
  <2>1. n \in Nat /\ n <= s.rcvUser
    BY <1>8 DEF Least
  <2> HIDE DEF n
  <2>2. d = [k \in 1 .. n |-> Len(q) + k]
    <3>1. s.state \in {"ESTABLISHED", "CLOSE_WAIT"}
      BY <1>5, <1>10
    <3>2. d = [k \in 1 .. n |-> e.got + k]
      <4>1. e.reads
        BY <1>6
      <4> QED BY <1>4, <2>1, <3>1, <4>1, ReadIs
    <3> QED BY <1>6, <3>2
  <2> HIDE DEF d
  <2> DEFINE b == q \o d
             l == Len(b)
  <2>3. b \in Seq(Nat) /\ l = Len(q) + n /\ b = [k \in 1 .. l |-> k]
    BY <1>7, <2>1, <2>2, Follows
  <2>4. read' = [read EXCEPT ![h] = b]
    BY <1>10
  <2>5. n = 0 => b = q
    <3>1. n = 0 => l = Len(q)
      <4> DEFINE a == Len(q)
      <4>1. a \in Nat /\ l = a + n
        BY <1>7, <2>3
      <4> HIDE DEF a, l
      <4>2. n = 0 => l = a
        BY <4>1
      <4> QED BY <4>2 DEF a
    <3> HIDE DEF b, l
    <3> QED BY <1>7, <2>3, <3>1
  <2> HIDE DEF b, l
  <2>6. CASE n = 0
    <3>1. read' = read
      BY <1>7, <2>4, <2>5, <2>6 DEF q
    <3> QED BY <1>1, <1>10, <3>1 DEF Seen
  <2>7. CASE n # 0
    <3>1. l \in Len(q) + 1 .. written[p]
      <4> DEFINE a == Len(q)
                 m == s.rcvUser
                 w == written[p]
      <4>1. a \in Nat /\ m \in Nat /\ w \in Nat /\ a + m <= w /\ n <= m /\ l = a + n
        BY <1>7, <1>8, <1>9, <1>10, <2>1, <2>3
      <4> HIDE DEF a, m, w
      <4>2. l \in a + 1 .. w
        BY <2>1, <2>7, <4>1
      <4> QED BY <4>2 DEF a, w
    <3>2. read' = [read EXCEPT ![h] = [k \in 1 .. l |-> k]]
      BY <2>3, <2>4
    <3>3. Service!Read(h)
      BY <1>1, <1>2, <1>10, <3>1, <3>2, ServiceNames DEF Service!Read, q
    <3> QED BY <3>3, ServiceNames DEF Service!Next
  <2> QED BY <2>6, <2>7
<1>11. CASE /\ over /\ ~(s.rcvUser > 0)
            /\ ended' = [ended EXCEPT ![h] = TRUE] /\ UNCHANGED read
  <2>1. HeardAll(s, e)
    BY <1>4, <1>5, <1>6, <1>11 DEF Hears, Hearing
  <2>2. s.rcvUser = 0
    BY <1>8, <1>11
  <2>3. shut[p] /\ Len(q) = written[p]
    BY <1>6, <1>7, <2>1, <2>2 DEF HeardAll
  <2>4. Service!End(h)
    BY <1>1, <1>11, <2>3, ServiceNames DEF Service!End, q
  <2> QED BY <2>4, ServiceNames DEF Service!Next
<1> QED BY <1>1, <1>10, <1>11 DEF Seen

LEMMA DrainTurnShuts ==
    ASSUME StreamInv, NEW h \in Hosts, NEW nic \in Nics, DrainTurn(h, nic)
    PROVE  Service!Next \/ UNCHANGED Seen
<1> DEFINE now == [sock[h] EXCEPT !.nic = nic].eventFlags = {"TX_DONE"} /\ nic # "memory"
<1>1. /\ shut' = [shut EXCEPT ![h] = @ \/ now]
      /\ UNCHANGED <<written, read, ended>>
  BY DEF DrainTurn
<1>2. shut \in [Hosts -> BOOLEAN]
  BY DEF StreamInv, HistoryFits
<1> HIDE DEF now
<1>3. CASE now
  <2>1. shut' = [shut EXCEPT ![h] = TRUE]
    BY <1>1, <1>2, <1>3
  <2>2. Service!Shut(h)
    BY <1>1, <2>1 DEF Service!Shut
  <2> QED BY <2>2, ServiceNames DEF Service!Next
<1>4. CASE ~now
  <2>1. shut' = shut
    BY <1>1, <1>2, <1>4
  <2> QED BY <1>1, <2>1 DEF Seen
<1> QED BY <1>3, <1>4

\* Each step of the system is one of the service, or is not seen.
LEMMA NextServes ==
    ASSUME ShortStreams, Streams, [Next]_vars
    PROVE  [Service!Next]_(Service!vars)
<1> SUFFICES Service!Next \/ UNCHANGED Seen
  BY DEF Service!vars, Seen
<1>1. StreamInv /\ HostsFit
  BY DEF Streams
<1>2. CASE \E nic \in Nics : Connect(nic) \/ AcceptTurn(nic)
  BY <1>2 DEF Connect, AcceptTurn, history, Seen
<1>3. CASE ConnectReturns \/ Accept
  BY <1>3 DEF ConnectReturns, Accept, history, Seen
<1>4. CASE \E h \in Hosts : Call(h) \/ Network(h)
  BY <1>4 DEF Call, Send, Receive, Shutdown, Network, Lose, Duplicate, Delay, history, Seen
<1>5. ASSUME NEW h \in Hosts, NEW nic \in Nics, Turn(h, nic)
      PROVE  Service!Next \/ UNCHANGED Seen
  <2>1. CASE SendTurn(h, nic) \/ ReceiveTurn(h, nic) \/ DrainTurn(h, nic)
    BY <1>1, <2>1, SendTurnWrites, ReceiveTurnReads, DrainTurnShuts
  <2>2. CASE FlushTurn(h, nic) \/ FinTurn(h) \/ EndTurn(h)
    BY <2>2 DEF FlushTurn, FinTurn, EndTurn, history, Seen
  <2> QED BY <1>5, <2>1, <2>2 DEF Turn
<1>6. ASSUME NEW h \in Hosts, NEW nic \in Nics, Tick(h, nic)
      PROVE  UNCHANGED Seen
  BY <1>6 DEF Tick, RetransmitTick, PersistTick, OverrideTick, FinWait2Tick, TimeWaitTick,
              history, Seen
<1>7. ASSUME NEW h \in Hosts, NEW nic \in Nics, Close(h, nic) \/ ProcessSegment(h, nic)
      PROVE  UNCHANGED Seen
  BY <1>7 DEF Close, ProcessSegment, history, Seen
<1>8. CASE UNCHANGED vars
  BY <1>8 DEF vars, history, Seen
<1> QED BY <1>2, <1>3, <1>4, <1>5, <1>6, <1>7, <1>8, ServiceNames DEF Next, Seen

\* What socketSend, socketReceive and socketShutdown do at both ends is two
\* reliable streams: units are read in the order they were written, none
\* missing and none twice, and the end of a stream is reported only when its
\* program has shut it down and everything written before has been read.
THEOREM StreamsAreServed ==
    ShortStreams /\ NoHalfClose => (Spec /\ []FinBehindData => ImplementsService)
<1> SUFFICES ASSUME ShortStreams, NoHalfClose
             PROVE  Spec /\ []FinBehindData => ImplementsService
  OBVIOUS
<1>1. Spec /\ []FinBehindData => []Streams
  BY StreamsKept
<1>2. Init => Service!Init
  BY InitServes
<1>3. Streams /\ [Next]_vars => [Service!Next]_(Service!vars)
  BY NextServes
<1> QED BY <1>1, <1>2, <1>3, PTL DEF Spec, ImplementsService, Service!Spec

=============================================================================
