-------------------------- MODULE TlsClientProofs --------------------------
(***************************************************************************)
(* Proofs about TlsClient: for any number of connections, faults and units *)
(* of data, both ends of a connection agree on its secret, its session and *)
(* the messages of its handshake, and data cross it whole and in order.    *)
(***************************************************************************)
EXTENDS TlsTypeProofs

-----------------------------------------------------------------------------
(* The client *)

\* The engine of what the client sends counts its records: Finished, then data.
Pending == call = "write" /\ context.tx # <<>>

EngineInv ==
    /\ \/ context.state \in BeforeHello \cup OnlyFull \cup {"CLIENT_CHANGE_CIPHER_SPEC"}
       \/ context.resume /\ context.state \in Awaiting
       => context.encryption = NoEngine
    /\ context.state = "CLIENT_FINISHED" => context.encryption = Engine(context.masterSecret)
    /\ \/ ~context.resume /\ context.state \in Awaiting
       \/ context.state = "APPLICATION_DATA"
       \/ call = "shutdown" /\ ~context.closeNotifySent
       => context.encryption = [secret |-> context.masterSecret,
                                seqNum |-> IF Pending THEN written + 2 ELSE written + 1]

\* What the client knows of its session at each state of the handshake.
ContextInv ==
    /\ link # "none" /\ context.state \in BeforeHello =>
           /\ context.transcript = <<>> /\ ~context.resume
           /\ context.sessionId = context.masterSecret /\ context.sessionId < conn
    /\ link # "none" /\ context.state \notin BeforeHello \cup Over =>
           /\ context.transcript # <<>>
           /\ server.phase # "hello"
           /\ context.resume = server.resume /\ context.sessionId = server.id
    /\ context.state \in OnlyFull => ~context.resume
    /\ context.resume /\ context.state \notin Over =>
           context.masterSecret = context.sessionId /\ context.masterSecret # Nothing
    /\ /\ ~context.resume
       /\ context.state \in Sending \cup Awaiting \cup {"CLIENT_CERTIFICATE_VERIFY", "APPLICATION_DATA"}
       => context.masterSecret = conn

\* The client has sent its Finished.
FinishedSent ==
    \/ context.state \in Over \cup {"APPLICATION_DATA"}
    \/ ~context.resume /\ context.state \in Awaiting

-----------------------------------------------------------------------------
(* The server *)

Ends == {<<"ChangeCipherSpec", "Finished">>, <<"Finished">>}
KeyKnown == Ends \cup {<<"CertificateVerify", "ChangeCipherSpec", "Finished">>}
Expectations ==
    KeyKnown \cup {<<"Certificate", "ClientKeyExchange", "ChangeCipherSpec", "Finished">>,
                   <<"ClientKeyExchange", "ChangeCipherSpec", "Finished">>,
                   <<"ClientKeyExchange", "CertificateVerify", "ChangeCipherSpec", "Finished">>}

ServerInv ==
    /\ server.phase = "hello" => server = ServerInit
    /\ server.phase = "handshake" =>
           /\ server.expects \in Expectations
           /\ server.resume => server.expects \in Ends
           /\ ~server.resume /\ server.expects \in KeyKnown => server.secret = conn
           /\ server.decryption = IF server.expects = <<"Finished">> THEN Engine(server.secret) ELSE NoEngine
    /\ IF server.resume THEN server.id # Nothing /\ server.secret = server.id
                        ELSE server.id \in {Nothing, conn}
    /\ server.id <= conn
    /\ server.phase # "hello" /\ context.state \in BeforeHello =>
           (server.resume <=> server.id # Nothing /\ server.id = context.sessionId)
    /\ server.phase = "data" =>
           /\ server.decryption = [secret |-> server.secret, seqNum |-> Len(server.got) + 1]
           /\ server.secret # Nothing
           /\ SameSession /\ FinishedSent
    /\ server.phase \in {"hello", "handshake"} => server.got = <<>> /\ server.sent = 0 /\ ~server.ended
    /\ server.got = Upto(Len(server.got)) /\ Len(server.got) <= written + 1
    /\ server.ended => server.phase = "over" /\ Len(server.got) = written /\ call \in Last

\* Sessions are known by the number of the connection that established them.
CacheInv ==
    /\ session.id = session.secret /\ session.id <= conn
    /\ \A entry \in cache : entry[1] = entry[2] /\ entry[1] \in 1 .. conn

-----------------------------------------------------------------------------
(* What is on its way to the server *)

GoodUp(m, key) ==
    /\ m.name = "ClientHello" /\ context.state \in BeforeHello => m.id = context.sessionId
    /\ m.name = "ClientKeyExchange" => m.id = conn
    /\ m.name = "Finished" =>
           /\ FinishedSent
           /\ m.id = context.masterSecret /\ m.id # Nothing
           /\ server.phase # "hello" /\ context.resume = server.resume
    /\ m.name = "data" => key.seqNum = m.id /\ m.id <= written + 1
    /\ m.name = "close_notify" => key.seqNum = written + 1 /\ call \in Last

UpInv == \A h \in Rising : Len(h.record.body) = 1 /\ GoodUp(Head(h.record.body), h.record.key)

-----------------------------------------------------------------------------
(* What is on its way to the client *)

Falling ==
    Range(server.flight) \cup Range(context.rx)
    \cup UNION {Range(h.record.body) : h \in Range(down) \cup Range(context.rxRecord)}

FinishedOf(m) == <<"Finished", m.id>>

GoodDown(m) ==
    /\ m.name = "ServerHello" => m.id = server.id /\ server.phase # "hello"
    /\ m.name = "Finished" =>
           /\ m.id = server.secret
           /\ IF server.resume THEN server.phase # "hello" ELSE server.phase \in {"data", "over"}
           /\ \/ server.transcript = Append(m.hash, FinishedOf(m))
              \/ context.state \in Over \cup {"APPLICATION_DATA"}
    /\ m.name = "data" => server.phase \in {"data", "over"} /\ m.id <= server.sent
    /\ m.name = "close_notify" => server.phase = "over"

DownInv == \A m \in Falling : GoodDown(m)

\* The client has verified the Finished of the server: both have the same secret, and
\* the transcripts differ at most by a Finished of the client that is on its way.
OwnFinished == <<"Finished", server.secret>>

Agreed ==
    \/ context.state = "APPLICATION_DATA"
    \/ context.state = "CLOSING" /\ ~context.fatalAlert

AgreedInv ==
    /\ link # "none" /\ context.resume /\ context.state \in Sending =>
           /\ context.masterSecret = server.secret
           /\ server.phase \in {"handshake", "over"}
           /\ context.transcript = server.transcript
    /\ link # "none" /\ Agreed =>
           /\ SameSession /\ context.sessionId = server.id
           /\ server.phase # "hello"
           /\ server.phase = "handshake" => server.resume
           /\ server.phase = "handshake" => context.transcript = Append(server.transcript, OwnFinished)
           /\ server.phase = "data" => context.transcript = server.transcript
           /\ ~server.resume => context.transcript = server.transcript
           /\ \/ context.transcript = Append(server.transcript, OwnFinished)
              \/ context.transcript = server.transcript

-----------------------------------------------------------------------------
(* The data on their way to the client.  Only the second half of a record  *)
(* counts: it is what completes it.                                        *)

IsData(m) == m.name = "data"

\* Units follow each other without a gap.
Consecutive(ms) ==
    \A i \in DOMAIN ms : IsData(ms[i]) =>
        \A j \in 1 .. i : IsData(ms[j]) /\ ms[i].id = ms[j].id + (i - j)

\* Unit k is among the messages.
Within(ms, k) == \E i \in DOMAIN ms : IsData(ms[i]) /\ ms[i].id = k

Completing(i) == i \in DOMAIN down /\ down[i].half = 2
Carried(i, k) == Completing(i) /\ Within(down[i].record.body, k)

InRx(k) == Within(context.rx, k)
InDown(k) == \E i \in DOMAIN down : Carried(i, k)
InFlight(k) == Within(server.flight, k)
OnItsWay(k) == InRx(k) \/ InDown(k) \/ InFlight(k)

OrderInv ==
    /\ Consecutive(context.rx) /\ Consecutive(server.flight)
    /\ \A i \in DOMAIN down : Consecutive(down[i].record.body)
    /\ context.rx # <<>> /\ IsData(context.rx[1]) => context.rx[1].id = Len(got) + 1
    /\ \A k \in Data : InDown(k) \/ InFlight(k) =>
            k > Len(got) /\ \A l \in Data : InRx(l) => l < k
    /\ \A i, j \in DOMAIN down : i < j =>
            \A k, l \in Data : Carried(i, k) /\ Carried(j, l) => k < l
    /\ \A k, l \in Data : InDown(k) /\ InFlight(l) => k < l

\* A close_notify is on its way, and nothing but it where it is.
Closes(ms) == \E i \in DOMAIN ms : ms[i].name = "close_notify"
ClosedAt(i) == Completing(i) /\ Closes(down[i].record.body)
ClosingOnItsWay == Closes(context.rx) \/ Closes(server.flight) \/ \E i \in DOMAIN down : ClosedAt(i)

GapInv ==
    /\ \A k \in Data : OnItsWay(k) => \A l \in Len(got) + 1 .. k : OnItsWay(l)
    /\ server.phase = "data" \/ ClosingOnItsWay => \A l \in Len(got) + 1 .. server.sent : OnItsWay(l)

CloseInv ==
    /\ Closes(context.rx) => \A k \in Data : ~InDown(k) /\ ~InFlight(k)
    /\ \A i \in DOMAIN down : ClosedAt(i) =>
            \A k \in Data : ~InFlight(k) /\ \A j \in DOMAIN down : j > i => ~Carried(j, k)
    /\ Closes(server.flight) => \A k \in Data : ~InFlight(k)

\* What the caller has, and that it is all there was when the stream has ended.
Broken == call \in {"none", "read", "write", "connect"} /\ context.state = "CLOSED" /\ ~context.fatalAlert
Ending ==
    \/ call = "ended"
    \/ call \in {"none", "read", "write"} /\ context.state = "CLOSING" /\ ~context.fatalAlert

GotInv ==
    /\ got = Upto(Len(got)) /\ Len(got) <= server.sent
    /\ ~Broken
    /\ Ending => server.phase = "over" /\ Len(got) = server.sent

Passing == OrderInv /\ GapInv /\ CloseInv

StreamInv == ShapeInv /\ GotInv /\ (Live => Passing)

Inv == /\ TypeInv /\ CallInv /\ EngineInv /\ ContextInv /\ ServerInv /\ CacheInv
       /\ UpInv /\ DownInv /\ AgreedInv /\ StreamInv

-----------------------------------------------------------------------------
(* How things go on while a connection lasts *)

\* The client moves forward, and a call that shuts down writes no more.
Onward ==
    /\ conn' = conn
    /\ context'.state \in BeforeHello => context.state \in BeforeHello /\ UNCHANGED context.sessionId
    /\ FinishedSent => FinishedSent' /\ UNCHANGED <<context.resume, context.masterSecret>>
    /\ context.state \in Over \cup {"APPLICATION_DATA"} => context'.state \in Over \cup {"APPLICATION_DATA"}
    /\ call \in Last => call' \in Last /\ written' = written
    /\ written' = written \/ (written' = written + 1 /\ call = "write")

\* It says nothing that the server has not said, and the server stays as it was.
ClientSide ==
    /\ UNCHANGED <<link, server, cache>>
    /\ Falling' \subseteq Falling

\* The server moves forward, and the client stays as it was.
ServerSide ==
    /\ UNCHANGED <<context, session, call, todo, written, got, conn>>
    /\ link # "none" /\ link' # "none"
    /\ server.phase # "hello" => server'.phase # "hello" /\ UNCHANGED <<server.resume, server.id>>

LEMMA ServerSideOnward ==
    ASSUME ServerSide
    PROVE  Onward
  BY DEF ServerSide, Onward, FinishedSent

LEMMA FallingShrinks ==
    ASSUME Range(server'.flight) \subseteq Range(server.flight),
           Range(context'.rx) \subseteq Range(context.rx),
           \A h \in Range(down') \cup Range(context'.rxRecord) :
               \E g \in Range(down) \cup Range(context.rxRecord) : g.record = h.record
    PROVE  Falling' \subseteq Falling
  BY DEF Falling

LEMMA FallingKept ==
    ASSUME server' = server, UNCHANGED <<context.rx, context.rxRecord, down>>
    PROVE  Falling' = Falling
  BY DEF Falling

LEMMA OnwardKept ==
    ASSUME UNCHANGED <<context.state, context.sessionId, context.resume, context.masterSecret, written, conn>>,
           call \in Last => call' \in Last
    PROVE  Onward
  BY DEF Onward, FinishedSent

LEMMA OnwardOver ==
    ASSUME context'.state \in Over, UNCHANGED <<context.resume, context.masterSecret, written, conn>>,
           call \in Last => call' \in Last
    PROVE  Onward
  BY DEF Onward, FinishedSent, Over, BeforeHello

LEMMA OnwardSent ==
    ASSUME NEW from \in ClientStates, NEW to, NEW m, Sent(from, to, m), to \notin Over,
           to \in BeforeHello => from \in BeforeHello
    PROVE  Onward /\ ClientSide
<1>1. /\ ~FinishedSent /\ context.state \notin Over \cup {"APPLICATION_DATA"} /\ call \notin Last
  BY DEF Sent, FinishedSent, ClientStates, Over, Awaiting, Last
<1>2. context'.state \in BeforeHello => context.state \in BeforeHello /\ UNCHANGED context.sessionId
  BY DEF Sent, Untouched, BeforeHello
<1>3. Falling' \subseteq Falling
  BY FallingKept DEF Sent, Untouched, Elsewhere
<1> QED BY <1>1, <1>2, <1>3 DEF Sent, Untouched, Elsewhere, Onward, ClientSide

LEMMA OnwardParsed ==
    ASSUME TypeInv, CallInv, NEW name, Parsed(name),
           context'.state \in BeforeHello => context.state \in BeforeHello /\ UNCHANGED context.sessionId,
           FinishedSent => FinishedSent' /\ UNCHANGED context.resume,
           context.state = "APPLICATION_DATA" => context'.state \in Over \cup {"APPLICATION_DATA"}
    PROVE  Onward /\ ClientSide
<1>1. call \in {"connect", "read"} /\ context.state \notin Over
  BY ReadyState DEF Parsed, Live
<1>2. Falling' \subseteq Falling
  <2>1. Range(context'.rx) \subseteq Range(context.rx)
    BY TakenOf DEF Parsed
  <2> QED BY <2>1, FallingShrinks DEF Parsed, Idle
<1> QED BY <1>1, <1>2 DEF Parsed, Idle, Onward, ClientSide, Last

LEMMA FallingReceived ==
    ASSUME TypeInv, ReceiveHeader \/ ReceiveRecord
    PROVE  Falling' \subseteq Falling
<1>1. CASE ReceiveHeader
  <2>1. /\ context'.rx = context.rx /\ context'.rxRecord = Received
        /\ down # <<>> /\ down' = Tail(down) /\ server' = server
    BY <1>1 DEF ReceiveHeader, TypeInv, ProperContexts, world
  <2> QED BY <2>1, ReceivedOf, FallingShrinks
<1>2. CASE ReceiveRecord
  <2> DEFINE body == Head(down).record.body
  <2>1. /\ context'.rx = context.rx \o body /\ body \in Bodies /\ down # <<>> /\ down' = Tail(down)
        /\ context'.rxRecord = <<>> /\ server' = server
    BY <1>2, RecordReceived
  <2>2. Head(down) \in Range(down) /\ Range(down') \subseteq Range(down)
    BY <2>1, ReceivedOf
  <2>3. context.rx \in Seq(ProperMessages) /\ body \in Seq(ProperMessages)
    BY <2>1 DEF TypeInv, ProperContexts, Bodies
  <2> HIDE DEF body
  <2>4. Range(context'.rx) = Range(context.rx) \cup Range(body)
    BY <2>1, <2>3, ConcatOf
  <2>5. Range(context'.rxRecord) = {}
    BY <2>1 DEF Range
  <2>6. Range(body) \subseteq Falling
    BY <2>2 DEF Falling, body
  <2> QED BY <2>1, <2>2, <2>4, <2>5, <2>6 DEF Falling
<1> QED BY <1>1, <1>2

LEMMA RefusedOnward ==
    ASSUME TypeInv, Refused
    PROVE  Onward /\ ClientSide
<1>1. Range(context'.rx) \subseteq Range(context.rx)
  BY DropOf DEF Refused, TypeInv, ProperContexts
<1>2. call \notin Last
  BY DEF Refused, Last
<1> QED BY <1>1, <1>2, FallingShrinks, OnwardOver DEF Refused, ClientSide, Over

LEMMA HandshakeOnward ==
    ASSUME TypeInv, CallInv, HandshakeStep
    PROVE  Onward /\ ClientSide
<1> USE DEF ClientStates, Over, BeforeHello
<1>1. CASE InitHandshake
  <2>1. /\ context' = [context EXCEPT !.state = "CLIENT_HELLO"] /\ call = "connect" /\ context.state = "INIT"
        /\ UNCHANGED <<call, written, link, down, server, cache, conn>>
    BY <1>1 DEF InitHandshake, caller, net, world, count
  <2>2. /\ context'.state = "CLIENT_HELLO"
        /\ UNCHANGED <<context.sessionId, context.resume, context.masterSecret, context.rx, context.rxRecord>>
    BY <2>1 DEF TypeInv, ProperContexts
  <2> QED BY <2>1, <2>2, FallingKept DEF Onward, ClientSide, FinishedSent, Awaiting, Last
<1>2. CASE FlushPending
  <2>1. /\ call = "connect" /\ call' \in {call, "failed"}
        /\ \/ context'.state = context.state
           \/ context'.state = "CLOSED" /\ call' = "failed"
        /\ UNCHANGED context.masterSecret
        /\ Untouched /\ Elsewhere
    BY <1>2, Flushed
  <2>2. Falling' \subseteq Falling
    BY <2>1, FallingKept DEF Untouched, Elsewhere
  <2> QED BY <2>1, <2>2, OnwardKept, OnwardOver DEF ClientSide, Untouched, Elsewhere, Last
<1>3. CASE SendClientHello
  BY <1>3, ClientHelloSent, OnwardSent
<1>4. CASE SendCertificate
  <2>1. conn > 0
    BY <1>4 DEF SendCertificate, Proceed, InTurnToSend, CallInv
  <2> QED BY <1>4, <2>1, CertificateSent, OnwardSent
<1>5. CASE SendClientKeyExchange
  BY <1>5, ClientKeyExchangeSent, OnwardSent
<1>6. CASE SendCertificateVerify
  BY <1>6, CertificateVerifySent, OnwardSent
<1>7. CASE SendChangeCipherSpec
  BY <1>7, ChangeCipherSpecSent, OnwardSent
<1>8. CASE SendFinished
  BY <1>8, FinishedSentOf, OnwardSent
<1>9. CASE ParseServerHello
  <2>1. context'.state \notin BeforeHello /\ ~FinishedSent /\ context.state # "APPLICATION_DATA"
    BY <1>9, ServerHelloParsed DEF FinishedSent, Awaiting
  <2> QED BY <1>9, <2>1, ServerHelloParsed, OnwardParsed
<1>10. CASE ParseCertificate
  BY <1>10, MessagesParsed, OnwardParsed DEF Moved, FinishedSent, Awaiting
<1>11. CASE ParseServerKeyExchange
  BY <1>11, MessagesParsed, OnwardParsed DEF Moved, FinishedSent, Awaiting
<1>12. CASE ParseCertificateRequest
  BY <1>12, MessagesParsed, OnwardParsed DEF Moved, FinishedSent, Awaiting
<1>13. CASE ParseServerHelloDone
  BY <1>13, MessagesParsed, OnwardParsed DEF Moved, FinishedSent, Awaiting
<1>14. CASE ParseFinished
  <2>1. /\ context.state = "SERVER_FINISHED"
        /\ context'.state = IF context.resume THEN "CLIENT_CHANGE_CIPHER_SPEC" ELSE "APPLICATION_DATA"
        /\ Parsed("Finished") /\ UNCHANGED context.resume
    BY <1>14, MessagesParsed DEF Moved
  <2>2. FinishedSent => FinishedSent'
    BY <2>1 DEF FinishedSent, Awaiting
  <2> QED BY <2>1, <2>2, OnwardParsed
<1>15. CASE ParseHelloRequest
  BY <1>15, MessagesParsed, OnwardParsed DEF Moved, FinishedSent
<1>16. CASE ParseChangeCipherSpec
  BY <1>16, ChangeCipherSpecParsed, OnwardParsed DEF FinishedSent, Awaiting
<1>17. CASE Established
  <2>1. /\ call = "connect" /\ UNCHANGED <<context, written, link, down, server, cache, conn>>
    BY <1>17 DEF Established, net, world, count
  <2> QED BY <2>1, OnwardKept, FallingKept DEF ClientSide, Last
<1>18. CASE HandshakeFailed
  <2>1. /\ call' = "failed" /\ UNCHANGED <<context, written, link, down, server, cache, conn>>
    BY <1>18 DEF HandshakeFailed, net, world, count
  <2> QED BY <2>1, OnwardKept, FallingKept DEF ClientSide, Last
<1> QED BY <1>1, <1>2, <1>3, <1>4, <1>5, <1>6, <1>7, <1>8, <1>9, <1>10, <1>11, <1>12, <1>13,
           <1>14, <1>15, <1>16, <1>17, <1>18 DEF HandshakeStep

LEMMA RecordOnward ==
    ASSUME TypeInv, CallInv, ShapeInv, RecordStep
    PROVE  Onward /\ ClientSide
<1>1. CASE ReceiveHeader
  <2>1. UNCHANGED <<context.state, context.sessionId, context.resume, context.masterSecret>>
    BY <1>1 DEF ReceiveHeader, TypeInv, ProperContexts
  <2>2. UNCHANGED <<call, written, link, server, cache, conn>>
    BY <1>1 DEF ReceiveHeader, caller, world, count
  <2> QED BY <1>1, <2>1, <2>2, OnwardKept, FallingReceived DEF ClientSide
<1>2. CASE ReceiveRecord
  BY <1>2, RecordReceived, OnwardKept, FallingReceived DEF ClientSide
<1>3. CASE ReceiveBadRecord
  BY <1>3, BadRecordRefused, RefusedOnward
<1>4. CASE ReceiveFails
  <2>1. /\ context'.state = "CLOSED"
        /\ UNCHANGED <<context.resume, context.masterSecret, context.rx, context.rxRecord>>
    BY <1>4 DEF ReceiveFails, TypeInv, ProperContexts
  <2>2. call' = "failed" /\ UNCHANGED <<written, link, down, server, cache, conn>>
    BY <1>4 DEF ReceiveFails, net, world, count
  <2> QED BY <2>1, <2>2, OnwardOver, FallingKept DEF ClientSide, Last, Over
<1>5. CASE ParseAlert
  <2>1. PICK name : Parsed(name)
    BY <1>5, AlertParsed
  <2>2. CASE context'.state \in Over
    <3>1. UNCHANGED context.resume /\ context'.state \notin BeforeHello /\ FinishedSent'
      BY <1>5, <2>2, AlertParsed DEF Over, BeforeHello, FinishedSent
    <3> QED BY <2>1, <2>2, <3>1, OnwardParsed
  <2>3. CASE context'.state \notin Over
    <3>1. /\ context'.state = context.state /\ context.state # "APPLICATION_DATA"
          /\ UNCHANGED <<context.sessionId, context.resume>>
      BY <1>5, <2>3, AlertParsed DEF Over
    <3>2. FinishedSent => FinishedSent'
      BY <3>1 DEF FinishedSent
    <3> QED BY <2>1, <3>1, <3>2, OnwardParsed
  <2> QED BY <2>2, <2>3
<1>6. CASE ParseData
  <2>1. Range(context'.rx) \subseteq Range(context.rx)
    <3>1. context.rx \in Seq(ProperMessages)
      BY DEF TypeInv, ProperContexts
    <3> QED BY <1>6, <3>1, DataParsed, DropOf
  <2>2. /\ UNCHANGED <<context.rxRecord, context.state, context.sessionId, context.resume,
                       context.masterSecret, written, conn, link, down, server, cache>>
        /\ call = "read"
    BY <1>6, DataParsed
  <2> QED BY <2>1, <2>2, OnwardKept, FallingShrinks DEF ClientSide, Last
<1>7. CASE ParseRefused \/ RefuseRenegotiation
  BY <1>7, MessageRefused, RefusedOnward
<1>8. CASE CallEnds
  <2>1. call \in {"read", "write"} /\ UNCHANGED <<context, written, link, down, server, cache, conn>>
    BY <1>8 DEF CallEnds, net, world, count
  <2> QED BY <2>1, OnwardKept, FallingKept DEF ClientSide, Last
<1> QED BY <1>1, <1>2, <1>3, <1>4, <1>5, <1>6, <1>7, <1>8 DEF RecordStep

LEMMA CallerOnward ==
    ASSUME TypeInv, CallInv, CallerStep, ~Open, ~Close
    PROVE  Onward /\ ClientSide
<1>1. ASSUME NEW n \in 1 .. 2, StartWrite(n)
      PROVE  Onward /\ ClientSide
  <2>1. call = "none" /\ UNCHANGED <<context, written, link, down, server, cache, conn>>
    BY <1>1 DEF StartWrite, net, world, count
  <2> QED BY <2>1, OnwardKept, FallingKept DEF ClientSide, Last
<1>2. CASE WriteData
  <2>1. /\ call = "write" /\ context.state = "APPLICATION_DATA"
        /\ UNCHANGED context.masterSecret /\ Untouched
        /\ context'.state \in {"APPLICATION_DATA", "CLOSED"}
        /\ written' \in {written, written + 1}
        /\ UNCHANGED <<link, down, server, cache, conn>>
    BY <1>2, DataWritten DEF CountWritten
  <2>2. Falling' \subseteq Falling
    BY <2>1, FallingKept DEF Untouched
  <2> QED BY <2>1, <2>2 DEF Onward, ClientSide, Untouched, Last, BeforeHello, FinishedSent, Over
<1>3. CASE StartRead
  <2>1. call = "none" /\ UNCHANGED <<context, written, link, down, server, cache, conn>>
    BY <1>3 DEF StartRead, net, world, count
  <2> QED BY <2>1, OnwardKept, FallingKept DEF ClientSide, Last
<1>4. CASE ReadTimeout
  <2>1. call = "read" /\ UNCHANGED <<context, written, link, down, server, cache, conn>>
    BY <1>4 DEF ReadTimeout, net, world, count
  <2> QED BY <2>1, OnwardKept, FallingKept DEF ClientSide, Last
<1>5. CASE StartShutdown
  <2>1. /\ context'.state = "CLOSING"
        /\ UNCHANGED <<context.resume, context.masterSecret, context.rx, context.rxRecord>>
    BY <1>5 DEF StartShutdown, TypeInv, ProperContexts
  <2>2. call' = "shutdown" /\ UNCHANGED <<written, link, down, server, cache, conn>>
    BY <1>5 DEF StartShutdown, net, world, count
  <2> QED BY <2>1, <2>2, OnwardOver, FallingKept DEF ClientSide, Last, Over
<1>6. CASE SendCloseNotify
  <2>1. context'.state \in Over
    BY <1>6, CloseNotifySent DEF CallInv, Over
  <2>2. call' \in Last
    BY <1>6, CloseNotifySent DEF Last
  <2>3. UNCHANGED <<context.resume, context.masterSecret, context.rx, context.rxRecord,
                    written, link, down, server, cache, conn>>
    BY <1>6, CloseNotifySent
  <2> QED BY <2>1, <2>2, <2>3, OnwardOver, FallingKept DEF ClientSide
<1> QED BY <1>1, <1>2, <1>3, <1>4, <1>5, <1>6 DEF CallerStep

LEMMA ServerSideServed ==
    ASSUME Served, link # "none",
           server.phase # "hello" => server'.phase # "hello" /\ UNCHANGED <<server.resume, server.id>>
    PROVE  ServerSide
  BY DEF Served, ServerSide

LEMMA ServerOnward ==
    ASSUME TypeInv, CallInv, ServerStep \/ SendData \/ CloseNotify
    PROVE  ServerSide
<1>1. CASE AnswerFull
  BY <1>1, AnsweredFull, TookLinked, ServerSideServed DEF Took
<1>2. CASE AnswerResumed
  BY <1>2, AnsweredResumed, TookLinked, ServerSideServed DEF Took
<1>3. CASE TakeMessage
  BY <1>3, MessageTaken, TookLinked, ServerSideServed DEF Took
<1>4. CASE TakeChangeCipherSpec
  BY <1>4, ChangeCipherSpecTaken, TookLinked, ServerSideServed DEF Took
<1>5. CASE TakeFinished
  BY <1>5, FinishedTaken, TookLinked, ServerSideServed DEF Took
<1>6. CASE TakeData
  BY <1>6, DataTaken, TookLinked, ServerSideServed DEF Took
<1>7. CASE TakeAlert
  BY <1>7, AlertTaken, TookLinked, ServerSideServed DEF Took
<1>8. CASE ServerRefuses
  <2>1. up # <<>>
    BY <1>8 DEF ServerRefuses
  <2> QED BY <1>8, <2>1, ServerRefused, PhaseLinked, ServerSideServed
<1>9. CASE ServerSends
  BY <1>9, ServerSent, PhaseLinked, ServerSideServed
<1>10. CASE ServerEnds
  BY <1>10, PhaseLinked DEF ServerEnds, caller, world, count, ServerSide
<1>11. CASE SendData
  BY <1>11, DataSent, PhaseLinked, ServerSideServed
<1>12. CASE CloseNotify
  BY <1>12, CloseNotifySaid, PhaseLinked, ServerSideServed
<1> QED BY <1>1, <1>2, <1>3, <1>4, <1>5, <1>6, <1>7, <1>8, <1>9, <1>10, <1>11, <1>12 DEF ServerStep

LEMMA TroubleOnward ==
    ASSUME TypeInv, CallInv, Trouble
    PROVE  (Onward /\ ClientSide) \/ ServerSide
<1>1. CASE Reject
  BY <1>1, Rejected, TookLinked, ServerSideServed DEF Took, Trouble
<1>2. CASE AskAgain
  BY <1>2, AskedAgain, PhaseLinked, ServerSideServed
<1>3. CASE Reset
  BY <1>3, WasReset DEF ServerSide
<1>4. CASE Damage
  <2>1. up # <<>> \/ down # <<>>
    BY <1>4 DEF Damage, Damageable
  <2> QED BY <1>4, <2>1, PhaseLinked DEF Damage, Fault, caller, world, ServerSide
<1>5. CASE ElementFails
  BY <1>5, ElementRefused, RefusedOnward
<1>6. CASE ConnectTimeout
  <2>1. call' = "failed" /\ UNCHANGED <<context, written, link, down, server, cache, conn>>
    BY <1>6 DEF ConnectTimeout, Fault, net, world
  <2> QED BY <1>6, <2>1, OnwardKept, FallingKept DEF ClientSide, Last
<1> QED BY <1>1, <1>2, <1>3, <1>4, <1>5, <1>6 DEF Trouble

\* Every step is one of the client, of the server, or opens or closes a connection.
LEMMA OnwardStep ==
    ASSUME TypeInv, CallInv, ShapeInv, [Next]_vars
    PROVE  \/ Open \/ Close
           \/ Onward /\ ClientSide
           \/ Onward /\ ServerSide
<1>1. CASE UNCHANGED vars
  <2>1. UNCHANGED <<context, call, written, link, down, server, cache, conn>>
    BY <1>1 DEF vars
  <2> QED BY <2>1, OnwardKept, FallingKept DEF ClientSide, Last
<1> QED BY <1>1, HandshakeOnward, RecordOnward, CallerOnward, ServerOnward, TroubleOnward,
           ServerSideOnward DEF Next

-----------------------------------------------------------------------------
(* Sessions *)

LEMMA StepCache ==
    ASSUME TypeInv, CallInv, ShapeInv, ContextInv, ServerInv, CacheInv, [Next]_vars
    PROVE  CacheInv'
<1>1. /\ conn' \in {conn, conn + 1} /\ conn \in Nat
  <2>1. conn \in Nat
    BY DEF TypeInv, Numbers
  <2>2. Open => conn' = conn + 1
    BY DEF Open
  <2>3. Close => conn' = conn
    BY DEF Close
  <2> QED BY <2>1, <2>2, <2>3, OnwardStep DEF Onward, ServerSide
<1>2. /\ server.id \in Numbers /\ server.secret \in Numbers /\ cache \subseteq Numbers \X Numbers
      /\ session \in Sessions
  BY DEF TypeInv, ProperServers
<1>3. CASE session' = session /\ cache' \subseteq cache
  BY <1>1, <1>2, <1>3 DEF CacheInv, Numbers, Sessions
<1>4. CASE Established
  <2>1. /\ context.state = "APPLICATION_DATA" /\ link # "none"
        /\ session' = IF context.sessionId = Nothing THEN NoSession
                      ELSE [id |-> context.sessionId, secret |-> context.masterSecret]
        /\ cache' = cache /\ conn' = conn
    BY <1>4 DEF Established, CallInv, FreshContext, world, count
  <2>2. context.sessionId = server.id /\ context.resume = server.resume
    BY <2>1 DEF ContextInv, BeforeHello, Over
  <2>3. context.sessionId # Nothing => context.sessionId = context.masterSecret
    BY <2>1, <2>2 DEF ContextInv, ServerInv, Over
  <2>4. context.sessionId <= conn
    BY <2>2 DEF ServerInv
  <2> QED BY <1>1, <2>1, <2>3, <2>4 DEF CacheInv, NoSession, Nothing
<1>5. CASE TakeFinished
  <2>1. /\ session' = session /\ conn' = conn
        /\ cache' = IF server.resume \/ server.id = Nothing THEN cache
                    ELSE cache \cup {<<server.id, server.secret>>}
        /\ server.phase = "handshake" /\ InTurn(Arriving) /\ Arriving.name = "Finished"
        /\ link # "none"
    BY <1>5, FinishedTaken, TookLinked DEF Took, Served
  <2>2. server.expects \in Ends
    BY <2>1 DEF InTurn, ServerInv, Expectations, KeyKnown, Ends
  <2>3. ~server.resume /\ server.id # Nothing => server.id = conn /\ server.secret = conn
    BY <2>1, <2>2 DEF ServerInv, KeyKnown
  <2>4. conn \in 1 .. conn
    BY <1>1, <2>1 DEF CallInv
  <2> QED BY <2>1, <2>3, <2>4 DEF CacheInv
<1>6. (session' = session /\ cache' \subseteq cache) \/ Established \/ TakeFinished
  <2>1. CASE UNCHANGED vars
    BY <2>1 DEF vars
  <2>2. CASE HandshakeStep
    <3>1. CASE Established
      BY <3>1
    <3>2. CASE InitHandshake
      BY <3>2 DEF InitHandshake, world
    <3>3. CASE FlushPending
      BY <3>3 DEF FlushPending, world
    <3>4. CASE \/ SendClientHello \/ SendCertificate \/ SendClientKeyExchange
               \/ SendCertificateVerify \/ SendChangeCipherSpec \/ SendFinished
      BY <3>4 DEF SendClientHello, SendCertificate, SendClientKeyExchange, SendCertificateVerify,
                  SendChangeCipherSpec, SendFinished, Proceed, ProceedAnyway, InTurnToSend, world
    <3>5. CASE \/ ParseServerHello \/ ParseCertificate \/ ParseServerKeyExchange
               \/ ParseCertificateRequest \/ ParseServerHelloDone \/ ParseFinished \/ ParseHelloRequest
      BY <3>5 DEF ParseServerHello, ParseCertificate, ParseServerKeyExchange, ParseCertificateRequest,
                  ParseServerHelloDone, ParseFinished, ParseHelloRequest, Parse, world
    <3>6. CASE ParseChangeCipherSpec
      BY <3>6 DEF ParseChangeCipherSpec, world
    <3>7. CASE HandshakeFailed
      BY <3>7 DEF HandshakeFailed, world
    <3> QED BY <2>2, <3>1, <3>2, <3>3, <3>4, <3>5, <3>6, <3>7 DEF HandshakeStep
  <2>3. CASE RecordStep
    BY <2>3 DEF RecordStep, ReceiveHeader, ReceiveRecord, ReceiveBadRecord, ReceiveFails, ParseAlert,
                ParseData, ParseRefused, RefuseRenegotiation, CallEnds, world
  <2>4. CASE CallerStep
    BY <2>4 DEF CallerStep, Open, StartWrite, WriteData, StartRead, ReadTimeout, StartShutdown,
                SendCloseNotify, Close, world
  <2>5. CASE ServerStep \/ SendData \/ CloseNotify
    <3>1. session' = session
      BY <2>5, ServerOnward DEF ServerSide
    <3>2. CASE \/ AnswerFull \/ AnswerResumed \/ TakeMessage \/ TakeChangeCipherSpec \/ TakeData
               \/ ServerSends \/ ServerEnds \/ SendData \/ CloseNotify
      BY <3>1, <3>2 DEF AnswerFull, AnswerResumed, TakeMessage, TakeChangeCipherSpec, TakeData,
                        ServerSends, ServerEnds, SendData, CloseNotify, world
    <3>3. CASE TakeAlert \/ ServerRefuses
      BY <3>1, <3>3, AlertTaken, ServerRefused
    <3> QED BY <2>5, <3>2, <3>3 DEF ServerStep
  <2>6. CASE Trouble
    BY <2>6 DEF Trouble, Reject, Arrives, AskAgain, Reset, Damage, ElementFails, ConnectTimeout, world
  <2> QED BY <2>1, <2>2, <2>3, <2>4, <2>5, <2>6 DEF Next
<1> QED BY <1>3, <1>4, <1>5, <1>6

-----------------------------------------------------------------------------
(* The engine of the client *)

LEMMA EngineKept ==
    ASSUME EngineInv,
           UNCHANGED <<context.state, context.resume, context.encryption, context.masterSecret,
                       context.closeNotifySent, written>>,
           Pending' = Pending, call' = "shutdown" => call = "shutdown"
    PROVE  EngineInv'
  BY DEF EngineInv

LEMMA EngineOver ==
    ASSUME context'.state \in Over, call' # "shutdown" \/ context'.closeNotifySent
    PROVE  EngineInv'
  BY DEF EngineInv, Over, BeforeHello, OnlyFull, Awaiting

\* Before the client sends its ChangeCipherSpec nothing is protected.
LEMMA EngineClear ==
    ASSUME call' # "shutdown", context'.encryption = NoEngine,
           \/ context'.state \in BeforeHello \cup OnlyFull \cup {"CLIENT_CHANGE_CIPHER_SPEC"}
           \/ context'.resume /\ context'.state \in Awaiting
    PROVE  EngineInv'
  BY DEF EngineInv, BeforeHello, OnlyFull, Awaiting

LEMMA AdvanceClear == Advance(NoEngine) = NoEngine
  BY DEF Advance, NoEngine

LEMMA SecretKnown ==
    ASSUME TypeInv, CallInv, ContextInv, link # "none",
           context.state \in Sending \cup Awaiting \cup {"APPLICATION_DATA"}
    PROVE  context.masterSecret # Nothing /\ context.masterSecret \in Nat /\ context.encryption \in Engines
<1>1. context.masterSecret \in Nat /\ context.encryption \in Engines /\ conn > 0
  BY DEF TypeInv, ProperContexts, Numbers, CallInv
<1> QED BY <1>1 DEF ContextInv, Sending, Awaiting, Over, Nothing

LEMMA AdvanceKeyed ==
    ASSUME NEW e \in Engines, e.secret # Nothing
    PROVE  Advance(e) = [secret |-> e.secret, seqNum |-> e.seqNum + 1]
  BY DEF Advance, Engines

LEMMA HandshakeEngine ==
    ASSUME TypeInv, CallInv, EngineInv, ContextInv, HandshakeStep
    PROVE  EngineInv'
<1> USE DEF BeforeHello, OnlyFull, Awaiting
<1>1. CASE InitHandshake
  <2>1. /\ context' = [context EXCEPT !.state = "CLIENT_HELLO"] /\ call' = "connect"
        /\ context.state = "INIT"
    BY <1>1 DEF InitHandshake, caller
  <2>2. context'.state = "CLIENT_HELLO" /\ context'.encryption = context.encryption
    BY <2>1 DEF TypeInv, ProperContexts
  <2> QED BY <2>1, <2>2, EngineClear DEF EngineInv
<1>2. CASE FlushPending
  <2>1. /\ call = "connect" /\ call' \in {call, "failed"}
        /\ \/ context'.state = context.state
           \/ context'.state = "CLOSED" /\ call' = "failed"
        /\ UNCHANGED <<context.encryption, context.masterSecret, context.resume, context.closeNotifySent, written>>
    BY <1>2, Flushed DEF Untouched, Elsewhere
  <2>2. Pending' = Pending /\ call' # "shutdown"
    BY <2>1 DEF Pending
  <2> QED BY <2>1, <2>2, EngineKept, EngineOver DEF Over
<1>3. ASSUME NEW from, NEW to, NEW m, Sent(from, to, m), context'.encryption = NoEngine,
             to \in BeforeHello \cup OnlyFull \cup {"CLIENT_CHANGE_CIPHER_SPEC"}
      PROVE  EngineInv'
  <2>1. /\ call' \in {"connect", "failed"}
        /\ context'.state = to \/ context'.state = "CLOSED"
    BY <1>3 DEF Sent
  <2> QED BY <1>3, <2>1, EngineClear, EngineOver DEF Over
<1>4. CASE SendClientHello
  <2>1. context.encryption = NoEngine
    BY <1>4, ClientHelloSent DEF Sent, EngineInv
  <2> QED BY <1>3, <1>4, <2>1, ClientHelloSent, AdvanceClear
<1>5. CASE SendCertificate
  <2>1. conn > 0
    BY <1>5 DEF SendCertificate, Proceed, InTurnToSend, CallInv
  <2>2. PICK id \in Numbers :
             Sent("CLIENT_CERTIFICATE", "CLIENT_KEY_EXCHANGE", Message("Certificate", id, <<>>))
    BY <1>5, <2>1, CertificateSent
  <2>3. context.encryption = NoEngine
    BY <2>2 DEF Sent, EngineInv
  <2> QED BY <1>3, <1>5, <2>1, <2>2, <2>3, CertificateSent, AdvanceClear
<1>6. CASE SendClientKeyExchange
  <2>1. context.encryption = NoEngine
    BY <1>6, ClientKeyExchangeSent DEF Sent, EngineInv
  <2> QED BY <1>3, <1>6, <2>1, ClientKeyExchangeSent, AdvanceClear
<1>7. CASE SendCertificateVerify
  <2>1. PICK hash \in Transcripts :
             Sent("CLIENT_CERTIFICATE_VERIFY", "CLIENT_CHANGE_CIPHER_SPEC",
                  Message("CertificateVerify", Nothing, hash))
    BY <1>7, CertificateVerifySent
  <2>2. context.encryption = NoEngine
    BY <2>1 DEF Sent, EngineInv
  <2> QED BY <1>3, <1>7, <2>1, <2>2, CertificateVerifySent, AdvanceClear
<1>8. CASE SendChangeCipherSpec
  <2>1. /\ call' \in {"connect", "failed"}
        /\ context'.state = "CLIENT_FINISHED" \/ context'.state = "CLOSED"
        /\ context'.encryption = Engine(context'.masterSecret)
    BY <1>8, ChangeCipherSpecSent DEF Sent
  <2> QED BY <2>1, EngineOver DEF EngineInv, Over
<1>9. CASE SendFinished
  <2>1. /\ context.state = "CLIENT_FINISHED" /\ call = "connect" /\ call' \in {"connect", "failed"}
        /\ \/ context'.state = IF context.resume THEN "APPLICATION_DATA" ELSE "SERVER_CHANGE_CIPHER_SPEC"
           \/ context'.state = "CLOSED"
        /\ UNCHANGED <<context.resume, context.masterSecret, written>>
        /\ context'.encryption = Advance(context.encryption)
    BY <1>9, FinishedSentOf DEF Sent, Untouched, Elsewhere
  <2>2. link # "none" /\ written = 0
    BY <2>1 DEF CallInv, Over
  <2>3. context'.encryption = [secret |-> context'.masterSecret, seqNum |-> 1]
    <3>1. context.encryption = Engine(context.masterSecret)
      BY <2>1 DEF EngineInv
    <3>2. context.masterSecret # Nothing /\ context.encryption \in Engines
      BY <2>1, <2>2, SecretKnown DEF Sending
    <3> QED BY <2>1, <3>1, <3>2, AdvanceKeyed DEF Engine
  <2>4. ~Pending'
    BY <2>1 DEF Pending
  <2> QED BY <2>1, <2>2, <2>3, <2>4, EngineOver DEF EngineInv, Over
<1>10. CASE ParseServerHello
  <2>1. /\ call' = call /\ context.state = "SERVER_HELLO" /\ context'.encryption = context.encryption
        /\ context'.state = IF context'.resume THEN "SERVER_CHANGE_CIPHER_SPEC" ELSE "SERVER_CERTIFICATE"
    BY <1>10, ServerHelloParsed DEF Parsed, Idle
  <2>2. call # "shutdown"
    BY <2>1 DEF CallInv, Over
  <2> QED BY <2>1, <2>2, EngineClear DEF EngineInv
<1>11. ASSUME NEW name, NEW to, Moved(name, to)
       PROVE  /\ call' = call /\ call \in {"connect", "read"} /\ context'.state = to
              /\ UNCHANGED <<context.encryption, context.masterSecret, context.resume, context.closeNotifySent,
                             context.tx, written>>
              /\ Pending' = Pending
  BY <1>11, ReadyState DEF Moved, Parsed, Idle, Pending
<1>12. ASSUME NEW name, NEW to \in OnlyFull, Moved(name, to), context.state \in OnlyFull
       PROVE  EngineInv'
  BY <1>11, <1>12, EngineClear DEF EngineInv
<1>13. CASE ParseCertificate
  BY <1>12, <1>13, MessagesParsed
<1>14. CASE ParseServerKeyExchange
  BY <1>12, <1>14, MessagesParsed
<1>15. CASE ParseCertificateRequest
  BY <1>12, <1>15, MessagesParsed
<1>16. CASE ParseServerHelloDone
  BY <1>12, <1>16, MessagesParsed
<1>17. CASE ParseFinished
  <2>1. /\ context.state = "SERVER_FINISHED"
        /\ Moved("Finished", IF context.resume THEN "CLIENT_CHANGE_CIPHER_SPEC" ELSE "APPLICATION_DATA")
    BY <1>17, MessagesParsed
  <2>2. CASE context.resume
    BY <1>11, <2>1, <2>2, EngineClear DEF EngineInv
  <2>3. CASE ~context.resume
    <3>1. context'.state = "APPLICATION_DATA" /\ call' # "shutdown"
      BY <1>11, <2>1, <2>3
    <3>2. /\ UNCHANGED <<context.encryption, context.masterSecret, written>> /\ Pending' = Pending
      BY <1>11, <2>1
    <3> QED BY <2>1, <2>3, <3>1, <3>2 DEF EngineInv
  <2> QED BY <2>2, <2>3
<1>18. CASE ParseHelloRequest
  <2>1. Moved("HelloRequest", context.state)
    BY <1>18, MessagesParsed
  <2> QED BY <1>11, <2>1, EngineKept
<1>19. CASE ParseChangeCipherSpec
  <2>1. /\ context.state = "SERVER_CHANGE_CIPHER_SPEC" /\ context'.state = "SERVER_FINISHED"
        /\ UNCHANGED <<context.encryption, context.masterSecret, context.resume, context.closeNotifySent,
                       context.tx, written, call>>
    BY <1>19, ChangeCipherSpecParsed DEF Parsed, Idle
  <2>2. Pending' = Pending
    BY <2>1 DEF Pending
  <2> QED BY <2>1, <2>2 DEF EngineInv
<1>20. CASE Established \/ HandshakeFailed
  <2>1. call = "connect" /\ call' \in {"none", "failed"} /\ UNCHANGED <<context, written>>
    BY <1>20 DEF Established, HandshakeFailed
  <2> QED BY <2>1, EngineKept DEF Pending
<1> QED BY <1>1, <1>2, <1>4, <1>5, <1>6, <1>7, <1>8, <1>9, <1>10, <1>13, <1>14, <1>15, <1>16,
           <1>17, <1>18, <1>19, <1>20 DEF HandshakeStep

LEMMA StepEngine ==
    ASSUME TypeInv, CallInv, ShapeInv, EngineInv, ContextInv, [Next]_vars
    PROVE  EngineInv'
<1>1. CASE UNCHANGED vars
  BY <1>1, EngineKept DEF vars, Pending
<1>2. CASE HandshakeStep
  BY <1>2, HandshakeEngine
<1>3. ASSUME Refused
      PROVE  EngineInv'
  BY <1>3, EngineOver DEF Refused, Over
<1>4. CASE RecordStep
  <2>1. CASE ReceiveHeader \/ ReceiveRecord
    <3>1. UNCHANGED <<context.state, context.resume, context.encryption, context.masterSecret,
                      context.closeNotifySent, context.tx>>
      BY <2>1, RecordReceived DEF ReceiveHeader, TypeInv, ProperContexts
    <3>2. UNCHANGED <<call, written>>
      BY <2>1, RecordReceived DEF ReceiveHeader, caller
    <3> QED BY <3>1, <3>2, EngineKept DEF Pending
  <2>2. CASE ReceiveBadRecord
    BY <1>3, <2>2, BadRecordRefused
  <2>3. CASE ReceiveFails
    <3>1. context'.state = "CLOSED" /\ call' = "failed"
      BY <2>3 DEF ReceiveFails, TypeInv, ProperContexts
    <3> QED BY <3>1, EngineOver DEF Over
  <2>4. CASE ParseAlert
    <3>1. PICK name : Parsed(name)
      BY <2>4, AlertParsed
    <3>2. /\ call \in {"connect", "read"} /\ call' = call
          /\ UNCHANGED <<context.encryption, context.masterSecret, context.closeNotifySent, written>>
      BY <3>1, ReadyState DEF Parsed, Idle
    <3>3. (context'.state = context.state /\ context'.resume = context.resume) \/ context'.state \in Over
      BY <2>4, AlertParsed DEF Over
    <3> QED BY <3>2, <3>3, EngineKept, EngineOver DEF Pending
  <2>5. CASE ParseData
    <3>1. /\ call = "read" /\ call' = "none"
          /\ UNCHANGED <<context.state, context.resume, context.encryption, context.masterSecret,
                         context.closeNotifySent, written>>
      BY <2>5, DataParsed
    <3> QED BY <3>1, EngineKept DEF Pending
  <2>6. CASE ParseRefused \/ RefuseRenegotiation
    BY <1>3, <2>6, MessageRefused
  <2>7. CASE CallEnds
    <3>1. context'.state \in Over /\ call' # "shutdown"
      BY <2>7 DEF CallEnds, Over
    <3> QED BY <3>1, EngineOver
  <2> QED BY <1>4, <2>1, <2>2, <2>3, <2>4, <2>5, <2>6, <2>7 DEF RecordStep
<1>5. CASE CallerStep
  <2>1. CASE Open \/ Close
    <3>1. /\ context'.state = "INIT" /\ context'.encryption = NoEngine /\ call' # "shutdown"
      BY <2>1 DEF Open, Close, FreshContext
    <3> QED BY <3>1, EngineClear DEF BeforeHello
  <2>2. ASSUME NEW n \in 1 .. 2, StartWrite(n)
        PROVE  EngineInv'
    <3>1. call = "none" /\ call' = "write" /\ link # "none" /\ UNCHANGED <<context, written>>
      BY <2>2 DEF StartWrite
    <3>2. context.state \in Over \/ (context.state = "APPLICATION_DATA" /\ context.tx = <<>>)
      BY <3>1 DEF CallInv
    <3> QED BY <3>1, <3>2, EngineKept, EngineOver DEF Pending
  <2>3. CASE WriteData
    <3>1. /\ call = "write" /\ context.state = "APPLICATION_DATA"
          /\ UNCHANGED <<context.masterSecret, context.resume, context.closeNotifySent>>
          /\ context'.encryption = IF context.tx = <<>> THEN Advance(context.encryption)
                                   ELSE context.encryption
          /\ \/ context'.state = "APPLICATION_DATA" /\ context'.tx = <<>> /\ CountWritten
             \/ context'.state = "APPLICATION_DATA" /\ context'.tx # <<>> /\ UNCHANGED <<call, todo, written>>
             \/ context'.state = "CLOSED" /\ call' = "failed" /\ UNCHANGED <<todo, written>>
      BY <2>3, DataWritten DEF Untouched
    <3>2. link # "none" /\ written \in Nat
      BY <3>1, TlsAssumption DEF CallInv, TypeInv
    <3>3. context'.encryption = [secret |-> context.masterSecret, seqNum |-> written + 2]
      <4>1. context.encryption = [secret |-> context.masterSecret,
                                  seqNum |-> IF context.tx # <<>> THEN written + 2 ELSE written + 1]
        BY <3>1 DEF EngineInv, Pending
      <4>2. context.masterSecret # Nothing /\ context.encryption \in Engines
        BY <3>1, <3>2, SecretKnown
      <4> QED BY <3>1, <3>2, <4>1, <4>2, AdvanceKeyed
    <3>4. CASE context'.state = "APPLICATION_DATA" /\ context'.tx = <<>> /\ CountWritten
      <4>1. written' = written + 1 /\ call' # "shutdown" /\ ~Pending'
        BY <3>4 DEF CountWritten, Pending
      <4> QED BY <3>1, <3>2, <3>3, <3>4, <4>1 DEF EngineInv, BeforeHello, OnlyFull, Awaiting
    <3>5. CASE context'.state = "APPLICATION_DATA" /\ context'.tx # <<>> /\ UNCHANGED <<call, todo, written>>
      <4>1. Pending'
        BY <3>1, <3>5 DEF Pending
      <4> QED BY <3>1, <3>2, <3>3, <3>5, <4>1 DEF EngineInv, BeforeHello, OnlyFull, Awaiting
    <3>6. CASE context'.state = "CLOSED" /\ call' = "failed"
      BY <3>6, EngineOver DEF Over
    <3> QED BY <3>1, <3>4, <3>5, <3>6
  <2>4. CASE StartRead \/ ReadTimeout
    <3>1. call \in {"none", "read"} /\ call' \in {"none", "read"} /\ UNCHANGED <<context, written>>
      BY <2>4 DEF StartRead, ReadTimeout
    <3> QED BY <3>1, EngineKept DEF Pending
  <2>5. CASE StartShutdown
    <3>1. /\ call = "none" /\ call' = "shutdown" /\ context.state = "APPLICATION_DATA"
          /\ context'.state = "CLOSING" /\ written' = written
          /\ UNCHANGED <<context.encryption, context.masterSecret>>
      BY <2>5 DEF StartShutdown, TypeInv, ProperContexts
    <3>2. ~Pending /\ ~Pending'
      BY <3>1 DEF Pending
    <3> QED BY <3>1, <3>2 DEF EngineInv, BeforeHello, OnlyFull, Awaiting
  <2>6. CASE SendCloseNotify
    <3>1. context'.state \in Over /\ context'.closeNotifySent
      BY <2>6, CloseNotifySent DEF CallInv, Over
    <3> QED BY <3>1, EngineOver
  <2> QED BY <1>5, <2>1, <2>2, <2>3, <2>4, <2>5, <2>6 DEF CallerStep
<1>6. ASSUME ServerSide
      PROVE  EngineInv'
  BY <1>6, EngineKept DEF ServerSide, Pending
<1>7. CASE Trouble
  <2>1. CASE ElementFails
    BY <1>3, <2>1, ElementRefused
  <2>2. CASE ConnectTimeout
    <3>1. call = "connect" /\ call' = "failed" /\ UNCHANGED <<context, written>>
      BY <2>2 DEF ConnectTimeout
    <3> QED BY <3>1, EngineKept DEF Pending
  <2>3. CASE Reject \/ AskAgain \/ Reset \/ Damage
    <3>1. UNCHANGED <<context, call, written>>
      BY <2>3 DEF Reject, Arrives, AskAgain, Reset, Damage, caller
    <3> QED BY <3>1, EngineKept DEF Pending
  <2> QED BY <1>7, <2>1, <2>2, <2>3 DEF Trouble
<1> QED BY <1>1, <1>2, <1>4, <1>5, <1>6, <1>7, ServerOnward DEF Next

-----------------------------------------------------------------------------
(* What the client knows *)

LEMMA ContextKept ==
    ASSUME ContextInv, link' = link \/ (link # "none" /\ link' # "none"), conn' = conn,
           UNCHANGED <<context.state, context.resume, context.sessionId, context.masterSecret,
                       context.transcript>>,
           server.phase # "hello" => server'.phase # "hello" /\ UNCHANGED <<server.resume, server.id>>
    PROVE  ContextInv'
  BY DEF ContextInv

LEMMA ContextOver ==
    ASSUME context'.state \in Over
    PROVE  ContextInv'
  BY DEF ContextInv, Over, BeforeHello, OnlyFull, Sending, Awaiting

Keyed == Sending \cup Awaiting \cup {"CLIENT_CERTIFICATE_VERIFY", "APPLICATION_DATA"}

LEMMA ContextMoved ==
    ASSUME ContextInv, link # "none", UNCHANGED <<link, server, conn, context.resume, context.sessionId>>,
           context.state \notin BeforeHello \cup Over, context'.state \notin BeforeHello,
           context'.transcript # <<>>,
           context'.state \in OnlyFull => context.state \in OnlyFull,
           \/ context'.masterSecret = context.masterSecret
           \/ ~context.resume /\ context'.masterSecret = conn,
           ~context.resume /\ context'.state \in Keyed => context'.masterSecret = conn
    PROVE  ContextInv'
  BY DEF ContextInv, Keyed

LEMMA ContextSent ==
    ASSUME CallInv, ContextInv, NEW from \in ClientStates, NEW to, to \notin BeforeHello,
           NEW m, Sent(from, to, m),
           from # "CLIENT_HELLO",
           context.transcript # <<>> => context'.transcript # <<>>,
           to \in OnlyFull => from \in OnlyFull,
           \/ context'.masterSecret = context.masterSecret /\ (to \in Keyed => from \in Keyed)
           \/ from \in OnlyFull /\ context'.masterSecret = conn
    PROVE  ContextInv'
<1> USE DEF BeforeHello, Over, ClientStates
<1>1. /\ context.state = from /\ context'.state \in {to, "CLOSED"}
      /\ UNCHANGED <<context.resume, context.sessionId, link, server, conn>>
  BY DEF Sent, Untouched, Elsewhere
<1>2. link # "none"
  BY DEF Sent, CallInv
<1>3. context'.state = to => ContextInv'
  <2>1. SUFFICES ASSUME context'.state = to
                 PROVE  ContextInv'
    OBVIOUS
  <2>2. context'.transcript # <<>>
    BY <1>1, <1>2 DEF ContextInv
  <2>3. from \in OnlyFull => ~context.resume
    BY <1>1 DEF ContextInv
  <2>4. ~context.resume /\ to \in Keyed => context'.masterSecret = conn
    BY <1>1 DEF ContextInv, Keyed
  <2> QED BY <1>1, <1>2, <2>1, <2>2, <2>3, <2>4, ContextMoved
<1> QED BY <1>1, <1>3, ContextOver

LEMMA ContextParsed ==
    ASSUME TypeInv, CallInv, ContextInv, NEW name, NEW to, Moved(name, to),
           \/ to = context.state
           \/ /\ context.state \notin BeforeHello /\ to \notin BeforeHello
              /\ to \in OnlyFull => context.state \in OnlyFull
              /\ to \in Keyed => context.state \in Keyed
    PROVE  ContextInv'
<1>1. /\ link # "none" /\ context.state \notin Over
      /\ UNCHANGED <<link, server, conn, context.resume, context.sessionId, context.masterSecret>>
      /\ context'.state = to
  BY ReadyState DEF Moved, Parsed, Idle, Live
<1>2. CASE context.state \in BeforeHello
  <2>1. context'.transcript = context.transcript
    BY <1>1, <1>2 DEF ContextInv, Moved
  <2> QED BY <1>1, <1>2, <2>1, ContextKept
<1>3. CASE context.state \notin BeforeHello
  <2>1. context'.transcript # <<>>
    BY <1>1, <1>3 DEF ContextInv, Moved
  <2>2. ~context.resume /\ to \in Keyed => context.masterSecret = conn
    BY <1>1 DEF ContextInv, Keyed
  <2> QED BY <1>1, <1>3, <2>1, <2>2, ContextMoved
<1> QED BY <1>2, <1>3

\* The messages that the client takes are those that are on their way.
LEMMA IncomingOf ==
    ASSUME TypeInv, DownInv, Ready
    PROVE  Incoming \in ProperMessages /\ GoodDown(Incoming)
<1>1. /\ Incoming \in ProperMessages
      /\ Head(context.rx) \in Range(context.rx)
      /\ Incoming.name = Head(context.rx).name /\ Incoming.id = Head(context.rx).id
      /\ Incoming.hash = Head(context.rx).hash
  BY TakenOf
<1>2. GoodDown(Head(context.rx))
  BY <1>1 DEF DownInv, Falling
<1> QED BY <1>1, <1>2 DEF GoodDown, FinishedOf

LEMMA HandshakeContext ==
    ASSUME TypeInv, CallInv, ContextInv, ServerInv, DownInv, HandshakeStep
    PROVE  ContextInv'
<1> USE DEF ClientStates, BeforeHello, OnlyFull, Keyed, Sending, Awaiting
<1>1. CASE InitHandshake
  <2>1. /\ context' = [context EXCEPT !.state = "CLIENT_HELLO"] /\ context.state = "INIT"
        /\ UNCHANGED <<link, server, conn>>
    BY <1>1 DEF InitHandshake, net, world, count
  <2>2. /\ context'.state = "CLIENT_HELLO"
        /\ UNCHANGED <<context.resume, context.sessionId, context.masterSecret, context.transcript>>
    BY <2>1 DEF TypeInv, ProperContexts
  <2> QED BY <2>1, <2>2 DEF ContextInv, Over
<1>2. CASE FlushPending
  <2>1. /\ context'.state \in {context.state, "CLOSED"}
        /\ UNCHANGED <<context.masterSecret, context.transcript, context.resume, context.sessionId,
                       link, server, conn>>
    BY <1>2, Flushed DEF Untouched, Elsewhere
  <2> QED BY <2>1, ContextKept, ContextOver DEF Over
<1>3. CASE SendClientHello
  <2>1. /\ context.state = "CLIENT_HELLO" /\ context'.state \in {"SERVER_HELLO", "CLOSED"}
        /\ context.transcript = <<>> => context'.transcript = <<>>
        /\ UNCHANGED <<context.masterSecret, context.resume, context.sessionId, link, server, conn>>
    BY <1>3, ClientHelloSent DEF Sent, Untouched, Elsewhere
  <2> QED BY <2>1, ContextOver DEF ContextInv, Over
<1>4. CASE SendCertificate
  <2>1. conn > 0
    BY <1>4 DEF SendCertificate, Proceed, InTurnToSend, CallInv
  <2> QED BY <1>4, <2>1, CertificateSent, ContextSent
<1>5. CASE SendClientKeyExchange
  BY <1>5, ClientKeyExchangeSent, ContextSent
<1>6. CASE SendCertificateVerify
  BY <1>6, CertificateVerifySent, ContextSent
<1>7. CASE SendChangeCipherSpec
  BY <1>7, ChangeCipherSpecSent, ContextSent
<1>8. CASE SendFinished
  BY <1>8, FinishedSentOf, ContextSent
<1>9. CASE ParseServerHello
  <2>1. /\ Ready /\ Incoming.name = "ServerHello" /\ context.state = "SERVER_HELLO"
        /\ context'.resume = ResumesSession(context, Incoming)
        /\ context'.sessionId = Incoming.id
        /\ context'.state = IF context'.resume THEN "SERVER_CHANGE_CIPHER_SPEC" ELSE "SERVER_CERTIFICATE"
        /\ context'.transcript # <<>>
        /\ UNCHANGED <<context.masterSecret, link, server, conn>>
    BY <1>9, ServerHelloParsed DEF Parsed, Idle
  <2>2. link # "none"
    BY <2>1, ReadyState
  <2>3. Incoming.id = server.id /\ server.phase # "hello"
    BY <2>1, IncomingOf DEF GoodDown
  <2>4. context'.resume = server.resume
    <3>1. server.resume \in BOOLEAN
      BY DEF TypeInv, ProperServers
    <3>2. server.resume <=> server.id # Nothing /\ server.id = context.sessionId
      BY <2>1, <2>3 DEF ServerInv
    <3> QED BY <2>1, <2>3, <3>1, <3>2 DEF ResumesSession
  <2>5. context'.resume => context'.masterSecret = context'.sessionId /\ context'.masterSecret # Nothing
    BY <2>1, <2>2 DEF ResumesSession, ContextInv
  <2> QED BY <2>1, <2>3, <2>4, <2>5 DEF ContextInv, Over
<1>10. CASE ParseCertificate
  BY <1>10, MessagesParsed, ContextParsed
<1>11. CASE ParseServerKeyExchange
  BY <1>11, MessagesParsed, ContextParsed
<1>12. CASE ParseCertificateRequest
  BY <1>12, MessagesParsed, ContextParsed
<1>13. CASE ParseServerHelloDone
  BY <1>13, MessagesParsed, ContextParsed
<1>14. CASE ParseFinished
  BY <1>14, MessagesParsed, ContextParsed
<1>15. CASE ParseHelloRequest
  BY <1>15, MessagesParsed, ContextParsed
<1>16. CASE ParseChangeCipherSpec
  <2>1. /\ context.state = "SERVER_CHANGE_CIPHER_SPEC" /\ context'.state = "SERVER_FINISHED"
        /\ UNCHANGED <<context.resume, context.sessionId, context.masterSecret, context.transcript,
                       link, server, conn>>
    BY <1>16, ChangeCipherSpecParsed DEF Parsed, Idle
  <2> QED BY <2>1 DEF ContextInv, Over
<1>17. CASE Established \/ HandshakeFailed
  <2>1. UNCHANGED <<context, link, server, conn>>
    BY <1>17 DEF Established, HandshakeFailed, net, world, count
  <2> QED BY <2>1, ContextKept
<1> QED BY <1>1, <1>2, <1>3, <1>4, <1>5, <1>6, <1>7, <1>8, <1>9, <1>10, <1>11, <1>12, <1>13, <1>14,
           <1>15, <1>16, <1>17 DEF HandshakeStep

LEMMA StepContext ==
    ASSUME TypeInv, CallInv, ShapeInv, ContextInv, ServerInv, CacheInv, DownInv, [Next]_vars
    PROVE  ContextInv'
<1>1. CASE UNCHANGED vars
  BY <1>1, ContextKept DEF vars
<1>2. CASE HandshakeStep
  BY <1>2, HandshakeContext
<1>3. ASSUME Refused
      PROVE  ContextInv'
  BY <1>3, ContextOver DEF Refused, Over
<1>4. CASE RecordStep
  <2>1. CASE ReceiveHeader \/ ReceiveRecord
    <3>1. UNCHANGED <<context.state, context.resume, context.sessionId, context.masterSecret,
                      context.transcript>>
      BY <2>1, RecordReceived DEF ReceiveHeader, TypeInv, ProperContexts
    <3>2. UNCHANGED <<link, server, conn>>
      BY <2>1, RecordReceived DEF ReceiveHeader, world, count
    <3> QED BY <3>1, <3>2, ContextKept
  <2>2. CASE ReceiveBadRecord
    BY <1>3, <2>2, BadRecordRefused
  <2>3. CASE ReceiveFails
    <3>1. context'.state = "CLOSED"
      BY <2>3 DEF ReceiveFails, TypeInv, ProperContexts
    <3> QED BY <3>1, ContextOver DEF Over
  <2>4. CASE ParseAlert
    <3>1. CASE context'.state \in Over
      BY <3>1, ContextOver
    <3>2. CASE context'.state \notin Over
      <4>1. /\ Parsed("close_notify") /\ context'.state = context.state
            /\ UNCHANGED <<context.sessionId, context.resume, context.transcript>>
        BY <2>4, <3>2, AlertParsed DEF Over
      <4>2. UNCHANGED <<context.masterSecret, link, server, conn>>
        BY <4>1 DEF Parsed, Idle
      <4> QED BY <4>1, <4>2, ContextKept
    <3> QED BY <3>1, <3>2
  <2>5. CASE ParseData
    BY <2>5, DataParsed, ContextKept
  <2>6. CASE ParseRefused \/ RefuseRenegotiation
    BY <1>3, <2>6, MessageRefused
  <2>7. CASE CallEnds
    BY <2>7, ContextKept DEF CallEnds, net, world, count
  <2> QED BY <1>4, <2>1, <2>2, <2>3, <2>4, <2>5, <2>6, <2>7 DEF RecordStep
<1>5. CASE CallerStep
  <2>1. CASE Open
    <3>1. /\ context' = FreshContext(session) /\ conn' = conn + 1
          /\ context'.state = "INIT" /\ context'.transcript = <<>> /\ ~context'.resume
          /\ context'.sessionId = session.id /\ context'.masterSecret = session.secret
      BY <2>1 DEF Open, FreshContext
    <3>2. session.id = session.secret /\ session.id < conn + 1
      BY DEF CacheInv, TypeInv, Sessions, Numbers
    <3> QED BY <3>1, <3>2 DEF ContextInv, BeforeHello, Over, OnlyFull, Sending, Awaiting
  <2>2. CASE Close
    <3>1. link' = "none" /\ context'.state = "INIT" /\ ~context'.resume
      BY <2>2 DEF Close, FreshContext
    <3> QED BY <3>1 DEF ContextInv, Over, OnlyFull, Sending, Awaiting
  <2>3. ASSUME UNCHANGED context, UNCHANGED <<link, server, conn>>
        PROVE  ContextInv'
    BY <2>3, ContextKept
  <2>4. CASE (\E n \in 1 .. 2 : StartWrite(n)) \/ StartRead \/ ReadTimeout
    BY <2>3, <2>4 DEF StartWrite, StartRead, ReadTimeout, net, world, count
  <2>5. CASE WriteData
    <3>1. /\ context'.state \in {context.state, "CLOSED"}
          /\ UNCHANGED <<context.masterSecret, context.transcript, context.resume, context.sessionId,
                         link, server, conn>>
      BY <2>5, DataWritten DEF Untouched
    <3> QED BY <3>1, ContextKept, ContextOver DEF Over
  <2>6. CASE StartShutdown
    <3>1. context'.state = "CLOSING"
      BY <2>6 DEF StartShutdown, TypeInv, ProperContexts
    <3> QED BY <3>1, ContextOver DEF Over
  <2>7. CASE SendCloseNotify
    <3>1. context'.state \in Over
      BY <2>7, CloseNotifySent DEF CallInv, Over
    <3> QED BY <3>1, ContextOver
  <2> QED BY <1>5, <2>1, <2>2, <2>4, <2>5, <2>6, <2>7 DEF CallerStep
<1>6. ASSUME ServerSide
      PROVE  ContextInv'
  BY <1>6, ContextKept DEF ServerSide
<1>7. CASE Trouble
  <2>1. CASE ElementFails
    BY <1>3, <2>1, ElementRefused
  <2>2. CASE ConnectTimeout
    BY <2>2, ContextKept DEF ConnectTimeout, Fault, net, world
  <2>3. CASE Reject \/ AskAgain \/ Reset \/ Damage
    <3>1. UNCHANGED <<context, conn>>
      BY <2>3 DEF Reject, Arrives, AskAgain, Reset, Damage, Fault
    <3>2. (server.phase # "hello" => server'.phase # "hello" /\ UNCHANGED <<server.resume, server.id>>)
          /\ (link' = link \/ (link # "none" /\ link' # "none"))
      BY <1>7, TroubleOnward DEF ServerSide, ClientSide
    <3> QED BY <3>1, <3>2, ContextKept
  <2> QED BY <1>7, <2>1, <2>2, <2>3 DEF Trouble
<1> QED BY <1>1, <1>2, <1>4, <1>5, <1>6, <1>7, ServerOnward DEF Next

-----------------------------------------------------------------------------
(* What the server knows *)

LEMMA ServerAfterClient ==
    ASSUME TypeInv, ServerInv, Onward, server' = server
    PROVE  ServerInv'
<1>1. written \in Nat /\ server.got \in Seq(Data)
  BY TlsAssumption DEF TypeInv, ProperServers
<1>2. server.phase = "data" => SameSession' /\ FinishedSent'
  BY DEF ServerInv, Onward, SameSession
<1>3. server.phase # "hello" /\ context'.state \in BeforeHello =>
          (server.resume <=> server.id # Nothing /\ server.id = context'.sessionId)
  BY DEF ServerInv, Onward
<1>4. Len(server.got) <= written' + 1
  BY <1>1 DEF ServerInv, Onward
<1>5. server.ended => server.phase = "over" /\ Len(server.got) = written' /\ call' \in Last
  BY DEF ServerInv, Onward
<1>6. conn' = conn
  BY DEF Onward
<1> HIDE DEF ServerInit, Expectations, KeyKnown, Ends, SameSession
<1>7. /\ server'.phase = server.phase /\ server'.expects = server.expects /\ server'.resume = server.resume
      /\ server'.secret = server.secret /\ server'.decryption = server.decryption /\ server'.id = server.id
      /\ server'.got = server.got /\ server'.sent = server.sent /\ server'.ended = server.ended
  OBVIOUS
<1>8. /\ server.phase = "hello" => server = ServerInit
      /\ server.phase = "handshake" =>
             /\ server.expects \in Expectations
             /\ server.resume => server.expects \in Ends
             /\ ~server.resume /\ server.expects \in KeyKnown => server.secret = conn
             /\ server.decryption = IF server.expects = <<"Finished">> THEN Engine(server.secret) ELSE NoEngine
      /\ IF server.resume THEN server.id # Nothing /\ server.secret = server.id
                          ELSE server.id \in {Nothing, conn}
      /\ server.id <= conn
      /\ server.phase = "data" =>
             /\ server.decryption = [secret |-> server.secret, seqNum |-> Len(server.got) + 1]
             /\ server.secret # Nothing
      /\ server.phase \in {"hello", "handshake"} => server.got = <<>> /\ server.sent = 0 /\ ~server.ended
      /\ server.got = Upto(Len(server.got))
  BY DEF ServerInv
<1> QED BY <1>2, <1>3, <1>4, <1>5, <1>6, <1>7, <1>8 DEF ServerInv

\* Its connection is over.
LEMMA ServerOver ==
    ASSUME ServerInv, ServerSide, server'.phase = "over",
           UNCHANGED <<server.resume, server.id, server.secret, server.sent, server.got>>,
           server'.ended => server.ended \/ (Len(server.got) = written /\ call \in Last)
    PROVE  ServerInv'
<1>1. UNCHANGED <<context, call, written, conn>>
  BY DEF ServerSide
<1>2. server.phase = "hello" => ~server.resume /\ server.id = Nothing
  BY DEF ServerInv, ServerInit
<1>3. server.resume \/ ~server.resume
  OBVIOUS
<1>4. context'.state \in BeforeHello =>
          (server'.resume <=> server'.id # Nothing /\ server'.id = context'.sessionId)
  BY <1>1, <1>2 DEF ServerInv
<1> QED BY <1>1, <1>4 DEF ServerInv

\* It goes on talking.
LEMMA ServerTalks ==
    ASSUME ServerInv, ServerSide, server.phase # "hello",
           UNCHANGED <<server.phase, server.resume, server.id, server.secret, server.expects,
                       server.decryption, server.got, server.ended>>,
           server.phase = "data" \/ server'.sent = server.sent
    PROVE  ServerInv'
  BY DEF ServerInv, ServerSide, SameSession, FinishedSent

LEMMA ArrivingOf ==
    ASSUME UpInv, NEW phase, NEW names, Took(phase, names)
    PROVE  GoodUp(Arriving, server.decryption)
<1>1. PICK h \in Range(up) : Arriving = Head(h.record.body) /\ h.record.key = server.decryption
  BY DEF Took
<1> QED BY <1>1 DEF UpInv, Rising

LEMMA TailsOf ==
    ASSUME NEW a, NEW b, NEW c, NEW d
    PROVE  /\ Head(<<a>>) = a /\ Head(<<a, b>>) = a /\ Head(<<a, b, c>>) = a /\ Head(<<a, b, c, d>>) = a
           /\ Tail(<<a>>) = <<>> /\ Tail(<<a, b>>) = <<b>> /\ Tail(<<a, b, c>>) = <<b, c>>
           /\ Tail(<<a, b, c, d>>) = <<b, c, d>>
  OBVIOUS

LEMMA ServerAnswers ==
    ASSUME TypeInv, CallInv, ContextInv, ServerInv, CacheInv, UpInv, AnswerFull \/ AnswerResumed
    PROVE  ServerInv'
<1>1. /\ Took("hello", {"ClientHello"}) /\ server'.phase = "handshake"
      /\ server'.decryption = Advance(server.decryption)
      /\ UNCHANGED <<server.sent, server.got, server.ended>>
  BY AnsweredFull, AnsweredResumed
<1>2. link # "none" /\ UNCHANGED <<context, call, written, conn>>
  BY <1>1, TookLinked DEF Took, Served
<1>3. /\ server.phase = "hello" /\ ~server.resume /\ server.secret = Nothing
      /\ server'.decryption = NoEngine /\ server.got = <<>> /\ server.sent = 0 /\ ~server.ended
  BY <1>1, AdvanceClear DEF Took, ServerInv, ServerInit
<1>4. conn \in Nat /\ context.sessionId \in Nat /\ Nothing = 0
  BY DEF TypeInv, ProperContexts, Numbers, Nothing
<1>5. server.got = Upto(Len(server.got)) /\ Len(server.got) <= written + 1
  BY DEF ServerInv
<1>6. CASE AnswerFull
  <2>1. /\ server'.id \in {Nothing, conn} /\ ~server'.resume
        /\ server'.expects \in Expectations /\ server'.expects \notin KeyKnown
        /\ server'.expects # <<"Finished">>
    BY <1>3, <1>6, AnsweredFull DEF Expectations, KeyKnown, Ends
  <2>2. context.state \in BeforeHello => context.sessionId < conn
    BY <1>2 DEF ContextInv
  <2>3. ~(context.state \in BeforeHello /\ server'.id # Nothing /\ server'.id = context.sessionId)
    BY <1>4, <2>1, <2>2
  <2>4. server'.id <= conn
    BY <1>4, <2>1
  <2> QED BY <1>1, <1>2, <1>3, <1>5, <2>1, <2>3, <2>4 DEF ServerInv
<1>7. CASE AnswerResumed
  <2>1. PICK entry \in cache : entry[1] = Arriving.id /\ server'.id = entry[1] /\ server'.secret = entry[2]
    BY <1>7, AnsweredResumed
  <2>2. entry[1] = entry[2] /\ entry[1] \in 1 .. conn
    BY <2>1 DEF CacheInv
  <2>3. server'.resume /\ server'.expects = <<"ChangeCipherSpec", "Finished">>
    BY <1>7, AnsweredResumed
  <2>4. context.state \in BeforeHello => Arriving.id = context.sessionId
    BY <1>1, ArrivingOf DEF GoodUp, Took
  <2>5. server'.expects \in Ends /\ server'.expects \in Expectations /\ server'.expects # <<"Finished">>
    BY <2>3 DEF Ends, KeyKnown, Expectations
  <2>6. server'.id # Nothing /\ server'.secret = server'.id /\ server'.id <= conn
    BY <1>4, <2>1, <2>2
  <2> QED BY <1>1, <1>2, <1>3, <1>5, <2>1, <2>3, <2>4, <2>5, <2>6 DEF ServerInv
<1> QED BY <1>6, <1>7

LEMMA ServerTakes ==
    ASSUME TypeInv, CallInv, ServerInv, UpInv,
           TakeMessage \/ TakeChangeCipherSpec \/ TakeFinished \/ TakeData
    PROVE  ServerInv'
<1>1. ASSUME NEW phase, NEW names, Took(phase, names)
      PROVE  /\ server.phase = phase /\ Arriving.name \in names /\ GoodUp(Arriving, server.decryption)
             /\ link # "none" /\ UNCHANGED <<context, call, written, conn>>
  BY <1>1, ArrivingOf, TookLinked DEF Took, Served
<1>2. conn \in Nat /\ (link # "none" => conn > 0) /\ Nothing = 0
  BY DEF TypeInv, CallInv, Numbers, Nothing
<1>3. server.got \in Seq(Data) /\ server.decryption \in Engines /\ written \in Nat
  BY TlsAssumption DEF TypeInv, ProperServers
<1>4. CASE TakeMessage
  <2>1. /\ server.phase = "handshake" /\ UNCHANGED <<context, call, written, conn>>
        /\ Arriving.name \in {"Certificate", "ClientKeyExchange", "CertificateVerify"}
        /\ GoodUp(Arriving, server.decryption) /\ InTurn(Arriving)
    BY <1>1, <1>4, MessageTaken
  <2>2. Arriving.name = Head(server.expects)
    BY <2>1 DEF InTurn
  <2>3. server.expects \in Expectations /\ (server.resume => server.expects \in Ends)
    BY <2>1 DEF ServerInv
  <2>4. ~server.resume /\ server.expects \notin Ends
    BY <2>1, <2>2, <2>3, TailsOf DEF Ends
  <2>5. /\ server'.expects \in Expectations /\ server'.expects # <<"Finished">> /\ server.expects # <<"Finished">>
        /\ server'.expects \in KeyKnown => server.expects \in KeyKnown \/ Arriving.name = "ClientKeyExchange"
    <3>1. server'.expects = IF Arriving.name = "Certificate" /\ Arriving.id # Nothing
                 THEN <<"ClientKeyExchange", "CertificateVerify", "ChangeCipherSpec", "Finished">>
                 ELSE Tail(server.expects)
      BY <1>4, MessageTaken
    <3>2. CASE server.expects = <<"Certificate", "ClientKeyExchange", "ChangeCipherSpec", "Finished">>
      <4>1. Tail(server.expects) = <<"ClientKeyExchange", "ChangeCipherSpec", "Finished">>
        BY <3>2, TailsOf
      <4> QED BY <3>1, <3>2, <4>1 DEF Expectations, KeyKnown, Ends
    <3>3. CASE server.expects = <<"ClientKeyExchange", "ChangeCipherSpec", "Finished">>
      <4>1. Tail(server.expects) = <<"ChangeCipherSpec", "Finished">> /\ Arriving.name = "ClientKeyExchange"
        BY <2>2, <3>3, TailsOf
      <4> QED BY <3>1, <3>3, <4>1 DEF Expectations, KeyKnown, Ends
    <3>4. CASE server.expects = <<"ClientKeyExchange", "CertificateVerify", "ChangeCipherSpec", "Finished">>
      <4>1. /\ Tail(server.expects) = <<"CertificateVerify", "ChangeCipherSpec", "Finished">>
            /\ Arriving.name = "ClientKeyExchange"
        BY <2>2, <3>4, TailsOf
      <4> QED BY <3>1, <3>4, <4>1 DEF Expectations, KeyKnown, Ends
    <3>5. CASE server.expects = <<"CertificateVerify", "ChangeCipherSpec", "Finished">>
      <4>1. /\ Tail(server.expects) = <<"ChangeCipherSpec", "Finished">>
            /\ Arriving.name = "CertificateVerify"
        BY <2>2, <3>5, TailsOf
      <4> QED BY <3>1, <3>5, <4>1 DEF Expectations, KeyKnown, Ends
    <3> QED BY <2>3, <2>4, <3>2, <3>3, <3>4, <3>5 DEF Expectations, KeyKnown
  <2>6. ~server.resume /\ server'.expects \in KeyKnown => server'.secret = conn
    <3>1. server'.secret = IF Arriving.name = "ClientKeyExchange" THEN Arriving.id ELSE server.secret
      BY <1>4, MessageTaken
    <3>2. Arriving.name = "ClientKeyExchange" => Arriving.id = conn
      BY <2>1 DEF GoodUp
    <3>3. server.expects \in KeyKnown => server.secret = conn
      BY <2>1, <2>4 DEF ServerInv
    <3> QED BY <2>5, <3>1, <3>2, <3>3
  <2>7. server'.decryption = NoEngine
    BY <1>4, <2>1, <2>5, MessageTaken, AdvanceClear DEF ServerInv
  <2>8. UNCHANGED <<server.phase, server.resume, server.id, server.sent, server.got, server.ended>>
    BY <1>4, MessageTaken
  <2>9. /\ server.id \in {Nothing, conn} /\ server.id <= conn
        /\ context.state \in BeforeHello => (server.resume <=> server.id # Nothing /\ server.id = context.sessionId)
        /\ server.got = <<>> /\ server.sent = 0 /\ ~server.ended
        /\ server.got = Upto(Len(server.got)) /\ Len(server.got) <= written + 1
    BY <2>1, <2>4 DEF ServerInv
  <2> QED BY <2>1, <2>4, <2>5, <2>6, <2>7, <2>8, <2>9 DEF ServerInv
<1>5. CASE TakeChangeCipherSpec
  <2>1. /\ server.phase = "handshake" /\ UNCHANGED <<context, call, written, conn>>
        /\ Arriving.name = "ChangeCipherSpec" /\ InTurn(Arriving)
    BY <1>1, <1>5, ChangeCipherSpecTaken
  <2>2. Arriving.name = Head(server.expects)
    BY <2>1 DEF InTurn
  <2>3. server.expects = <<"ChangeCipherSpec", "Finished">>
    BY <2>1, <2>2, TailsOf DEF ServerInv, Expectations, KeyKnown, Ends
  <2>4. /\ server'.expects = <<"Finished">> /\ server'.decryption = Engine(server.secret)
        /\ UNCHANGED <<server.phase, server.resume, server.id, server.secret, server.sent, server.got, server.ended>>
    BY <1>5, <2>3, TailsOf, ChangeCipherSpecTaken
  <2>5. /\ server'.expects \in Ends /\ server'.expects \in Expectations
        /\ server.expects \in KeyKnown
    BY <2>3, <2>4 DEF Expectations, KeyKnown, Ends
  <2>6. /\ ~server.resume => server.secret = conn
        /\ IF server.resume THEN server.id # Nothing /\ server.secret = server.id ELSE server.id \in {Nothing, conn}
        /\ server.id <= conn
        /\ context.state \in BeforeHello => (server.resume <=> server.id # Nothing /\ server.id = context.sessionId)
        /\ server.got = <<>> /\ server.sent = 0 /\ ~server.ended
        /\ server.got = Upto(Len(server.got)) /\ Len(server.got) <= written + 1
    BY <2>1, <2>5 DEF ServerInv
  <2> QED BY <2>1, <2>4, <2>5, <2>6 DEF ServerInv
<1>6. CASE TakeFinished
  <2>1. /\ server.phase = "handshake" /\ UNCHANGED <<context, call, written, conn>>
        /\ Arriving.name = "Finished" /\ InTurn(Arriving) /\ GoodUp(Arriving, server.decryption)
        /\ link # "none"
    BY <1>1, <1>6, FinishedTaken
  <2>2. server.expects = <<"Finished">>
    <3>1. Arriving.name = Head(server.expects) /\ server.expects \in Expectations
      BY <2>1 DEF InTurn, ServerInv
    <3> QED BY <2>1, <3>1, TailsOf DEF Expectations, KeyKnown, Ends
  <2>3. /\ ~server.resume => server.secret = conn
        /\ server.decryption = Engine(server.secret)
        /\ IF server.resume THEN server.id # Nothing /\ server.secret = server.id ELSE server.id \in {Nothing, conn}
        /\ server.id <= conn
        /\ context.state \in BeforeHello => (server.resume <=> server.id # Nothing /\ server.id = context.sessionId)
        /\ server.got = <<>> /\ ~server.ended
        /\ server.got = Upto(Len(server.got)) /\ Len(server.got) <= written + 1
    BY <2>1, <2>2 DEF ServerInv, KeyKnown, Ends
  <2>4. server.secret # Nothing
    BY <1>2, <2>1, <2>3
  <2>5. server'.decryption = [secret |-> server.secret, seqNum |-> Len(server.got) + 1]
    <3>1. server'.decryption = [secret |-> server.secret, seqNum |-> 1]
      BY <1>3, <1>6, <2>3, <2>4, FinishedTaken, AdvanceKeyed DEF Engine
    <3> QED BY <2>3, <3>1
  <2>6. SameSession /\ FinishedSent
    BY <2>1 DEF InTurn, GoodUp, SameSession
  <2>7. /\ server'.phase = "data"
        /\ UNCHANGED <<server.resume, server.id, server.secret, server.sent, server.got, server.ended>>
    BY <1>6, FinishedTaken
  <2>8. SameSession' /\ FinishedSent'
    BY <2>1, <2>6, <2>7 DEF SameSession, FinishedSent
  <2> QED BY <2>1, <2>3, <2>4, <2>5, <2>7, <2>8 DEF ServerInv
<1>7. CASE TakeData
  <2>1. /\ server.phase = "data" /\ UNCHANGED <<context, call, written, conn>>
        /\ Arriving.name = "data" /\ GoodUp(Arriving, server.decryption) /\ Arriving \in ProperMessages
    BY <1>1, <1>7, DataTaken DEF Took
  <2>2. /\ server.decryption = [secret |-> server.secret, seqNum |-> Len(server.got) + 1]
        /\ server.secret # Nothing /\ server.got = Upto(Len(server.got)) /\ ~server.ended
        /\ SameSession /\ FinishedSent
    BY <2>1 DEF ServerInv
  <2>3. Arriving.id = Len(server.got) + 1 /\ Arriving.id <= written + 1 /\ Arriving.id \in Data
    BY <2>1, <2>2 DEF GoodUp, ProperMessages
  <2>4. /\ server'.phase = "data" /\ server'.got = Append(server.got, Arriving.id)
        /\ server'.decryption = Advance(server.decryption) /\ ~server'.ended
        /\ UNCHANGED <<server.resume, server.id, server.secret>>
    BY <1>7, <2>1, <2>2, DataTaken
  <2>5. Len(server'.got) = Len(server.got) + 1 /\ server'.got = Upto(Len(server'.got))
    <3> DEFINE n == Len(server.got)
               longer == Append(server.got, n + 1)
    <3>1. n \in Nat /\ Len(longer) = n + 1 /\ longer \in Seq(Data)
      BY <1>3, <2>3, AppendOf
    <3>2. \A i \in 1 .. n + 1 : longer[i] = i
      <4>1. \A i \in 1 .. n : server.got[i] = i
        BY <2>2 DEF Upto
      <4>2. /\ \A i \in 1 .. n : longer[i] = server.got[i]
            /\ longer[n + 1] = n + 1
        BY <1>3
      <4> QED BY <3>1, <4>1, <4>2
    <3> HIDE DEF longer
    <3>3. longer = [i \in 1 .. n + 1 |-> longer[i]]
      BY <3>1
    <3>4. longer = Upto(n + 1)
      BY <3>2, <3>3 DEF Upto
    <3> QED BY <2>3, <2>4, <3>1, <3>4 DEF longer
  <2>6. server'.decryption = [secret |-> server.secret, seqNum |-> Len(server'.got) + 1]
    BY <1>3, <2>2, <2>4, <2>5, AdvanceKeyed
  <2>7. Len(server'.got) <= written + 1
    BY <2>3, <2>5
  <2>8. SameSession' /\ FinishedSent'
    BY <2>1, <2>2, <2>4 DEF SameSession, FinishedSent
  <2>9. /\ IF server.resume THEN server.id # Nothing /\ server.secret = server.id ELSE server.id \in {Nothing, conn}
        /\ server.id <= conn
        /\ context.state \in BeforeHello => (server.resume <=> server.id # Nothing /\ server.id = context.sessionId)
    BY <2>1 DEF ServerInv
  <2> QED BY <2>1, <2>2, <2>4, <2>5, <2>6, <2>7, <2>8, <2>9 DEF ServerInv
<1> QED BY <1>4, <1>5, <1>6, <1>7

LEMMA ServerStarts ==
    ASSUME server' = ServerInit, context'.state = "INIT", written' = 0, conn' \in Nat
    PROVE  ServerInv'
<1>1. /\ server'.phase = "hello" /\ ~server'.resume /\ server'.id = Nothing /\ server'.got = <<>>
      /\ server'.sent = 0 /\ ~server'.ended
  BY DEF ServerInit
<1>2. Upto(0) = <<>>
  BY DEF Upto
<1>3. ServerInit' = ServerInit
  BY DEF ServerInit, NoEngine, Nothing
<1>4. Nothing = 0 /\ Len(<<>>) = 0
  BY DEF Nothing
<1> HIDE DEF ServerInit
<1> QED BY <1>1, <1>2, <1>3, <1>4 DEF ServerInv

LEMMA ServerAlerted ==
    ASSUME TypeInv, CallInv, ServerInv, UpInv, TakeAlert
    PROVE  ServerInv'
<1>1. PICK phase \in {"handshake", "data"} : Took(phase, {"close_notify", "fatal"})
  BY AlertTaken
<1>2. GoodUp(Arriving, server.decryption) /\ server.phase = phase
  BY <1>1, ArrivingOf DEF Took
<1>3. ServerSide
  BY ServerOnward DEF ServerStep
<1>4. Arriving.name = "close_notify" => Len(server.got) = written /\ call \in Last
  <2>1. SUFFICES ASSUME Arriving.name = "close_notify"
                 PROVE  Len(server.got) = written /\ call \in Last
    OBVIOUS
  <2>2. server.decryption.seqNum = written + 1 /\ call \in Last /\ written \in Nat
    BY <1>2, <2>1, TlsAssumption DEF GoodUp, TypeInv
  <2>3. phase = "data"
    <3>1. phase = "handshake" => server.decryption.seqNum = 0
      BY <1>2 DEF ServerInv, Engine, NoEngine
    <3> QED BY <2>2, <3>1
  <2>4. server.decryption.seqNum = Len(server.got) + 1 /\ Len(server.got) \in Nat
    <3>1. server.got \in Seq(Data)
      BY DEF TypeInv, ProperServers
    <3> QED BY <1>2, <2>3, <3>1 DEF ServerInv
  <2> QED BY <2>2, <2>4
<1> QED BY <1>3, <1>4, AlertTaken, ServerOver

LEMMA StepServer ==
    ASSUME TypeInv, CallInv, ShapeInv, ContextInv, ServerInv, CacheInv, UpInv, [Next]_vars
    PROVE  ServerInv'
<1>1. CASE Onward /\ ClientSide
  BY <1>1, ServerAfterClient DEF ClientSide
<1>2. CASE Open
  <2>1. server' = ServerInit /\ context'.state = "INIT" /\ written' = 0 /\ conn' \in Nat
    BY <1>2 DEF Open, CallInv, world, FreshContext, TypeInv, Numbers
  <2> QED BY <2>1, ServerStarts
<1>3. CASE Close
  <2>1. server' = ServerInit /\ context'.state = "INIT" /\ written' = 0 /\ conn' \in Nat
    BY <1>3 DEF Close, FreshContext, TypeInv, Numbers
  <2> QED BY <2>1, ServerStarts
<1>4. CASE ServerStep \/ SendData \/ CloseNotify
  <2>1. ServerSide
    BY <1>4, ServerOnward
  <2>2. CASE AnswerFull \/ AnswerResumed
    BY <2>2, ServerAnswers
  <2>3. CASE TakeMessage \/ TakeChangeCipherSpec \/ TakeFinished \/ TakeData
    BY <2>3, ServerTakes
  <2>4. CASE TakeAlert
    BY <2>4, ServerAlerted
  <2>5. CASE ServerRefuses
    BY <2>1, <2>5, ServerRefused, ServerOver
  <2>6. CASE ServerSends
    <3>1. server.phase # "hello"
      BY <2>6, ServerSent DEF ServerInv, ServerInit
    <3> QED BY <2>1, <2>6, <3>1, ServerSent, ServerTalks
  <2>7. CASE ServerEnds
    BY <2>1, <2>7, ServerSideOnward, ServerAfterClient DEF ServerEnds, world
  <2>8. CASE SendData
    BY <2>1, <2>8, DataSent, ServerTalks
  <2>9. CASE CloseNotify
    BY <2>1, <2>9, CloseNotifySaid, ServerOver
  <2> QED BY <1>4, <2>2, <2>3, <2>4, <2>5, <2>6, <2>7, <2>8, <2>9 DEF ServerStep
<1>5. CASE Reject \/ AskAgain \/ Reset \/ Damage
  <2>1. CASE Onward /\ ClientSide
    BY <1>1, <2>1
  <2>2. CASE ServerSide
    <3>1. CASE Reject
      BY <2>2, <3>1, Rejected, ServerOver
    <3>2. CASE AskAgain
      BY <2>2, <3>2, AskedAgain, ServerTalks
    <3>3. CASE Reset
      BY <2>2, <3>3, WasReset, ServerOver
    <3>4. CASE Damage
      BY <2>2, <3>4, ServerSideOnward, ServerAfterClient DEF Damage, world
    <3> QED BY <1>5, <3>1, <3>2, <3>3, <3>4
  <2> QED BY <1>5, <2>1, <2>2, TroubleOnward DEF Trouble
<1>6. CASE ElementFails \/ ConnectTimeout
  <2>1. CASE ServerSide
    <3>1. server' = server
      BY <1>6 DEF ElementFails, ConnectTimeout, world
    <3> QED BY <2>1, <3>1, ServerSideOnward, ServerAfterClient
  <2> QED BY <1>1, <1>6, <2>1, TroubleOnward DEF Trouble
<1>7. CASE UNCHANGED vars \/ HandshakeStep \/ RecordStep \/ CallerStep
  <2>1. CASE UNCHANGED vars
    <3>1. Onward /\ server' = server
      BY <2>1, OnwardKept DEF vars
    <3> QED BY <3>1, ServerAfterClient
  <2> QED BY <1>1, <1>2, <1>3, <1>7, <2>1, HandshakeOnward, RecordOnward, CallerOnward
<1> QED BY <1>4, <1>5, <1>6, <1>7 DEF Next, Trouble

-----------------------------------------------------------------------------
(* What is on its way to the server *)

LEMMA UpGoes ==
    ASSUME TypeInv, UpInv, Onward,
           server.phase # "hello" => server'.phase # "hello" /\ UNCHANGED server.resume,
           \A h \in Rising' :
               \/ \E g \in Rising : g.record = h.record
               \/ Len(h.record.body) = 1 /\ GoodUp(Head(h.record.body), h.record.key)'
    PROVE  UpInv'
<1>1. ASSUME NEW m \in ProperMessages, NEW key, GoodUp(m, key)
      PROVE  GoodUp(m, key)'
  <2>1. written \in Nat
    BY TlsAssumption DEF TypeInv
  <2>2. m.name = "ClientHello" /\ context'.state \in BeforeHello => m.id = context'.sessionId
    BY <1>1 DEF GoodUp, Onward
  <2>3. m.name = "Finished" =>
           /\ FinishedSent'
           /\ m.id = context'.masterSecret /\ m.id # Nothing
           /\ server'.phase # "hello" /\ context'.resume = server'.resume
    BY <1>1 DEF GoodUp, Onward
  <2>4. m.name = "data" /\ key.seqNum = m.id /\ m.id <= written + 1 => m.id <= written' + 1
    <3>1. SUFFICES ASSUME m.name = "data", m.id <= written + 1
                   PROVE  m.id <= written' + 1
      OBVIOUS
    <3>2. m.id \in Int
      BY <3>1 DEF ProperMessages, Data
    <3> QED BY <2>1, <3>1, <3>2 DEF Onward
  <2>5. m.name = "close_notify" => key.seqNum = written' + 1 /\ call' \in Last
    BY <1>1 DEF GoodUp, Onward
  <2> QED BY <1>1, <2>2, <2>3, <2>4, <2>5 DEF GoodUp, Onward
<1>2. ASSUME NEW h \in Rising'
      PROVE  Len(h.record.body) = 1 /\ GoodUp(Head(h.record.body), h.record.key)'
  <2>1. CASE \E g \in Rising : g.record = h.record
    <3>1. PICK g \in Rising : g.record = h.record
      BY <2>1
    <3>2. Len(h.record.body) = 1 /\ GoodUp(Head(h.record.body), h.record.key)
      BY <3>1 DEF UpInv
    <3>3. g \in ProperHalves
      BY DEF Rising, Range, TypeInv, ProperContexts
    <3>4. Head(h.record.body) \in ProperMessages
      BY <3>1, <3>3, TailOf DEF ProperHalves, Bodies
    <3> QED BY <1>1, <3>2, <3>4
  <2> QED BY <1>2, <2>1
<1> QED BY <1>2 DEF UpInv

\* A record of one message
LEMMA RecordOfOne ==
    ASSUME NEW h, NEW m, NEW key, h.record = Record(<<m>>, key)
    PROVE  Len(h.record.body) = 1 /\ Head(h.record.body) = m /\ h.record.key = key
<1>1. h.record.body = <<m>> /\ h.record.key = key
  BY DEF Record
<1> QED BY <1>1

LEMMA UpAdds ==
    ASSUME TypeInv, UpInv, Onward, ClientSide, NEW m, NEW key,
           \A h \in Rising' : h \in Rising \/ h.record = Record(<<m>>, key),
           GoodUp(m, key)'
    PROVE  UpInv'
<1>1. \A h \in Rising' :
        \/ \E g \in Rising : g.record = h.record
        \/ Len(h.record.body) = 1 /\ GoodUp(Head(h.record.body), h.record.key)'
  BY RecordOfOne
<1>2. server.phase # "hello" => server'.phase # "hello" /\ UNCHANGED server.resume
  BY DEF ClientSide
<1> QED BY <1>1, <1>2, UpGoes

LEMMA UpShrinks ==
    ASSUME TypeInv, UpInv, Onward, ClientSide \/ ServerSide, Rising' \subseteq Rising
    PROVE  UpInv'
<1>1. server.phase # "hello" => server'.phase # "hello" /\ UNCHANGED server.resume
  BY DEF ClientSide, ServerSide
<1> QED BY <1>1, UpGoes

LEMMA UpKept ==
    ASSUME TypeInv, UpInv, Onward, ClientSide \/ ServerSide, UNCHANGED <<context.tx, up>>
    PROVE  UpInv'
  BY UpShrinks DEF Rising

\* Messages the server has nothing to compare with.
Plain == Names \ {"ClientHello", "ClientKeyExchange", "Finished", "data", "close_notify"}

LEMMA PlainOf ==
    ASSUME NEW name \in Plain, NEW id, NEW hash, NEW key
    PROVE  GoodUp(Message(name, id, hash), key)'
  BY DEF GoodUp, Message, Plain

LEMMA FatalUp ==
    ASSUME TypeInv, CallInv, UpInv, Refused
    PROVE  UpInv'
<1>1. GoodUp(Message("fatal", Nothing, <<>>), NoEngine)' /\ "fatal" \in Plain
  BY PlainOf DEF Plain, Names
<1>2. \A h \in Rising' :
        \/ \E g \in Rising : g.record = h.record
        \/ Len(h.record.body) = 1 /\ GoodUp(Head(h.record.body), h.record.key)'
  <2>1. SUFFICES ASSUME NEW h \in Rising', h.record.body = <<Message("fatal", Nothing, <<>>)>>
                 PROVE  Len(h.record.body) = 1 /\ GoodUp(Head(h.record.body), h.record.key)'
    BY DEF Refused
  <2>2. Len(h.record.body) = 1 /\ Head(h.record.body) = Message("fatal", Nothing, <<>>)
    BY <2>1
  <2> QED BY <1>1, <2>2, PlainOf
<1>3. Onward /\ server' = server
  BY RefusedOnward DEF ClientSide
<1> QED BY <1>2, <1>3, UpGoes

LEMMA HandshakeUp ==
    ASSUME TypeInv, CallInv, ContextInv, UpInv, HandshakeStep
    PROVE  UpInv'
<1>0. Onward /\ ClientSide
  BY HandshakeOnward
<1>1. ASSUME NEW from, NEW to, NEW m, Sent(from, to, m), NEW key, key = context.encryption, GoodUp(m, key)'
      PROVE  UpInv'
  BY <1>0, <1>1, UpAdds DEF Sent
<1> PICK key : key = context.encryption
  OBVIOUS
<1>2. CASE InitHandshake
  <2>1. context'.tx = context.tx /\ up' = up
    BY <1>2 DEF InitHandshake, net, TypeInv, ProperContexts
  <2> QED BY <1>0, <2>1, UpKept
<1>3. CASE FlushPending
  BY <1>0, <1>3, Flushed, UpShrinks
<1>4. CASE SendClientHello
  <2> PICK m : m = Message("ClientHello", context.sessionId, <<>>)
    OBVIOUS
  <2>1. Sent("CLIENT_HELLO", "SERVER_HELLO", m)
    BY <1>4, ClientHelloSent
  <2>2. m.name = "ClientHello" /\ m.id = context'.sessionId
    BY <2>1 DEF Message, Sent, Untouched
  <2>3. GoodUp(m, key)'
    BY <2>2 DEF GoodUp
  <2> QED BY <1>1, <2>1, <2>3
<1>5. CASE SendCertificate
  <2>1. conn > 0
    BY <1>5 DEF SendCertificate, Proceed, InTurnToSend, CallInv
  <2>2. PICK id \in Numbers :
           Sent("CLIENT_CERTIFICATE", "CLIENT_KEY_EXCHANGE", Message("Certificate", id, <<>>))
    BY <1>5, <2>1, CertificateSent
  <2> QED BY <1>1, <2>2, PlainOf DEF Plain, Names
<1>6. CASE SendClientKeyExchange
  <2> PICK m : m = Message("ClientKeyExchange", conn, <<>>)
    OBVIOUS
  <2>1. Sent("CLIENT_KEY_EXCHANGE", "CLIENT_CERTIFICATE_VERIFY", m)
    BY <1>6, ClientKeyExchangeSent
  <2>2. m.name = "ClientKeyExchange" /\ m.id = conn'
    BY <2>1 DEF Message, Sent, Elsewhere
  <2>3. GoodUp(m, key)'
    BY <2>2 DEF GoodUp
  <2> QED BY <1>1, <2>1, <2>3
<1>7. CASE SendCertificateVerify
  <2>1. PICK hash \in Transcripts :
           Sent("CLIENT_CERTIFICATE_VERIFY", "CLIENT_CHANGE_CIPHER_SPEC",
                Message("CertificateVerify", Nothing, hash))
    BY <1>7, CertificateVerifySent
  <2> QED BY <1>1, <2>1, PlainOf DEF Plain, Names
<1>8. CASE SendChangeCipherSpec
  <2>1. Sent("CLIENT_CHANGE_CIPHER_SPEC", "CLIENT_FINISHED", Message("ChangeCipherSpec", Nothing, <<>>))
    BY <1>8, ChangeCipherSpecSent
  <2> QED BY <1>1, <2>1, PlainOf DEF Plain, Names
<1>9. CASE SendFinished
  <2> PICK m : m = Message("Finished", context.masterSecret, context.transcript)
    OBVIOUS
  <2> DEFINE to == IF context.resume THEN "APPLICATION_DATA" ELSE "SERVER_CHANGE_CIPHER_SPEC"
  <2>1. Sent("CLIENT_FINISHED", to, m) /\ context'.masterSecret = context.masterSecret
    BY <1>9, FinishedSentOf
  <2>2. link # "none" /\ context.state = "CLIENT_FINISHED"
    BY <2>1 DEF Sent, CallInv
  <2>3. context.masterSecret # Nothing
    BY <2>2, SecretKnown DEF Sending
  <2>4. server.phase # "hello" /\ context.resume = server.resume
    BY <2>2 DEF ContextInv, BeforeHello, Over
  <2>5. /\ context'.state \in {to, "CLOSED"} /\ context'.resume = context.resume /\ server' = server
    BY <2>1 DEF Sent, Untouched, Elsewhere
  <2>6. FinishedSent'
    BY <2>5 DEF FinishedSent, Awaiting, Over
  <2>7. m.name = "Finished" /\ m.id = context.masterSecret
    BY DEF Message
  <2>8. GoodUp(m, key)'
    BY <2>1, <2>3, <2>4, <2>5, <2>6, <2>7 DEF GoodUp
  <2> QED BY <1>1, <2>1, <2>8
<1>10. ASSUME NEW name, Parsed(name)
       PROVE  UpInv'
  BY <1>0, <1>10, UpKept DEF Parsed, Idle
<1>11. CASE ParseServerHello
  BY <1>10, <1>11, ServerHelloParsed
<1>12. CASE \/ ParseCertificate \/ ParseServerKeyExchange \/ ParseCertificateRequest
            \/ ParseServerHelloDone \/ ParseFinished \/ ParseHelloRequest
  BY <1>10, <1>12, MessagesParsed DEF Moved
<1>13. CASE ParseChangeCipherSpec
  BY <1>10, <1>13, ChangeCipherSpecParsed
<1>14. CASE Established \/ HandshakeFailed
  <2>1. UNCHANGED <<context, up>>
    BY <1>14 DEF Established, HandshakeFailed, net
  <2> QED BY <1>0, <2>1, UpKept
<1> QED BY <1>2, <1>3, <1>4, <1>5, <1>6, <1>7, <1>8, <1>9, <1>11, <1>12, <1>13, <1>14 DEF HandshakeStep

LEMMA RecordUp ==
    ASSUME TypeInv, CallInv, ShapeInv, UpInv, RecordStep
    PROVE  UpInv'
<1>0. Onward /\ ClientSide
  BY RecordOnward
<1>1. CASE ReceiveHeader
  <2>1. context'.tx = context.tx /\ up' = up
    BY <1>1 DEF ReceiveHeader, TypeInv, ProperContexts
  <2> QED BY <1>0, <2>1, UpKept
<1>2. CASE ReceiveRecord
  BY <1>0, <1>2, RecordReceived, UpKept
<1>3. CASE ReceiveBadRecord
  BY <1>3, BadRecordRefused, FatalUp
<1>4. CASE ReceiveFails
  <2>1. context'.tx = context.tx /\ up' = up
    BY <1>4 DEF ReceiveFails, net, TypeInv, ProperContexts
  <2> QED BY <1>0, <2>1, UpKept
<1>5. CASE ParseAlert
  <2>1. context'.tx = context.tx /\ up' = up
    BY <1>5, AlertParsed DEF Parsed, Idle
  <2> QED BY <1>0, <2>1, UpKept
<1>6. CASE ParseData
  BY <1>0, <1>6, DataParsed, UpKept
<1>7. CASE ParseRefused \/ RefuseRenegotiation
  BY <1>7, MessageRefused, FatalUp
<1>8. CASE CallEnds
  BY <1>0, <1>8, UpKept DEF CallEnds, net
<1> QED BY <1>1, <1>2, <1>3, <1>4, <1>5, <1>6, <1>7, <1>8 DEF RecordStep

LEMMA CallerUp ==
    ASSUME TypeInv, CallInv, EngineInv, UpInv, CallerStep, ~Open, ~Close
    PROVE  UpInv'
<1>0. Onward /\ ClientSide
  BY CallerOnward
<1>1. CASE (\E n \in 1 .. 2 : StartWrite(n)) \/ StartRead \/ ReadTimeout
  <2>1. UNCHANGED <<context, up>>
    BY <1>1 DEF StartWrite, StartRead, ReadTimeout, net
  <2> QED BY <1>0, <2>1, UpKept
<1>2. CASE StartShutdown
  <2>1. context'.tx = context.tx /\ up' = up
    BY <1>2 DEF StartShutdown, net, TypeInv, ProperContexts
  <2> QED BY <1>0, <2>1, UpKept
<1>3. CASE WriteData
  <2> PICK m : m = Message("data", written + 1, <<>>)
    OBVIOUS
  <2> PICK key : key = context.encryption
    OBVIOUS
  <2>1. /\ call = "write" /\ context.state = "APPLICATION_DATA"
        /\ \A h \in Rising' :
             h \in Rising \/ (h.record = Record(<<m>>, context.encryption) /\ context.tx = <<>>)
        /\ written' = written \/ written' = written + 1
    BY <1>3, DataWritten DEF CountWritten
  <2>2. CASE context.tx # <<>>
    <3>1. Rising' \subseteq Rising
      BY <2>1, <2>2
    <3> QED BY <1>0, <3>1, UpShrinks
  <2>3. CASE context.tx = <<>>
    <3>1. context.encryption = [secret |-> context.masterSecret, seqNum |-> written + 1]
      BY <2>1, <2>3 DEF EngineInv, Pending
    <3>2. m.name = "data" /\ m.id = written + 1
      BY DEF Message
    <3>3. written \in Nat
      BY TlsAssumption DEF TypeInv
    <3>4. context.encryption.seqNum = m.id /\ m.id <= written' + 1
      BY <2>1, <3>1, <3>2, <3>3
    <3>5. GoodUp(m, key)'
      BY <3>2, <3>4 DEF GoodUp
    <3> QED BY <1>0, <2>1, <3>5, UpAdds
  <2> QED BY <2>2, <2>3
<1>4. CASE SendCloseNotify
  <2> PICK m : m = Message("close_notify", Nothing, <<>>)
    OBVIOUS
  <2> PICK key : key = context.encryption
    OBVIOUS
  <2>1. /\ call = "shutdown" /\ call' \in {"done", "shutdown", "failed"} /\ written' = written
        /\ \A h \in Rising' :
             h \in Rising \/ (h.record = Record(<<m>>, context.encryption) /\ ~context.closeNotifySent)
    BY <1>4, CloseNotifySent
  <2>2. CASE context.closeNotifySent
    <3>1. Rising' \subseteq Rising
      BY <2>1, <2>2
    <3> QED BY <1>0, <3>1, UpShrinks
  <2>3. CASE ~context.closeNotifySent
    <3>1. context.encryption = [secret |-> context.masterSecret, seqNum |-> written + 1]
      BY <2>1, <2>3 DEF EngineInv, Pending
    <3>2. m.name = "close_notify"
      BY DEF Message
    <3>3. GoodUp(m, key)'
      BY <2>1, <3>1, <3>2 DEF GoodUp, Last
    <3> QED BY <1>0, <2>1, <3>3, UpAdds
  <2> QED BY <2>2, <2>3
<1> QED BY <1>1, <1>2, <1>3, <1>4 DEF CallerStep

LEMMA UpEmpty ==
    ASSUME up' = <<>>, context'.tx = <<>>
    PROVE  UpInv'
<1>1. Rising' = {}
  BY DEF Rising, Range
<1> QED BY <1>1 DEF UpInv

LEMMA StepUp ==
    ASSUME TypeInv, CallInv, ShapeInv, EngineInv, ContextInv, UpInv, [Next]_vars
    PROVE  UpInv'
<1>1. CASE UNCHANGED vars
  <2>1. Onward /\ ClientSide /\ UNCHANGED <<context, up>>
    BY <1>1, OnwardKept, FallingKept DEF vars, ClientSide
  <2> QED BY <2>1, UpKept
<1>2. CASE Open \/ Close
  <2>1. up' = <<>> /\ context'.tx = <<>>
    BY <1>2 DEF Open, Close, CallInv, FreshContext
  <2> QED BY <2>1, UpEmpty
<1>3. CASE ServerStep \/ SendData \/ CloseNotify
  <2>1. ServerSide /\ Onward
    BY <1>3, ServerOnward, ServerSideOnward
  <2>2. CASE AnswerFull \/ AnswerResumed \/ TakeMessage \/ TakeChangeCipherSpec \/ TakeFinished
             \/ TakeData \/ TakeAlert \/ ServerRefuses
    <3>1. Rising' \subseteq Rising
      BY <2>2, AnsweredFull, AnsweredResumed, MessageTaken, ChangeCipherSpecTaken, FinishedTaken,
         DataTaken, AlertTaken, ServerRefused DEF Took
    <3> QED BY <2>1, <3>1, UpShrinks
  <2>3. CASE ServerSends \/ ServerEnds \/ SendData \/ CloseNotify
    <3>1. UNCHANGED <<context, up>>
      BY <2>3, ServerSent, DataSent, CloseNotifySaid DEF ServerEnds, Served
    <3> QED BY <2>1, <3>1, UpKept
  <2> QED BY <1>3, <2>2, <2>3 DEF ServerStep
<1>4. CASE Reject \/ AskAgain \/ Reset \/ Damage
  <2>1. (Onward /\ ClientSide) \/ (Onward /\ ServerSide)
    BY <1>4, TroubleOnward, ServerSideOnward DEF Trouble
  <2>2. CASE Reject
    BY <2>1, <2>2, Rejected, UpShrinks DEF Took
  <2>3. CASE AskAgain
    BY <2>1, <2>3, AskedAgain, UpKept DEF Served
  <2>4. CASE Reset
    <3>1. Rising' \subseteq Rising
      BY <2>4, WasReset DEF Rising, Range
    <3> QED BY <2>1, <3>1, UpShrinks
  <2>5. CASE Damage
    <3>1. \A h \in Rising' : \E g \in Rising : g.record = h.record
      <4>1. context' = context /\ (up' = up \/ (Damageable(up) /\ up' = Damaged(up)))
        BY <2>5 DEF Damage
      <4>2. up \in Seq(ProperHalves)
        BY DEF TypeInv
      <4> QED BY <4>1, <4>2, DamagedOf DEF Rising
    <3>2. server' = server
      BY <2>5 DEF Damage, world
    <3> QED BY <2>1, <3>1, <3>2, UpGoes
  <2> QED BY <1>4, <2>2, <2>3, <2>4, <2>5
<1>5. CASE ElementFails
  BY <1>5, ElementRefused, FatalUp
<1>6. CASE ConnectTimeout
  <2>1. (Onward /\ ClientSide) \/ (Onward /\ ServerSide)
    BY <1>6, TroubleOnward, ServerSideOnward DEF Trouble
  <2>2. UNCHANGED <<context, up>>
    BY <1>6 DEF ConnectTimeout, net
  <2> QED BY <2>1, <2>2, UpKept
<1> QED BY <1>1, <1>2, <1>3, <1>4, <1>5, <1>6, HandshakeUp, RecordUp, CallerUp DEF Next, Trouble

-----------------------------------------------------------------------------
(* What is on its way to the client *)

LEMMA DownAfterClient ==
    ASSUME DownInv, Onward, server' = server, Falling' \subseteq Falling
    PROVE  DownInv'
<1>1. ASSUME NEW m, GoodDown(m)
      PROVE  GoodDown(m)'
  BY <1>1 DEF GoodDown, Onward
<1> QED BY <1>1 DEF DownInv

\* What was good stays good, whatever the server does next.
LEMMA DownStays ==
    ASSUME TypeInv, ServerSide, NEW m, GoodDown(m),
           server.phase \in {"data", "over"} => server'.phase \in {"data", "over"},
           server.phase = "over" => server'.phase = "over",
           m.name = "data" /\ m.id <= server.sent => m.id <= server'.sent,
           m.name = "Finished" =>
               /\ server'.secret = server.secret
               /\ \/ server'.transcript = server.transcript
                  \/ context.state \in Over \cup {"APPLICATION_DATA"}
    PROVE  GoodDown(m)'
<1>1. server.phase # "hello" => server'.phase # "hello" /\ UNCHANGED <<server.resume, server.id>>
  BY DEF ServerSide
<1>2. context' = context
  BY DEF ServerSide
<1>3. m.name = "Finished" => server.phase # "hello"
  BY DEF GoodDown
<1> QED BY <1>1, <1>2, <1>3 DEF GoodDown

LEMMA DownGoes ==
    ASSUME DownInv, \A m \in Falling : GoodDown(m) => GoodDown(m)',
           \A m \in Falling' : (\E n \in Falling : Alike(m, n)) \/ GoodDown(m)'
    PROVE  DownInv'
<1>1. ASSUME NEW m \in Falling', NEW n \in Falling, Alike(m, n)
      PROVE  GoodDown(m)'
  <2>1. GoodDown(n)'
    BY DEF DownInv
  <2>2. m.name = n.name /\ m.id = n.id /\ m.hash = n.hash
    BY <1>1 DEF Alike
  <2> QED BY <2>1, <2>2 DEF GoodDown, FinishedOf
<1> QED BY <1>1 DEF DownInv

LEMMA AlikeSelf ==
    ASSUME NEW m
    PROVE  Alike(m, m)
  BY DEF Alike

\* The server has more to say.
LEMMA FallingSaid ==
    ASSUME TypeInv, NEW ms, Says(ms), UNCHANGED <<context, down>>
    PROVE  Falling' = Falling \cup Range(ms)
<1>1. server.flight \in Seq(ProperMessages) /\ ms \in Seq(ProperMessages)
  BY DEF TypeInv, ProperServers, Says
<1>2. Range(server'.flight) = Range(server.flight) \cup Range(ms)
  BY <1>1, ConcatOf DEF Says
<1> QED BY <1>2 DEF Falling

LEMMA FallingReplaced ==
    ASSUME UNCHANGED <<context, down>>, NEW m \in Falling'
    PROVE  m \in Falling \/ m \in Range(server'.flight)
  BY DEF Falling

\* Messages the client has nothing to compare with.
Quiet == Names \ {"ServerHello", "Finished", "data", "close_notify"}

LEMMA QuietOf ==
    ASSUME NEW m, m.name \in Quiet
    PROVE  GoodDown(m) /\ GoodDown(m)'
  BY DEF GoodDown, Quiet

\* Before the server answers there is nothing of it on its way that says anything.
LEMMA DownBefore ==
    ASSUME ServerInv, NEW m, GoodDown(m), server.phase = "hello"
    PROVE  GoodDown(m)'
<1>1. ~server.resume
  BY DEF ServerInv, ServerInit
<1> QED BY <1>1 DEF GoodDown

LEMMA DownAnswers ==
    ASSUME TypeInv, ServerInv, DownInv, AnswerFull \/ AnswerResumed
    PROVE  DownInv'
<1>1. /\ Took("hello", {"ClientHello"}) /\ server'.phase = "handshake"
  BY AnsweredFull, AnsweredResumed
<1>2. server.phase = "hello" /\ UNCHANGED <<context, down>>
  BY <1>1 DEF Took, Served
<1>3. \A m \in Falling : GoodDown(m) => GoodDown(m)'
  BY <1>2, DownBefore
<1>4. CASE AnswerFull
  <2>1. PICK ms :
             /\ Says(ms)
             /\ \A i \in DOMAIN ms :
                   ms[i].name \in FullNames /\ (ms[i].name = "ServerHello" => ms[i].id = server'.id)
    BY <1>4, AnsweredFull
  <2>2. ASSUME NEW m \in Range(ms)
        PROVE  GoodDown(m)'
    <3>1. m.name \in FullNames /\ (m.name = "ServerHello" => m.id = server'.id)
      BY <2>1 DEF Range
    <3>2. CASE m.name = "ServerHello"
      BY <1>1, <3>1, <3>2 DEF GoodDown
    <3>3. CASE m.name # "ServerHello"
      BY <3>1, <3>3, QuietOf DEF FullNames, Quiet, Names
    <3> QED BY <3>2, <3>3
  <2> QED BY <1>2, <1>3, <2>1, <2>2, FallingSaid, AlikeSelf, DownGoes
<1>5. CASE AnswerResumed
  <2>1. server'.resume
    BY <1>5, AnsweredResumed
  <2>2. PICK ms, hash :
             /\ Says(ms) /\ hash \in Transcripts
             /\ server'.transcript = Append(hash, <<"Finished", server'.secret>>)
             /\ Range(ms) = {Message("ServerHello", server'.id, <<>>),
                             Message("ChangeCipherSpec", Nothing, <<>>),
                             Message("Finished", server'.secret, hash)}
    BY <1>5, AnsweredResumed
  <2>3. ASSUME NEW m \in Range(ms)
        PROVE  GoodDown(m)'
    <3>1. CASE m = Message("ServerHello", server'.id, <<>>)
      <4>1. m.name = "ServerHello" /\ m.id = server'.id
        BY <3>1 DEF Message
      <4> QED BY <1>1, <4>1 DEF GoodDown
    <3>2. CASE m = Message("ChangeCipherSpec", Nothing, <<>>)
      <4>1. m.name = "ChangeCipherSpec"
        BY <3>2 DEF Message
      <4> QED BY <4>1, QuietOf DEF Quiet, Names
    <3>3. CASE m = Message("Finished", server'.secret, hash)
      <4>1. m.name = "Finished" /\ m.id = server'.secret /\ m.hash = hash
        BY <3>3 DEF Message
      <4>2. server'.transcript = Append(m.hash, <<"Finished", m.id>>)
        BY <2>2, <4>1
      <4> QED BY <1>1, <2>1, <4>1, <4>2 DEF GoodDown, FinishedOf
    <3> QED BY <2>2, <3>1, <3>2, <3>3
  <2> QED BY <1>2, <1>3, <2>2, <2>3, FallingSaid, AlikeSelf, DownGoes
<1> QED BY <1>4, <1>5

LEMMA DownFinishes ==
    ASSUME TypeInv, CallInv, ServerInv, UpInv, DownInv, TakeFinished
    PROVE  DownInv'
<1>1. /\ Took("handshake", {"Finished"}) /\ server'.phase = "data"
      /\ UNCHANGED <<server.resume, server.id, server.secret, server.sent>>
  BY FinishedTaken
<1>2. server.phase = "handshake" /\ UNCHANGED <<context, down>>
  BY <1>1 DEF Took, Served
<1>3. ServerSide
  BY ServerOnward DEF ServerStep
<1>4. CASE server.resume
  <2>1. context.state \in Over \cup {"APPLICATION_DATA"}
    <3>1. FinishedSent /\ context.resume = server.resume
      BY <1>1, ArrivingOf DEF GoodUp, Took
    <3> QED BY <1>4, <3>1 DEF FinishedSent
  <2>2. \A m \in Falling : GoodDown(m) => GoodDown(m)'
    BY <1>1, <1>2, <1>3, <2>1, DownStays
  <2>3. Falling' \subseteq Falling
    BY <1>2, <1>4, FinishedTaken DEF Falling
  <2> QED BY <2>2, <2>3, AlikeSelf, DownGoes
<1>5. CASE ~server.resume
  <2>1. ASSUME NEW m, GoodDown(m)
        PROVE  GoodDown(m)'
    <3>1. m.name # "Finished"
      BY <1>2, <1>5, <2>1 DEF GoodDown
    <3> QED BY <1>1, <1>2, <1>3, <2>1, <3>1, DownStays
  <2>2. PICK ms, hash :
             /\ Says(ms)
             /\ server'.transcript = Append(hash, <<"Finished", server.secret>>)
             /\ Range(ms) = {Message("ChangeCipherSpec", Nothing, <<>>),
                             Message("Finished", server.secret, hash)}
    BY <1>5, FinishedTaken
  <2>3. ASSUME NEW m \in Range(ms)
        PROVE  GoodDown(m)'
    <3>1. CASE m = Message("ChangeCipherSpec", Nothing, <<>>)
      <4>1. m.name = "ChangeCipherSpec"
        BY <3>1 DEF Message
      <4> QED BY <4>1, QuietOf DEF Quiet, Names
    <3>2. CASE m = Message("Finished", server.secret, hash)
      <4>1. m.name = "Finished" /\ m.id = server'.secret /\ m.hash = hash
        BY <1>1, <3>2 DEF Message
      <4>2. server'.transcript = Append(m.hash, <<"Finished", m.id>>)
        BY <1>1, <2>2, <4>1
      <4> QED BY <1>1, <1>5, <4>1, <4>2 DEF GoodDown, FinishedOf
    <3> QED BY <2>2, <3>1, <3>2
  <2> QED BY <1>2, <2>1, <2>2, <2>3, FallingSaid, AlikeSelf, DownGoes
<1> QED BY <1>4, <1>5

\* The server ends with an alert, or without.
LEMMA DownOver ==
    ASSUME TypeInv, ServerSide, DownInv, server'.phase = "over",
           UNCHANGED <<server.secret, server.sent, server.transcript>>,
           \A m \in Range(server'.flight) : m.name \in {"fatal", "close_notify"},
           down' = down \/ down' = <<>>
    PROVE  DownInv'
<1>1. \A m \in Falling : GoodDown(m) => GoodDown(m)'
  BY DownStays
<1>2. ASSUME NEW m \in Falling'
      PROVE  m \in Falling \/ m \in Range(server'.flight)
  <2>1. context' = context
    BY DEF ServerSide
  <2>2. Range(down') \subseteq Range(down)
    BY DEF Range
  <2> QED BY <2>1, <2>2 DEF Falling
<1>3. \A m \in Range(server'.flight) : GoodDown(m)'
  BY DEF GoodDown
<1> QED BY <1>1, <1>2, <1>3, AlikeSelf, DownGoes

LEMMA RangeOfOne ==
    ASSUME NEW a
    PROVE  Range(<<a>>) = {a}
  BY DEF Range

LEMMA DownSent ==
    ASSUME TypeInv, CallInv, DownInv, ServerSends
    PROVE  DownInv'
<1>1. PICK n, body : Dispatched(n, body)
  BY ServerSent
<1> DEFINE flight == server.flight
           key == server.encryption
           record == Record(body, key)
<1>2. flight \in Seq(ProperMessages) /\ down \in Seq(ProperHalves) /\ key \in Engines
  BY DEF TypeInv, ProperServers
<1>3. /\ n \in 1 .. Len(flight) /\ body \in Bodies /\ Len(body) = n
      /\ \A i \in 1 .. n : Alike(body[i], flight[i])
  BY <1>1 DEF Dispatched
<1>4. Range(down') \subseteq Range(down) \cup Range(Halves(record))
  <2> DEFINE halves == Halves(record)
  <2>1. halves \in Seq(ProperHalves)
    BY <1>2, <1>3, HalvesOf
  <2>2. down' = down \o halves
    BY <1>1 DEF Dispatched
  <2> HIDE DEF halves
  <2>3. Range(down') = Range(down) \cup Range(halves)
    BY <1>2, <2>1, <2>2, ConcatOf
  <2> QED BY <2>3 DEF halves
<1>5. \A h \in Range(Halves(record)) : h.record = record
  BY <1>2, <1>3, HalvesOf
<1>6. \A m \in Range(body) : \E l \in Falling : Alike(m, l)
  <2>1. SUFFICES ASSUME NEW m \in Range(body)
                 PROVE  \E l \in Falling : Alike(m, l)
    OBVIOUS
  <2>2. body \in Seq(ProperMessages)
    BY <1>3 DEF Bodies
  <2>3. PICK i \in 1 .. n : m = body[i]
    BY <1>3, <2>2 DEF Range
  <2>4. flight[i] \in Falling
    BY <1>2, <1>3 DEF Falling, Range
  <2> QED BY <1>3, <2>3, <2>4
<1>7. \A m \in Range(server'.flight) : \E l \in Falling : Alike(m, l)
  <2>1. Drop(flight, n) \in Seq(ProperMessages) /\ Range(Drop(flight, n)) \subseteq Range(flight)
    BY <1>2, <1>3, DropOf
  <2>2. Range(flight) \subseteq Falling
    BY DEF Falling
  <2>3. CASE server'.flight = Drop(flight, n)
    BY <2>1, <2>2, <2>3, AlikeSelf
  <2>4. CASE \E tail \in ProperMessages :
               server'.flight = <<tail>> \o Drop(flight, n) /\ Alike(tail, flight[n])
    <3>1. PICK tail \in ProperMessages :
               server'.flight = <<tail>> \o Drop(flight, n) /\ Alike(tail, flight[n])
      BY <2>4
    <3> DEFINE one == <<tail>>
    <3>2. one \in Seq(ProperMessages) /\ Range(one) = {tail}
      BY SingleOf
    <3>3. server'.flight = one \o Drop(flight, n)
      BY <3>1
    <3> HIDE DEF one
    <3>4. Range(server'.flight) = {tail} \cup Range(Drop(flight, n))
      BY <2>1, <3>2, <3>3, ConcatOf
    <3>5. flight[n] \in Falling
      BY <1>2, <1>3 DEF Falling, Range
    <3> QED BY <2>1, <2>2, <3>1, <3>4, <3>5, AlikeSelf
  <2> QED BY <1>1, <2>3, <2>4 DEF Dispatched
<1>8. ASSUME NEW m \in Falling'
      PROVE  \E l \in Falling : Alike(m, l)
  <2>1. context' = context
    BY ServerSent DEF Served
  <2>2. record.body = body
    BY DEF Record
  <2>3. m \in Falling \/ m \in Range(server'.flight) \/ m \in Range(body)
    <3> HIDE DEF record
    <3> QED BY <1>4, <1>5, <2>1, <2>2 DEF Falling
  <2> QED BY <1>6, <1>7, <2>3, AlikeSelf
<1>9. ServerSide /\ UNCHANGED <<server.phase, server.secret, server.sent, server.transcript>>
  BY ServerSent, ServerOnward DEF ServerStep
<1>10. \A m \in Falling : GoodDown(m) => GoodDown(m)'
  BY <1>9, DownStays
<1> QED BY <1>8, <1>10, DownGoes

LEMMA DownEmpty ==
    ASSUME server' = ServerInit, down' = <<>>, context'.rx = <<>>, context'.rxRecord = <<>>
    PROVE  DownInv'
<1>1. Falling' = {}
  BY DEF Falling, Range, ServerInit
<1> QED BY <1>1 DEF DownInv

LEMMA FallingType ==
    ASSUME TypeInv, NEW m \in Falling
    PROVE  m \in ProperMessages
<1>1. CASE m \in Range(server.flight) \cup Range(context.rx)
  <2>1. server.flight \in Seq(ProperMessages) /\ context.rx \in Seq(ProperMessages)
    BY DEF TypeInv, ProperServers, ProperContexts
  <2> QED BY <1>1, <2>1 DEF Range
<1>2. CASE m \in UNION {Range(h.record.body) : h \in Range(down) \cup Range(context.rxRecord)}
  <2>1. PICK h \in Range(down) \cup Range(context.rxRecord) : m \in Range(h.record.body)
    BY <1>2
  <2>2. down \in Seq(ProperHalves) /\ context.rxRecord \in Seq(ProperHalves)
    BY DEF TypeInv, ProperContexts
  <2>3. h \in ProperHalves
    BY <2>2 DEF Range
  <2>4. h.record.body \in Seq(ProperMessages)
    BY <2>3 DEF ProperHalves, Bodies
  <2> QED BY <2>1, <2>4 DEF Range
<1> QED BY <1>1, <1>2 DEF Falling

LEMMA StepDown ==
    ASSUME TypeInv, CallInv, ShapeInv, ServerInv, UpInv, DownInv, [Next]_vars
    PROVE  DownInv'
<1>1. CASE Onward /\ ClientSide
  BY <1>1, DownAfterClient DEF ClientSide
<1>2. CASE Open \/ Close
  <2>1. server' = ServerInit /\ down' = <<>> /\ context'.rx = <<>> /\ context'.rxRecord = <<>>
    BY <1>2 DEF Open, Close, CallInv, FreshContext, world
  <2> QED BY <2>1, DownEmpty
<1>3. ASSUME ServerSide, UNCHANGED server, Falling' \subseteq Falling
      PROVE  DownInv'
  BY <1>3, ServerSideOnward, DownAfterClient
<1>4. CASE ServerStep \/ SendData \/ CloseNotify
  <2>1. ServerSide /\ context' = context
    BY <1>4, ServerOnward DEF ServerSide
  <2>2. CASE AnswerFull \/ AnswerResumed
    BY <2>2, DownAnswers
  <2>3. CASE TakeMessage
    <3>1. /\ server.phase = "handshake" /\ UNCHANGED <<context, down>>
          /\ UNCHANGED <<server.phase, server.flight, server.sent>>
          /\ InTurn(Arriving) /\ Arriving.name \in {"Certificate", "ClientKeyExchange", "CertificateVerify"}
      BY <2>3, MessageTaken DEF Took, Served
    <3>2. ~server.resume
      <4>1. Arriving.name = Head(server.expects) /\ (server.resume => server.expects \in Ends)
        BY <3>1 DEF InTurn, ServerInv
      <4> QED BY <3>1, <4>1, TailsOf DEF Ends
    <3>3. ASSUME NEW m, GoodDown(m)
          PROVE  GoodDown(m)'
      <4>1. m.name # "Finished"
        BY <3>1, <3>2, <3>3 DEF GoodDown
      <4> QED BY <2>1, <3>1, <3>3, <4>1, DownStays
    <3>4. Falling' \subseteq Falling
      BY <3>1 DEF Falling
    <3> QED BY <3>3, <3>4, AlikeSelf, DownGoes
  <2>4. CASE TakeChangeCipherSpec \/ TakeData
    <3>1. /\ UNCHANGED <<server.phase, server.secret, server.transcript, server.flight, server.sent>>
          /\ UNCHANGED <<context, down>>
      BY <2>4, ChangeCipherSpecTaken, DataTaken DEF Took, Served
    <3>2. \A m \in Falling : GoodDown(m) => GoodDown(m)'
      BY <2>1, <3>1, DownStays
    <3>3. Falling' \subseteq Falling
      BY <3>1 DEF Falling
    <3> QED BY <3>2, <3>3, AlikeSelf, DownGoes
  <2>5. CASE TakeFinished
    BY <2>5, DownFinishes
  <2>6. CASE TakeAlert
    <3>1. /\ server'.phase = "over" /\ Range(server'.flight) = {} /\ down' = down
          /\ UNCHANGED <<server.secret, server.sent, server.transcript>>
      BY <2>6, AlertTaken DEF Range, Took
    <3> QED BY <2>1, <3>1, DownOver
  <2>7. CASE ServerRefuses
    <3>1. /\ server'.phase = "over" /\ server'.flight = <<Fatal>> /\ down' = down
          /\ UNCHANGED <<server.secret, server.sent, server.transcript>>
      BY <2>7, ServerRefused
    <3>2. Range(server'.flight) = {Fatal} /\ Fatal.name = "fatal"
      BY <3>1, RangeOfOne DEF Fatal, Message
    <3> QED BY <2>1, <3>1, <3>2, DownOver
  <2>8. CASE ServerSends
    BY <2>8, DownSent
  <2>9. CASE ServerEnds
    <3>1. server' = server /\ down' = down
      BY <2>9 DEF ServerEnds, world
    <3> QED BY <1>3, <2>1, <3>1 DEF Falling
  <2>10. CASE SendData
    <3> DEFINE b == Bound(MaxSent)
    <3>1. /\ server.phase = "data" /\ server'.phase = "data" /\ server.sent = 0
          /\ server'.sent = b /\ b \in Nat
          /\ server'.flight = [i \in 1 .. b |-> Message("data", i, <<>>)]
          /\ UNCHANGED <<server.secret, server.transcript, down>>
      BY <2>10, DataSent
    <3>2. \A m \in Falling : GoodDown(m) => GoodDown(m)'
      <4>1. SUFFICES ASSUME NEW m \in Falling, GoodDown(m)
                     PROVE  GoodDown(m)'
        OBVIOUS
      <4>2. m.name = "data" /\ m.id <= server.sent => m.id <= server'.sent
        <5>1. m.name = "data" => m.id \in Int
          BY FallingType DEF ProperMessages, Data
        <5> QED BY <3>1, <5>1
      <4> QED BY <2>1, <3>1, <4>1, <4>2, DownStays
    <3>3. ASSUME NEW m \in Range(server'.flight)
          PROVE  GoodDown(m)'
      <4>1. PICK i \in 1 .. b : m = Message("data", i, <<>>)
        BY <3>1 DEF Range
      <4>2. m.name = "data" /\ m.id <= server'.sent
        BY <3>1, <4>1 DEF Message
      <4> QED BY <3>1, <4>2 DEF GoodDown
    <3> QED BY <2>1, <3>1, <3>2, <3>3, FallingReplaced, AlikeSelf, DownGoes
  <2>11. CASE CloseNotify
    <3>1. /\ server'.phase = "over" /\ server'.flight = <<Message("close_notify", Nothing, <<>>)>>
          /\ down' = down /\ UNCHANGED <<server.secret, server.sent, server.transcript>>
      BY <2>11, CloseNotifySaid
    <3>2. /\ Range(server'.flight) = {Message("close_notify", Nothing, <<>>)}
          /\ Message("close_notify", Nothing, <<>>).name = "close_notify"
      BY <3>1, RangeOfOne DEF Message
    <3> QED BY <2>1, <3>1, <3>2, DownOver
  <2> QED BY <1>4, <2>2, <2>3, <2>4, <2>5, <2>6, <2>7, <2>8, <2>9, <2>10, <2>11 DEF ServerStep
<1>5. CASE Trouble
  <2>1. SUFFICES ASSUME ServerSide
                 PROVE  DownInv'
    BY <1>1, <1>5, TroubleOnward
  <2>2. context' = context
    BY <2>1 DEF ServerSide
  <2>3. CASE Reject
    <3>1. /\ server'.phase = "over" /\ server'.flight = <<Fatal>> /\ down' = down
          /\ UNCHANGED <<server.secret, server.sent, server.transcript>>
      BY <2>3, Rejected DEF Took
    <3>2. Range(server'.flight) = {Fatal} /\ Fatal.name = "fatal"
      BY <3>1, RangeOfOne DEF Fatal, Message
    <3> QED BY <2>1, <3>1, <3>2, DownOver
  <2>4. CASE AskAgain
    <3> DEFINE request == Message("HelloRequest", Nothing, <<>>)
    <3>1. /\ server'.flight = server.flight \o <<request>> /\ down' = down
          /\ UNCHANGED <<server.phase, server.secret, server.sent, server.transcript>>
      BY <2>4, AskedAgain
    <3>2. \A m \in Falling : GoodDown(m) => GoodDown(m)'
      BY <2>1, <3>1, DownStays
    <3>3. request.name = "HelloRequest" /\ request \in ProperMessages
      BY BareOf, NothingOf DEF Message, Names
    <3> DEFINE ms == <<request>>
    <3>4. ms \in Seq(ProperMessages) /\ Range(ms) = {request}
      BY <3>3, SingleOf
    <3>5. Says(ms)
      BY <3>1, <3>4 DEF Says
    <3>6. GoodDown(request)'
      BY <3>3 DEF GoodDown
    <3>7. Falling' = Falling \cup {request}
      BY <2>2, <3>1, <3>4, <3>5, FallingSaid
    <3> HIDE DEF request
    <3>8. request' = request
      BY DEF request, Message, Nothing
    <3> QED BY <3>2, <3>6, <3>7, <3>8, AlikeSelf, DownGoes
  <2>5. CASE Reset
    <3>1. /\ server'.phase = "over" /\ Range(server'.flight) = {} /\ down' = <<>>
          /\ UNCHANGED <<server.secret, server.sent, server.transcript>>
      BY <2>5, WasReset DEF Range
    <3> QED BY <2>1, <3>1, DownOver
  <2>6. CASE Damage
    <3>1. server' = server /\ (down' = down \/ (Damageable(down) /\ down' = Damaged(down)))
      BY <2>6 DEF Damage, world
    <3>2. \A h \in Range(down') : \E g \in Range(down) : h.record = g.record
      <4>1. down \in Seq(ProperHalves)
        BY DEF TypeInv
      <4> QED BY <3>1, <4>1, DamagedOf
    <3>3. Falling' \subseteq Falling
      BY <2>2, <3>1, <3>2 DEF Falling
    <3> QED BY <1>3, <2>1, <3>1, <3>3
  <2>7. CASE ElementFails \/ ConnectTimeout
    <3>1. server' = server
      BY <2>7 DEF ElementFails, ConnectTimeout, world
    <3>2. Falling' \subseteq Falling
      <4>1. CASE ElementFails
        BY <4>1, ElementRefused, RefusedOnward DEF ClientSide
      <4>2. CASE ConnectTimeout
        BY <4>2 DEF ConnectTimeout, net, world, Falling
      <4> QED BY <2>7, <4>1, <4>2
    <3> QED BY <1>3, <2>1, <3>1, <3>2
  <2> QED BY <1>5, <2>3, <2>4, <2>5, <2>6, <2>7 DEF Trouble
<1>6. CASE UNCHANGED vars
  <2>1. Onward /\ server' = server
    BY <1>6, OnwardKept DEF vars
  <2>2. Falling' \subseteq Falling
    BY <1>6 DEF vars, Falling
  <2> QED BY <2>1, <2>2, DownAfterClient
<1> QED BY <1>1, <1>2, <1>4, <1>5, <1>6, HandshakeOnward, RecordOnward, CallerOnward DEF Next

-----------------------------------------------------------------------------
(* What the two ends agree on *)

LEMMA AgreedKept ==
    ASSUME AgreedInv, link' = link, context'.state \in Sending => context.state \in Sending,
           Agreed' => Agreed,
           UNCHANGED <<server, context.resume, context.masterSecret, context.transcript, context.sessionId>>
    PROVE  AgreedInv'
<1>1. UNCHANGED <<SameSession, OwnFinished>>
  BY DEF SameSession, OwnFinished
<1> QED BY <1>1 DEF AgreedInv

LEMMA AgreedIdle ==
    ASSUME \/ context'.state \notin Sending \cup {"APPLICATION_DATA", "CLOSING"}
           \/ context'.state = "CLOSING" /\ context'.fatalAlert
    PROVE  AgreedInv'
  BY DEF AgreedInv, Agreed, Sending

LEMMA AgreedAfterServer ==
    ASSUME AgreedInv, ServerSide, server'.phase \in {server.phase, "over"},
           UNCHANGED <<server.secret, server.transcript>>
    PROVE  AgreedInv'
<1>1. Agreed' = Agreed /\ OwnFinished' = OwnFinished
  BY DEF ServerSide, Agreed, OwnFinished
<1>2. server.phase # "hello" => (SameSession' = SameSession /\ UNCHANGED server.id)
  BY DEF ServerSide, SameSession
<1>3. CASE context.resume /\ context.state \in Sending
  <2>1. ~Agreed
    BY <1>3 DEF Sending, Agreed
  <2> QED BY <1>1, <1>3, <2>1 DEF AgreedInv, ServerSide
<1>4. CASE ~(context.resume /\ context.state \in Sending)
  BY <1>1, <1>2, <1>4 DEF AgreedInv, ServerSide
<1> QED BY <1>3, <1>4

\* The client has verified the Finished of the server.
LEMMA FinishedAgreed ==
    ASSUME TypeInv, CallInv, ContextInv, ServerInv, DownInv, ParseFinished
    PROVE  AgreedInv'
<1>1. /\ context.state = "SERVER_FINISHED" /\ Verifies(context, Incoming)
      /\ Moved("Finished", IF context.resume THEN "CLIENT_CHANGE_CIPHER_SPEC" ELSE "APPLICATION_DATA")
  BY MessagesParsed
<1>2. /\ Ready /\ Incoming.name = "Finished"
      /\ context'.state = IF context.resume THEN "CLIENT_CHANGE_CIPHER_SPEC" ELSE "APPLICATION_DATA"
      /\ context.transcript # <<>> => context'.transcript = Append(context.transcript, Hashed(Incoming))
      /\ UNCHANGED <<context.resume, context.sessionId, context.masterSecret, server, link>>
  BY <1>1 DEF Moved, Parsed, Idle
<1>3. link # "none"
  BY <1>2, ReadyState
<1>4. /\ context.transcript # <<>> /\ context.resume = server.resume
      /\ context.sessionId = server.id
  BY <1>1, <1>3 DEF ContextInv, BeforeHello, Over
<1>5. GoodDown(Incoming)
  BY <1>2, IncomingOf
<1>6. /\ Incoming.id = server.secret
      /\ IF server.resume THEN server.phase # "hello" ELSE server.phase \in {"data", "over"}
      /\ server.transcript = Append(Incoming.hash, FinishedOf(Incoming))
  BY <1>1, <1>2, <1>5 DEF GoodDown, Over
<1>7. context'.transcript = server.transcript /\ context.masterSecret = server.secret
  BY <1>1, <1>2, <1>4, <1>6 DEF Verifies, Hashed, FinishedOf
<1>8. server.phase \in {"hello", "handshake", "data", "over"}
  BY DEF TypeInv, ProperServers
<1>9. CASE context.resume
  <2>1. server.phase # "data"
    BY <1>1, <1>9 DEF ServerInv, FinishedSent, Over
  <2> QED BY <1>2, <1>4, <1>6, <1>7, <1>8, <1>9, <2>1 DEF AgreedInv, Agreed
<1>10. CASE ~context.resume
  BY <1>2, <1>4, <1>6, <1>7, <1>8, <1>10 DEF AgreedInv, SameSession, Sending, OwnFinished
<1> QED BY <1>9, <1>10

\* The client sends its Finished, the last message of a handshake that resumes a session.
LEMMA FinishedSentAgreed ==
    ASSUME TypeInv, CallInv, ContextInv, AgreedInv, SendFinished
    PROVE  AgreedInv'
<1> DEFINE to == IF context.resume THEN "APPLICATION_DATA" ELSE "SERVER_CHANGE_CIPHER_SPEC"
<1>1. /\ Sent("CLIENT_FINISHED", to, Message("Finished", context.masterSecret, context.transcript))
      /\ context'.masterSecret = context.masterSecret
      /\ context.transcript # <<>> =>
           context'.transcript = Append(context.transcript, <<"Finished", context.masterSecret>>)
  BY FinishedSentOf
<1>2. /\ call = "connect" /\ context.state = "CLIENT_FINISHED" /\ context'.state \in {to, "CLOSED"}
      /\ UNCHANGED <<context.resume, context.sessionId, server, link>>
  BY <1>1 DEF Sent, Untouched, Elsewhere
<1>3. CASE context.resume /\ context'.state = "APPLICATION_DATA"
  <2>1. link # "none"
    BY <1>2 DEF CallInv
  <2>2. /\ context.masterSecret = server.secret /\ server.phase \in {"handshake", "over"}
        /\ context.transcript = server.transcript
    BY <1>2, <1>3, <2>1 DEF AgreedInv, Sending
  <2>3. context.resume = server.resume /\ context.sessionId = server.id /\ context.transcript # <<>>
    BY <1>2, <2>1 DEF ContextInv, BeforeHello, Over
  <2>4. context'.transcript = Append(server'.transcript, <<"Finished", server'.secret>>)
    BY <1>1, <1>2, <2>2, <2>3
  <2> QED BY <1>1, <1>2, <1>3, <2>2, <2>3, <2>4 DEF AgreedInv, SameSession, Sending, OwnFinished
<1>4. CASE ~(context.resume /\ context'.state = "APPLICATION_DATA")
  BY <1>2, <1>4, AgreedIdle DEF Sending
<1> QED BY <1>3, <1>4

\* The server has verified the Finished of the client.
LEMMA FinishedTakenAgreed ==
    ASSUME TypeInv, CallInv, ServerInv, UpInv, AgreedInv, TakeFinished
    PROVE  AgreedInv'
<1>1. /\ Took("handshake", {"Finished"}) /\ InTurn(Arriving) /\ server'.phase = "data"
      /\ UNCHANGED <<server.resume, server.id, server.secret>>
      /\ server.resume => server'.transcript = Append(server.transcript, Hashed(Arriving))
  BY FinishedTaken
<1>2. /\ server.phase = "handshake" /\ UNCHANGED <<context, link>> /\ Arriving.name = "Finished"
      /\ Arriving.id = server.secret
  BY <1>1 DEF Took, Served, InTurn
<1>3. GoodUp(Arriving, server.decryption) /\ link # "none"
  BY <1>1, ArrivingOf, TookLinked
<1>4. context.state \notin Sending
  BY <1>2, <1>3 DEF GoodUp, FinishedSent, Over, Awaiting, Sending
<1>5. ASSUME Agreed
      PROVE  context'.transcript = server'.transcript /\ server.resume
  <2>1. server.resume /\ context.transcript = Append(server.transcript, OwnFinished)
    BY <1>2, <1>3, <1>5 DEF AgreedInv
  <2> QED BY <1>1, <1>2, <2>1 DEF Hashed, OwnFinished
<1>6. Agreed' = Agreed /\ SameSession' = SameSession
  BY <1>1, <1>2 DEF Agreed, SameSession
<1> QED BY <1>1, <1>2, <1>4, <1>5, <1>6 DEF AgreedInv

LEMMA AgreedSent ==
    ASSUME NEW from, NEW to \in States, NEW m, Sent(from, to, m),
           to \notin Sending \cup {"APPLICATION_DATA", "CLOSING"}
    PROVE  AgreedInv'
  BY AgreedIdle DEF Sent, Sending

LEMMA HandshakeAgreed ==
    ASSUME TypeInv, CallInv, ContextInv, ServerInv, DownInv, AgreedInv, HandshakeStep
    PROVE  AgreedInv'
<1>1. CASE InitHandshake
  <2>1. context'.state = "CLIENT_HELLO"
    BY <1>1 DEF InitHandshake, TypeInv, ProperContexts
  <2> QED BY <2>1, AgreedIdle DEF Sending
<1>2. CASE FlushPending
  <2>1. /\ context'.state \in {context.state, "CLOSED"}
        /\ UNCHANGED <<context.masterSecret, context.transcript, context.resume, context.sessionId,
                       context.fatalAlert, link, server>>
    BY <1>2, Flushed DEF Untouched, Elsewhere
  <2>2. CASE context'.state = context.state
    BY <2>1, <2>2, AgreedKept DEF Agreed
  <2> QED BY <2>1, <2>2, AgreedIdle DEF Sending
<1>3. CASE SendClientHello
  BY <1>3, ClientHelloSent, AgreedSent DEF Sending, States, ServerStates
<1>4. CASE SendCertificate
  <2>1. conn > 0
    BY <1>4 DEF SendCertificate, Proceed, InTurnToSend, CallInv
  <2> QED BY <1>4, <2>1, CertificateSent, AgreedSent DEF Sending, States, ClientStates
<1>5. CASE SendClientKeyExchange
  BY <1>5, ClientKeyExchangeSent, AgreedSent DEF Sending, States, ClientStates
<1>6. CASE SendCertificateVerify
  <2>1. /\ context.state = "CLIENT_CERTIFICATE_VERIFY"
        /\ context'.state \in {"CLIENT_CHANGE_CIPHER_SPEC", "CLOSED"}
        /\ UNCHANGED context.resume
    BY <1>6, CertificateVerifySent DEF Sent, Untouched
  <2>2. ~context.resume
    BY <2>1 DEF ContextInv, OnlyFull
  <2> QED BY <2>1, <2>2 DEF AgreedInv, Agreed
<1>7. CASE SendChangeCipherSpec
  <2>1. /\ context.state = "CLIENT_CHANGE_CIPHER_SPEC" /\ context'.state \in {"CLIENT_FINISHED", "CLOSED"}
        /\ UNCHANGED <<context.masterSecret, context.transcript, context.resume, context.sessionId,
                       link, server>>
    BY <1>7, ChangeCipherSpecSent DEF Sent, Untouched, Elsewhere
  <2> QED BY <2>1, AgreedKept DEF Agreed, Sending
<1>8. CASE SendFinished
  BY <1>8, FinishedSentAgreed
<1>9. CASE ParseServerHello
  BY <1>9, ServerHelloParsed, AgreedIdle DEF Sending
<1>10. ASSUME NEW name, NEW to, Moved(name, to), to \notin Sending \cup {"APPLICATION_DATA", "CLOSING"}
       PROVE  AgreedInv'
  BY <1>10, AgreedIdle DEF Moved
<1>11. CASE ParseCertificate \/ ParseServerKeyExchange \/ ParseCertificateRequest \/ ParseServerHelloDone
  BY <1>10, <1>11, MessagesParsed DEF Sending
<1>12. CASE ParseFinished
  BY <1>12, FinishedAgreed
<1>13. CASE ParseHelloRequest
  <2>1. Ready /\ context.state # "APPLICATION_DATA" /\ Moved("HelloRequest", context.state)
    BY <1>13, MessagesParsed DEF Moved, Parsed
  <2>2. context.state \in ServerStates
    BY <2>1, ReadyState
  <2> QED BY <1>10, <2>1, <2>2 DEF ServerStates, Sending
<1>14. CASE ParseChangeCipherSpec
  BY <1>14, ChangeCipherSpecParsed, AgreedIdle DEF Sending
<1>15. CASE Established \/ HandshakeFailed
  <2>1. UNCHANGED <<context, link, server>>
    BY <1>15 DEF Established, HandshakeFailed, net, world
  <2> QED BY <2>1, AgreedKept DEF Agreed
<1> QED BY <1>1, <1>2, <1>3, <1>4, <1>5, <1>6, <1>7, <1>8, <1>9, <1>11, <1>12, <1>13, <1>14,
           <1>15 DEF HandshakeStep

LEMMA StepAgreed ==
    ASSUME TypeInv, CallInv, ShapeInv, ContextInv, ServerInv, UpInv, DownInv, AgreedInv, [Next]_vars
    PROVE  AgreedInv'
<1>1. ASSUME UNCHANGED <<context, link, server>>
      PROVE  AgreedInv'
  BY <1>1, AgreedKept DEF Agreed
<1>2. ASSUME Refused
      PROVE  AgreedInv'
  BY <1>2, AgreedIdle DEF Refused
<1>3. CASE HandshakeStep
  BY <1>3, HandshakeAgreed
<1>4. CASE RecordStep
  <2>1. CASE ReceiveHeader \/ ReceiveRecord \/ ParseData
    <3>1. UNCHANGED <<context.state, context.resume, context.sessionId, context.masterSecret,
                      context.transcript, context.fatalAlert>>
      BY <2>1, RecordReceived, DataParsed DEF ReceiveHeader, TypeInv, ProperContexts
    <3>2. UNCHANGED <<link, server>>
      BY <2>1, RecordReceived, DataParsed DEF ReceiveHeader, world
    <3> QED BY <3>1, <3>2, AgreedKept DEF Agreed
  <2>2. CASE ReceiveBadRecord
    BY <1>2, <2>2, BadRecordRefused
  <2>3. CASE ReceiveFails
    <3>1. context'.state = "CLOSED"
      BY <2>3 DEF ReceiveFails, TypeInv, ProperContexts
    <3> QED BY <3>1, AgreedIdle DEF Sending
  <2>4. CASE ParseAlert
    <3>1. CASE context'.state = "CLOSED"
      BY <3>1, AgreedIdle DEF Sending
    <3>2. CASE context'.state # "CLOSED"
      <4>1. /\ Parsed("close_notify")
            /\ context'.state = IF context.state = "APPLICATION_DATA" THEN "CLOSING" ELSE context.state
            /\ UNCHANGED <<context.fatalAlert, context.sessionId, context.resume, context.transcript>>
        BY <2>4, <3>2, AlertParsed
      <4>2. UNCHANGED <<context.masterSecret, link, server>>
        BY <4>1 DEF Parsed, Idle
      <4>3. Agreed' => Agreed
        BY <4>1 DEF Agreed
      <4>4. context'.state \in Sending => context.state \in Sending
        BY <4>1 DEF Sending
      <4> QED BY <4>1, <4>2, <4>3, <4>4, AgreedKept
    <3> QED BY <3>1, <3>2
  <2>5. CASE ParseRefused \/ RefuseRenegotiation
    BY <1>2, <2>5, MessageRefused
  <2>6. CASE CallEnds
    BY <1>1, <2>6 DEF CallEnds, net, world
  <2> QED BY <1>4, <2>1, <2>2, <2>3, <2>4, <2>5, <2>6 DEF RecordStep
<1>5. CASE CallerStep
  <2>1. CASE Open \/ Close
    <3>1. context'.state = "INIT"
      BY <2>1 DEF Open, Close, FreshContext
    <3> QED BY <3>1, AgreedIdle DEF Sending
  <2>2. CASE (\E n \in 1 .. 2 : StartWrite(n)) \/ StartRead \/ ReadTimeout
    BY <1>1, <2>2 DEF StartWrite, StartRead, ReadTimeout, net, world
  <2>3. CASE WriteData
    <3>1. /\ context'.state \in {context.state, "CLOSED"}
          /\ UNCHANGED <<context.masterSecret, context.transcript, context.resume, context.sessionId,
                         context.fatalAlert, link, server>>
      BY <2>3, DataWritten DEF Untouched
    <3>2. CASE context'.state = context.state
      BY <3>1, <3>2, AgreedKept DEF Agreed
    <3> QED BY <3>1, <3>2, AgreedIdle DEF Sending
  <2>4. CASE StartShutdown
    <3>1. /\ context.state = "APPLICATION_DATA" /\ context'.state = "CLOSING"
          /\ UNCHANGED <<context.masterSecret, context.transcript, context.resume, context.sessionId,
                         context.fatalAlert, link, server>>
      BY <2>4 DEF StartShutdown, TypeInv, ProperContexts, net, world
    <3> QED BY <3>1, AgreedKept DEF Agreed, Sending
  <2>5. CASE SendCloseNotify
    <3>1. /\ context'.state \in {context.state, "CLOSED"}
          /\ UNCHANGED <<context.masterSecret, context.transcript, context.resume, context.sessionId,
                         context.fatalAlert, link, server>>
      BY <2>5, CloseNotifySent
    <3>2. CASE context'.state = context.state
      BY <3>1, <3>2, AgreedKept DEF Agreed
    <3> QED BY <3>1, <3>2, AgreedIdle DEF Sending
  <2> QED BY <1>5, <2>1, <2>2, <2>3, <2>4, <2>5 DEF CallerStep
<1>6. CASE ServerStep \/ SendData \/ CloseNotify
  <2>1. ServerSide
    BY <1>6, ServerOnward
  <2>3. CASE AnswerFull \/ AnswerResumed
    <3>1. server.phase = "hello"
      BY <2>3, AnsweredFull, AnsweredResumed DEF Took
    <3>2. ~Agreed /\ ~(context.resume /\ context.state \in Sending)
      BY <2>1, <3>1 DEF AgreedInv, ServerSide
    <3> QED BY <2>1, <3>2 DEF AgreedInv, Agreed, ServerSide
  <2>4. CASE TakeMessage
    <3>1. /\ server.phase = "handshake" /\ UNCHANGED <<context, link>>
          /\ InTurn(Arriving) /\ Arriving.name \in {"Certificate", "ClientKeyExchange", "CertificateVerify"}
      BY <2>4, MessageTaken DEF Took, Served
    <3>2. ~server.resume
      <4>1. Arriving.name = Head(server.expects) /\ (server.resume => server.expects \in Ends)
        BY <3>1 DEF InTurn, ServerInv
      <4> QED BY <3>1, <4>1, TailsOf DEF Ends
    <3>3. link # "none"
      BY <2>1 DEF ServerSide
    <3>4. ~Agreed
      BY <3>1, <3>2, <3>3 DEF AgreedInv
    <3>5. context.state \in Sending => ~context.resume
      BY <3>2, <3>3 DEF Sending, ContextInv, BeforeHello, Over
    <3> QED BY <3>1, <3>4, <3>5 DEF AgreedInv, Agreed
  <2>5. CASE TakeChangeCipherSpec \/ TakeData
    BY <2>1, <2>5, ChangeCipherSpecTaken, DataTaken, AgreedAfterServer
  <2>6. CASE TakeFinished
    BY <2>6, FinishedTakenAgreed
  <2>7. CASE TakeAlert \/ ServerRefuses \/ ServerSends
    BY <2>1, <2>7, AlertTaken, ServerRefused, ServerSent, AgreedAfterServer
  <2>8. CASE ServerEnds
    BY <2>1, <2>8, AgreedAfterServer DEF ServerEnds, world
  <2>9. CASE SendData \/ CloseNotify
    BY <2>1, <2>9, DataSent, CloseNotifySaid, AgreedAfterServer
  <2> QED BY <1>6, <2>3, <2>4, <2>5, <2>6, <2>7, <2>8, <2>9 DEF ServerStep
<1>7. CASE Trouble
  <2>1. CASE ElementFails
    BY <1>2, <2>1, ElementRefused
  <2>2. CASE ConnectTimeout
    BY <1>1, <2>2 DEF ConnectTimeout, net, world
  <2>3. CASE Damage
    BY <1>1, <2>3 DEF Damage, world
  <2>4. CASE Reject
    <3>1. server.phase = "hello" /\ UNCHANGED <<context, link>> /\ link # "none"
      BY <2>4, Rejected, TookLinked DEF Took, Served
    <3>2. ~Agreed /\ ~(context.resume /\ context.state \in Sending)
      BY <3>1 DEF AgreedInv
    <3> QED BY <3>1, <3>2 DEF AgreedInv, Agreed
  <2>5. CASE AskAgain \/ Reset
    <3>1. UNCHANGED <<context, conn>> /\ link # "none" /\ link' # "none"
      BY <2>5, AskedAgain, WasReset, PhaseLinked DEF Served
    <3>2. /\ UNCHANGED <<context, server.resume, server.id, server.secret, server.transcript>>
          /\ server'.phase \in {server.phase, "over"}
      BY <2>5, AskedAgain, WasReset DEF Served
    <3>3. ServerSide
      BY <2>5, <3>1, <3>2, AskedAgain, WasReset DEF ServerSide, Served
    <3> QED BY <3>2, <3>3, AgreedAfterServer
  <2> QED BY <1>7, <2>1, <2>2, <2>3, <2>4, <2>5 DEF Trouble
<1>8. CASE UNCHANGED vars
  BY <1>1, <1>8 DEF vars
<1> QED BY <1>3, <1>4, <1>5, <1>6, <1>7, <1>8 DEF Next

-----------------------------------------------------------------------------
(* What the steps mean for what is on its way to the client *)

\* Nothing of it moves.
StreamStays ==
    /\ UNCHANGED <<context.rx, context.rxRecord, down, server, got, link>>
    /\ Live' => Live

\* A message of the handshake or an alert is taken.
StreamParses == Live /\ (\E name \in Names : name # "data" /\ Parsed(name))

\* The server says something that is not data, or nothing.
Speech == Names \ {"data", "close_notify"}

ServerSpeaks ==
    /\ UNCHANGED <<context, got, down, link, server.sent>>
    /\ \/ server'.flight = server.flight
       \/ \E ms : Says(ms) /\ \A i \in DOMAIN ms : ms[i].name \in Speech
    /\ server'.phase = server.phase \/ server.sent = 0
    /\ server.phase = "over" => server'.phase = "over"

\* It gives up what it had to say, and so may the connection.
ServerStops ==
    /\ UNCHANGED <<context, got, server.sent>>
    /\ server'.phase = "over"
    /\ server'.flight = <<>> \/ server'.flight = <<Fatal>>
    /\ \/ UNCHANGED <<down, link>>
       \/ down' = <<>> /\ link' = "reset"

LEMMA SentStays ==
    ASSUME NEW from \in ClientStates, NEW to, NEW m, Sent(from, to, m)
    PROVE  StreamStays
<1>1. Live
  BY DEF Sent, Live, ClientStates, Over
<1> QED BY <1>1 DEF Sent, Untouched, Elsewhere, StreamStays

LEMMA StreamAlone ==
    ASSUME UNCHANGED <<context, down, server, got, link>>
    PROVE  StreamStays
  BY DEF StreamStays, Live

LEMMA StreamHandshake ==
    ASSUME TypeInv, CallInv, HandshakeStep
    PROVE  StreamStays \/ StreamParses
<1> USE DEF ClientStates
<1>1. CASE InitHandshake
  <2>1. /\ context.state = "INIT"
        /\ UNCHANGED <<context.rx, context.rxRecord, down, server, got, link>>
    BY <1>1 DEF InitHandshake, TypeInv, ProperContexts, caller, net, world
  <2> QED BY <2>1 DEF StreamStays, Live, Over
<1>2. CASE FlushPending
  <2>1. /\ UNCHANGED <<context.rx, context.rxRecord, down, server, got, link>>
        /\ context'.state \in {context.state, "CLOSED"}
    BY <1>2, Flushed DEF Untouched, Elsewhere
  <2> QED BY <2>1 DEF StreamStays, Live, Over
<1>3. CASE SendClientHello
  BY <1>3, ClientHelloSent, SentStays
<1>4. CASE SendCertificate
  <2>1. conn > 0
    BY <1>4 DEF SendCertificate, Proceed, InTurnToSend, CallInv
  <2> QED BY <1>4, <2>1, CertificateSent, SentStays
<1>5. CASE SendClientKeyExchange
  BY <1>5, ClientKeyExchangeSent, SentStays
<1>6. CASE SendCertificateVerify
  BY <1>6, CertificateVerifySent, SentStays
<1>7. CASE SendChangeCipherSpec
  BY <1>7, ChangeCipherSpecSent, SentStays
<1>8. CASE SendFinished
  BY <1>8, FinishedSentOf, SentStays
<1>9. ASSUME NEW name \in Names, name # "data", Parsed(name)
      PROVE  StreamParses
  BY <1>9, ReadyState DEF StreamParses, Parsed
<1>10. CASE ParseServerHello
  BY <1>9, <1>10, ServerHelloParsed DEF Names
<1>11. CASE \/ ParseCertificate \/ ParseServerKeyExchange \/ ParseCertificateRequest \/ ParseServerHelloDone
            \/ ParseFinished \/ ParseHelloRequest
  BY <1>9, <1>11, MessagesParsed DEF Names, Moved
<1>12. CASE ParseChangeCipherSpec
  BY <1>9, <1>12, ChangeCipherSpecParsed DEF Names
<1>13. CASE Established \/ HandshakeFailed
  BY <1>13, StreamAlone DEF Established, HandshakeFailed, net, world
<1> QED BY <1>1, <1>2, <1>3, <1>4, <1>5, <1>6, <1>7, <1>8, <1>10, <1>11, <1>12, <1>13 DEF HandshakeStep

LEMMA StreamRecord ==
    ASSUME TypeInv, CallInv, RecordStep
    PROVE  \/ StreamStays \/ StreamParses \/ Refused
           \/ ReceiveHeader \/ ReceiveRecord \/ ParseData
<1>1. CASE ReceiveBadRecord \/ ParseRefused \/ RefuseRenegotiation
  BY <1>1, BadRecordRefused, MessageRefused
<1>2. CASE ReceiveFails
  <2>1. context'.state = "CLOSED" /\ UNCHANGED <<context.rx, context.rxRecord, down, server, got, link>>
    BY <1>2 DEF ReceiveFails, TypeInv, ProperContexts, net, world
  <2> QED BY <2>1 DEF StreamStays, Live, Over
<1>3. CASE ParseAlert
  <2>1. Parsed("fatal") \/ Parsed("close_notify")
    BY <1>3, AlertParsed
  <2> QED BY <2>1, ReadyState DEF StreamParses, Parsed, Names
<1>4. CASE CallEnds
  BY <1>4, StreamAlone DEF CallEnds, net, world
<1> QED BY <1>1, <1>2, <1>3, <1>4 DEF RecordStep

LEMMA StreamCaller ==
    ASSUME TypeInv, CallInv, CallerStep
    PROVE  StreamStays \/ Open \/ Close
<1>1. CASE (\E n \in 1 .. 2 : StartWrite(n)) \/ StartRead \/ ReadTimeout
  BY <1>1, StreamAlone DEF StartWrite, StartRead, ReadTimeout, net, world
<1>2. CASE WriteData
  <2>1. /\ context.state = "APPLICATION_DATA" /\ Untouched
        /\ UNCHANGED <<down, server, got, link>>
    BY <1>2, DataWritten
  <2> QED BY <2>1 DEF StreamStays, Untouched, Live, Over
<1>3. CASE StartShutdown
  <2>1. /\ context.state = "APPLICATION_DATA"
        /\ UNCHANGED <<context.rx, context.rxRecord, down, server, got, link>>
    BY <1>3 DEF StartShutdown, TypeInv, ProperContexts, net, world
  <2> QED BY <2>1 DEF StreamStays, Live, Over
<1>4. CASE SendCloseNotify
  <2>1. /\ context'.state \in {context.state, "CLOSED"}
        /\ UNCHANGED <<context.rx, context.rxRecord, down, server, got, link>>
    BY <1>4, CloseNotifySent
  <2> QED BY <2>1 DEF StreamStays, Live, Over
<1> QED BY <1>1, <1>2, <1>3, <1>4 DEF CallerStep

LEMMA SpeaksOf ==
    ASSUME NEW ms, Says(ms), \A m \in Range(ms) : m.name \in Speech
    PROVE  \E s : Says(s) /\ \A i \in DOMAIN s : s[i].name \in Speech
<1>1. \A i \in DOMAIN ms : ms[i].name \in Speech
  BY DEF Range
<1> QED BY <1>1

LEMMA StreamServer ==
    ASSUME TypeInv, CallInv, ServerInv, ServerStep
    PROVE  ServerSpeaks \/ ServerStops \/ ServerSends \/ ServerEnds
<1> USE DEF Served
<1>1. server.phase \in {"hello", "handshake"} => server.sent = 0
  BY DEF ServerInv
<1>2. CASE AnswerFull
  <2>1. /\ Took("hello", {"ClientHello"}) /\ UNCHANGED server.sent
        /\ \E ms : Says(ms) /\ \A i \in DOMAIN ms : ms[i].name \in FullNames
    BY <1>2, AnsweredFull
  <2>2. FullNames \subseteq Speech
    BY DEF FullNames, Speech, Names
  <2> QED BY <1>1, <2>1, <2>2 DEF ServerSpeaks, Took
<1>3. CASE AnswerResumed
  <2>1. Took("hello", {"ClientHello"}) /\ UNCHANGED server.sent
    BY <1>3, AnsweredResumed
  <2>2. PICK ms, hash : /\ Says(ms)
                        /\ Range(ms) = {Message("ServerHello", server'.id, <<>>),
                                        Message("ChangeCipherSpec", Nothing, <<>>),
                                        Message("Finished", server'.secret, hash)}
    BY <1>3, AnsweredResumed
  <2>3. \A m \in Range(ms) : m.name \in Speech
    BY <2>2 DEF Message, Speech, Names
  <2> QED BY <1>1, <2>1, <2>2, <2>3, SpeaksOf DEF ServerSpeaks, Took
<1>4. CASE TakeMessage
  BY <1>4, MessageTaken DEF ServerSpeaks, Took
<1>5. CASE TakeChangeCipherSpec
  BY <1>5, ChangeCipherSpecTaken DEF ServerSpeaks, Took
<1>6. CASE TakeFinished
  <2>1. Took("handshake", {"Finished"}) /\ UNCHANGED server.sent
    BY <1>6, FinishedTaken
  <2>2. CASE server.resume
    <3>1. server'.flight = server.flight
      BY <1>6, <2>2, FinishedTaken
    <3> QED BY <1>1, <2>1, <3>1 DEF ServerSpeaks, Took
  <2>3. CASE ~server.resume
    <3>1. PICK ms, hash : /\ Says(ms)
                          /\ Range(ms) = {Message("ChangeCipherSpec", Nothing, <<>>),
                                          Message("Finished", server.secret, hash)}
      BY <1>6, <2>3, FinishedTaken
    <3>2. \A m \in Range(ms) : m.name \in Speech
      BY <3>1 DEF Message, Speech, Names
    <3> QED BY <1>1, <2>1, <3>1, <3>2, SpeaksOf DEF ServerSpeaks, Took
  <2> QED BY <2>2, <2>3
<1>7. CASE TakeData
  BY <1>7, DataTaken DEF ServerSpeaks, Took
<1>8. CASE TakeAlert
  BY <1>8, AlertTaken DEF ServerStops, Took
<1>9. CASE ServerRefuses
  BY <1>9, ServerRefused DEF ServerStops
<1> QED BY <1>2, <1>3, <1>4, <1>5, <1>6, <1>7, <1>8, <1>9 DEF ServerStep

LEMMA StreamTrouble ==
    ASSUME TypeInv, CallInv, ServerInv, Trouble
    PROVE  StreamStays \/ Refused \/ ServerSpeaks \/ ServerStops \/ Damage
<1>1. CASE Reject
  BY <1>1, Rejected DEF ServerStops, Took, Served
<1>2. CASE AskAgain
  <2> DEFINE request == Message("HelloRequest", Nothing, <<>>)
             ms == <<request>>
  <2>1. request.name \in Speech /\ request \in ProperMessages
    BY BareOf, NothingOf DEF Message, Names, Speech
  <2>2. ms \in Seq(ProperMessages) /\ Range(ms) = {request}
    BY <2>1, SingleOf
  <2>3. server'.flight = server.flight \o ms
    BY <1>2, AskedAgain
  <2>4. Says(ms)
    BY <2>2, <2>3 DEF Says
  <2>5. \E s : Says(s) /\ \A i \in DOMAIN s : s[i].name \in Speech
    BY <2>1, <2>2, <2>4, SpeaksOf
  <2> QED BY <1>2, <2>5, AskedAgain DEF ServerSpeaks, Served
<1>3. CASE Reset
  BY <1>3, WasReset DEF ServerStops
<1>4. CASE ElementFails
  BY <1>4, ElementRefused
<1>5. CASE ConnectTimeout
  BY <1>5, StreamAlone DEF ConnectTimeout, net, world
<1> QED BY <1>1, <1>2, <1>3, <1>4, <1>5 DEF Trouble

\* Every step is one of these.
LEMMA StreamStep ==
    ASSUME TypeInv, CallInv, ServerInv, [Next]_vars
    PROVE  \/ Open \/ Close \/ Refused \/ StreamStays \/ StreamParses
           \/ ReceiveHeader \/ ReceiveRecord \/ ParseData
           \/ ServerSpeaks \/ ServerStops \/ ServerSends \/ ServerEnds \/ SendData \/ CloseNotify \/ Damage
<1>1. CASE UNCHANGED vars
  BY <1>1, StreamAlone DEF vars
<1> QED BY <1>1, StreamHandshake, StreamRecord, StreamCaller, StreamServer, StreamTrouble DEF Next

-----------------------------------------------------------------------------
(* Records and halves *)

LEMMA EvenOf ==
    /\ ~Even(1) /\ Even(0) /\ Even(2)
    /\ \A n \in Int : (Even(n + 2) <=> Even(n)) /\ (Even(n + 1) <=> ~Even(n))
  BY DEF Even

LEMMA UniformDrop ==
    ASSUME NEW S, NEW s \in Seq(S), NEW n \in 0 .. Len(s), Uniform(s)
    PROVE  Uniform(Drop(s, n))
<1> DEFINE t == Drop(s, n)
<1>1. t \in Seq(S) /\ Len(t) = Len(s) - n /\ \A i \in 1 .. Len(s) - n : t[i] = s[n + i]
  BY DropOf
<1> HIDE DEF t
<1>2. SUFFICES \A i \in DOMAIN t : Kind(t[i]) = Kind(t[1])
  BY DEF t, Uniform
<1>3. TAKE i \in DOMAIN t
<1>4. i \in 1 .. Len(s) - n /\ n + i \in DOMAIN s /\ n + 1 \in DOMAIN s /\ 1 \in 1 .. Len(s) - n
  BY <1>1, <1>3
<1>5. t[i] = s[n + i] /\ t[1] = s[n + 1]
  BY <1>1, <1>4
<1> QED BY <1>4, <1>5 DEF Uniform

LEMMA UniformConcat ==
    ASSUME NEW S, NEW s \in Seq(S), NEW t \in Seq(S), Uniform(s), Uniform(t), t # <<>>,
           s # <<>> => Kind(Head(t)) = Kind(Head(s))
    PROVE  Uniform(s \o t)
<1> DEFINE u == s \o t
<1>1. /\ u \in Seq(S) /\ Len(u) = Len(s) + Len(t)
      /\ \A i \in 1 .. Len(s) : u[i] = s[i]
      /\ \A i \in Len(s) + 1 .. Len(s) + Len(t) : u[i] = t[i - Len(s)]
  BY ConcatOf
<1>2. Head(t) = t[1] /\ (s # <<>> => Head(s) = s[1])
  BY TailOf
<1> HIDE DEF u
<1>3. SUFFICES \A i \in DOMAIN u : Kind(u[i]) = Kind(u[1])
  BY DEF u, Uniform
<1>4. Len(t) > 0 /\ (s = <<>> \/ Len(s) > 0) /\ Len(s) \in Nat /\ Len(t) \in Nat
  OBVIOUS
<1>5. CASE s = <<>>
  <2>1. \A i \in DOMAIN u : u[i] = t[i] /\ i \in DOMAIN t
    BY <1>1, <1>5
  <2> QED BY <1>1, <1>4, <2>1 DEF Uniform
<1>6. CASE s # <<>>
  <2>1. u[1] = s[1] /\ Kind(t[1]) = Kind(s[1])
    BY <1>1, <1>2, <1>4, <1>6
  <2>2. TAKE i \in DOMAIN u
  <2>3. CASE i \in 1 .. Len(s)
    BY <1>1, <2>1, <2>3 DEF Uniform
  <2>4. CASE i \in Len(s) + 1 .. Len(s) + Len(t)
    <3>1. i - Len(s) \in DOMAIN t
      BY <2>4
    <3> QED BY <1>1, <2>1, <2>4, <3>1 DEF Uniform
  <2> QED BY <1>1, <2>2, <2>3, <2>4
<1> QED BY <1>5, <1>6

\* Messages are dropped, records may be, and the halves that are left stay in step.
LEMMA ShapeShrinks ==
    ASSUME TypeInv, ShapeInv,
           \E n \in 0 .. Len(context.rx) : context'.rx = Drop(context.rx, n),
           \A h \in Range(down') \cup Range(context'.rxRecord) :
               \E g \in Range(down) \cup Range(context.rxRecord) : h.record = g.record,
           Live' => /\ Live /\ context'.rxRecord = context.rxRecord
                    /\ \A i \in DOMAIN down' : i \in DOMAIN down /\ (down'[i].half = 2 <=> down[i].half = 2)
                    /\ link' = "open" => link = "open" /\ Len(down') = Len(down)
    PROVE  ShapeInv'
<1>1. Uniform(context'.rx)
  <2>1. context.rx \in Seq(ProperMessages)
    BY DEF TypeInv, ProperContexts
  <2> QED BY <2>1, UniformDrop DEF ShapeInv
<1>2. \A h \in Range(down') \cup Range(context'.rxRecord) : Uniform(h.record.body)
  BY DEF ShapeInv
<1>3. Live' => /\ Len(context'.rxRecord) \in {0, 1}
               /\ \A i \in DOMAIN down' : down'[i].half = 2 <=> Even(i + Len(context'.rxRecord))
               /\ link' = "open" => Even(Len(down') + Len(context'.rxRecord))
  BY DEF ShapeInv
<1> QED BY <1>1, <1>2, <1>3 DEF ShapeInv

LEMMA NoneDropped ==
    ASSUME TypeInv, context'.rx = context.rx
    PROVE  \E n \in 0 .. Len(context.rx) : context'.rx = Drop(context.rx, n)
<1>1. context.rx \in Seq(ProperMessages)
  BY DEF TypeInv, ProperContexts
<1>2. Drop(context.rx, 0) = context.rx
  BY <1>1 DEF Drop
<1> QED BY <1>1, <1>2

LEMMA HeaderShape ==
    ASSUME TypeInv, CallInv, ShapeInv, ReceiveHeader
    PROVE  ShapeInv'
<1>1. /\ context'.rx = context.rx /\ context'.rxRecord = Received /\ context'.state = context.state
      /\ down # <<>> /\ down' = Tail(down) /\ context.rxRecord = <<>> /\ link' = link /\ Reading
  BY DEF ReceiveHeader, TypeInv, ProperContexts
<1>2. /\ Received = <<Head(down)>>
      /\ Range(Received) = {Head(down)} /\ Len(Received) = 1
  <2>1. Received = <<Head(down)>>
    BY <1>1 DEF Received
  <2> QED BY <2>1, RangeOfOne
<1>3. /\ Head(down) \in Range(down) /\ Range(Tail(down)) \subseteq Range(down)
      /\ Len(Tail(down)) = Len(down) - 1
      /\ \A i \in 1 .. Len(down) - 1 : Tail(down)[i] = down[i + 1]
      /\ Tail(down) \in Seq(ProperHalves) /\ down \in Seq(ProperHalves)
  BY <1>1, ReceivedOf DEF TypeInv
<1>4. Live /\ Live'
  BY <1>1, ReadyState DEF Live
<1>5. \A i \in DOMAIN Tail(down) : Tail(down)[i].half = 2 <=> Even(i + 1)
  <2>1. TAKE i \in DOMAIN Tail(down)
  <2>2. i \in 1 .. Len(down) - 1 /\ i + 1 \in DOMAIN down
    BY <1>3
  <2>3. Len(context.rxRecord) = 0
    BY <1>1
  <2>4. down[i + 1].half = 2 <=> Even((i + 1) + 0)
    BY <1>4, <2>2, <2>3 DEF ShapeInv
  <2>5. (i + 1) + 0 = i + 1
    BY <2>2
  <2> QED BY <1>3, <2>2, <2>4, <2>5
<1>6. link = "open" => Even(Len(Tail(down)) + 1)
  <2>1. Len(context.rxRecord) = 0 /\ Len(down) \in Nat
    BY <1>1, <1>3
  <2>2. (Len(down) - 1) + 1 = Len(down) + 0
    BY <2>1
  <2> QED BY <1>3, <1>4, <2>1, <2>2 DEF ShapeInv
<1>7. \A h \in Range(down') \cup Range(context'.rxRecord) : Uniform(h.record.body)
  BY <1>1, <1>2, <1>3 DEF ShapeInv
<1> QED BY <1>1, <1>2, <1>5, <1>6, <1>7 DEF ShapeInv

LEMMA RecordShape ==
    ASSUME TypeInv, CallInv, ShapeInv, ReceiveRecord
    PROVE  ShapeInv'
<1> DEFINE body == Head(down).record.body
<1>1. /\ Reading /\ down # <<>> /\ down' = Tail(down)
      /\ Len(context.rxRecord) = 1 /\ context'.rxRecord = <<>>
      /\ body \in Bodies /\ context'.rx = context.rx \o body
      /\ context.rx # <<>> => Kind(Head(body)) = Kind(Head(context.rx))
      /\ context'.state = context.state /\ link' = link
  BY RecordReceived
<1>2. /\ Head(down) \in Range(down) /\ Range(Tail(down)) \subseteq Range(down)
      /\ Len(Tail(down)) = Len(down) - 1
      /\ \A i \in 1 .. Len(down) - 1 : Tail(down)[i] = down[i + 1]
      /\ Tail(down) \in Seq(ProperHalves) /\ down \in Seq(ProperHalves)
  BY <1>1, ReceivedOf DEF TypeInv
<1>3. Live /\ Live'
  BY <1>1, ReadyState DEF Live
<1>4. Uniform(context'.rx)
  <2>1. context.rx \in Seq(ProperMessages) /\ body \in Seq(ProperMessages) /\ body # <<>>
    BY <1>1 DEF TypeInv, ProperContexts, Bodies
  <2>2. Uniform(context.rx) /\ Uniform(body)
    BY <1>2 DEF ShapeInv
  <2> HIDE DEF body
  <2>3. Uniform(context.rx \o body)
    BY <1>1, <2>1, <2>2, UniformConcat
  <2> QED BY <1>1, <2>3
<1>5. Len(context'.rxRecord) = 0 /\ Range(context'.rxRecord) = {}
  BY <1>1 DEF Range
<1>6. \A i \in DOMAIN Tail(down) : Tail(down)[i].half = 2 <=> Even(i + 0)
  <2>1. TAKE i \in DOMAIN Tail(down)
  <2>2. i \in 1 .. Len(down) - 1 /\ i + 1 \in DOMAIN down
    BY <1>2
  <2>3. down[i + 1].half = 2 <=> Even((i + 1) + 1)
    BY <1>1, <1>3, <2>2 DEF ShapeInv
  <2>4. (i + 1) + 1 = i + 2 /\ i + 0 = i /\ i \in Int
    BY <2>2
  <2>5. Even(i + 2) <=> Even(i)
    BY <2>4, EvenOf
  <2>6. Tail(down)[i] = down[i + 1]
    BY <1>2, <2>2
  <2> QED BY <2>3, <2>4, <2>5, <2>6
<1>7. link = "open" => Even(Len(Tail(down)) + 0)
  <2>1. Len(down) \in Nat
    BY <1>2
  <2>2. Len(down) + 1 = (Len(down) - 1) + 2 /\ (Len(down) - 1) + 0 = Len(down) - 1 /\ Len(down) - 1 \in Int
    BY <2>1
  <2>3. link = "open" => Even(Len(down) + 1)
    BY <1>1, <1>3 DEF ShapeInv
  <2>4. Even((Len(down) - 1) + 2) <=> Even(Len(down) - 1)
    BY <2>2, EvenOf
  <2> QED BY <1>2, <2>2, <2>3, <2>4
<1>8. \A h \in Range(down') \cup Range(context'.rxRecord) : Uniform(h.record.body)
  BY <1>1, <1>2, <1>5 DEF ShapeInv
<1> HIDE DEF body
<1> QED BY <1>1, <1>4, <1>5, <1>6, <1>7, <1>8 DEF ShapeInv

LEMMA SentShape ==
    ASSUME TypeInv, CallInv, ShapeInv, ServerSends
    PROVE  ShapeInv'
<1>1. PICK n, body : Dispatched(n, body)
  BY ServerSent
<1> DEFINE key == server.encryption
           halves == Halves(Record(body, key))
<1>2. /\ n \in 1 .. Len(server.flight) /\ body \in Bodies /\ Len(body) = n
      /\ \A i \in 1 .. n : Alike(body[i], server.flight[i])
                           /\ Kind(server.flight[i]) = Kind(server.flight[n])
      /\ down' = down \o halves
      /\ key \in Engines /\ down \in Seq(ProperHalves)
  BY <1>1 DEF Dispatched, TypeInv, ProperServers
<1>3. /\ halves \in Seq(ProperHalves) /\ Len(halves) = 2
      /\ halves[1].half = 1 /\ halves[2].half = 2
      /\ \A h \in Range(halves) : h.record.body = body
  <2>1. /\ halves \in Seq(ProperHalves) /\ Len(halves) = 2
        /\ halves[1] = [record |-> Record(body, key), half |-> 1]
        /\ halves[2] = [record |-> Record(body, key), half |-> 2]
        /\ \A h \in Range(halves) : h.record = Record(body, key)
    BY <1>2, HalvesOf
  <2> QED BY <2>1 DEF Record
<1>4. Uniform(body)
  <2>1. \A i \in 1 .. n : Kind(body[i]) = Kind(server.flight[n])
    BY <1>2 DEF Kind, Alike
  <2> QED BY <1>2, <2>1 DEF Uniform, Bodies
<1> HIDE DEF halves
<1>5. /\ Len(down') = Len(down) + 2 /\ Range(down') = Range(down) \cup Range(halves)
      /\ \A i \in 1 .. Len(down) : down'[i] = down[i]
      /\ \A i \in Len(down) + 1 .. Len(down) + 2 : down'[i] = halves[i - Len(down)]
      /\ down' \in Seq(ProperHalves) /\ Len(down) \in Nat
  <2>1. /\ down' \in Seq(ProperHalves) /\ Len(down') = Len(down) + Len(halves)
        /\ Range(down') = Range(down) \cup Range(halves)
        /\ \A i \in 1 .. Len(down) : down'[i] = down[i]
        /\ \A i \in Len(down) + 1 .. Len(down) + Len(halves) : down'[i] = halves[i - Len(down)]
    BY <1>2, <1>3, ConcatOf, SMTT(30)
  <2> QED BY <1>2, <1>3, <2>1
<1>6. context' = context /\ link' = "open" /\ link = "open"
  BY ServerSent DEF Served
<1>7. ASSUME Live
      PROVE  /\ Len(context.rxRecord) \in {0, 1}
             /\ \A i \in DOMAIN down' : down'[i].half = 2 <=> Even(i + Len(context.rxRecord))
             /\ Even(Len(down') + Len(context.rxRecord))
  <2> DEFINE l == Len(context.rxRecord)
  <2>1. l \in {0, 1} /\ Even(Len(down) + l)
        /\ \A i \in DOMAIN down : down[i].half = 2 <=> Even(i + l)
    BY <1>6, <1>7 DEF ShapeInv
  <2> HIDE DEF l
  <2>2. (Len(down) + 1) + l = (Len(down) + l) + 1 /\ (Len(down) + 2) + l = (Len(down) + l) + 2
        /\ Len(down) + l \in Int
    BY <1>5, <2>1
  <2>3. ~Even((Len(down) + 1) + l) /\ Even((Len(down) + 2) + l)
    BY <2>1, <2>2, EvenOf
  <2>4. down'[Len(down) + 1] = halves[1] /\ down'[Len(down) + 2] = halves[2]
    <3>1. (Len(down) + 1) - Len(down) = 1 /\ (Len(down) + 2) - Len(down) = 2
      BY <1>5
    <3> QED BY <1>5, <3>1
  <2>5. \A i \in DOMAIN down' : i \in 1 .. Len(down) \/ i = Len(down) + 1 \/ i = Len(down) + 2
    BY <1>5
  <2>6. \A i \in DOMAIN down' : down'[i].half = 2 <=> Even(i + l)
    <3>1. TAKE i \in DOMAIN down'
    <3>2. CASE i \in 1 .. Len(down)
      BY <1>2, <1>5, <2>1, <3>2
    <3> QED BY <1>3, <2>3, <2>4, <2>5, <3>1, <3>2
  <2> QED BY <1>5, <2>1, <2>3, <2>6 DEF l
<1>8. \A h \in Range(down') \cup Range(context.rxRecord) : Uniform(h.record.body)
  BY <1>3, <1>4, <1>5 DEF ShapeInv
<1>9. Live' = Live
  BY <1>6 DEF Live
<1> QED BY <1>6, <1>7, <1>8, <1>9 DEF ShapeInv

LEMMA StepShape ==
    ASSUME TypeInv, CallInv, ServerInv, ShapeInv, [Next]_vars
    PROVE  ShapeInv'
<1>1. CASE Open \/ Close
  <2>1. context'.rx = <<>> /\ context'.rxRecord = <<>> /\ down' = <<>>
    BY <1>1 DEF Open, Close, FreshContext, CallInv
  <2>2. Range(down') = {} /\ Range(context'.rxRecord) = {}
    BY <2>1 DEF Range
  <2>3. Len(down') = 0 /\ Len(context'.rxRecord) = 0
    BY <2>1
  <2> QED BY <2>1, <2>2, <2>3, EvenOf DEF ShapeInv, Uniform
<1>2. CASE Refused
  <2>1. ~Live'
    BY <1>2 DEF Refused, Live, Over
  <2> QED BY <1>2, <2>1, ShapeShrinks DEF Refused
<1>3. CASE StreamStays
  BY <1>3, NoneDropped, ShapeShrinks DEF StreamStays
<1>4. CASE StreamParses
  <2>1. /\ \E n \in 1 .. Len(context.rx) : context'.rx = Drop(context.rx, n)
        /\ UNCHANGED <<down, context.rxRecord, link>> /\ Live
    BY <1>4, TakenOf DEF StreamParses, Parsed, Idle
  <2>2. \E n \in 0 .. Len(context.rx) : context'.rx = Drop(context.rx, n)
    BY <2>1
  <2> QED BY <2>1, <2>2, ShapeShrinks
<1>5. CASE ParseData
  <2>1. /\ \E n \in 1 .. Len(context.rx) : context'.rx = Drop(context.rx, n)
        /\ UNCHANGED <<down, context.rxRecord, context.state, link>>
    BY <1>5, DataParsed
  <2>2. \E n \in 0 .. Len(context.rx) : context'.rx = Drop(context.rx, n)
    BY <2>1
  <2> QED BY <2>1, <2>2, ShapeShrinks DEF Live
<1>6. CASE ServerSpeaks \/ ServerEnds \/ SendData \/ CloseNotify
  <2>1. UNCHANGED <<context, down>> /\ (link' = "open" => link = "open")
    BY <1>6, DataSent, CloseNotifySaid DEF ServerSpeaks, ServerEnds, Served
  <2> QED BY <2>1, NoneDropped, ShapeShrinks DEF Live
<1>7. CASE ServerStops
  <2>1. context' = context /\ (UNCHANGED <<down, link>> \/ (down' = <<>> /\ link' = "reset"))
    BY <1>7 DEF ServerStops
  <2>2. \A h \in Range(down') : h \in Range(down)
    BY <2>1 DEF Range
  <2> QED BY <2>1, <2>2, NoneDropped, ShapeShrinks DEF Live
<1>8. CASE Damage
  <2>1. /\ UNCHANGED <<context, link>>
        /\ down' = down \/ (Damageable(down) /\ down' = Damaged(down))
    BY <1>8 DEF Damage
  <2>2. down \in Seq(ProperHalves)
    BY DEF TypeInv
  <2>3. /\ Len(down') = Len(down) /\ DOMAIN down' = DOMAIN down
        /\ \A i \in DOMAIN down : down'[i].half = 2 <=> down[i].half = 2
        /\ \A h \in Range(down') : \E g \in Range(down) : h.record = g.record
    <3>1. CASE down' = down
      BY <3>1
    <3>2. CASE Damageable(down) /\ down' = Damaged(down)
      <4>1. /\ Damaged(down) \in Seq(ProperHalves) /\ Len(Damaged(down)) = Len(down)
            /\ Len(down) > 0 /\ down[1].half = 1 /\ Damaged(down)[1].half = 0
            /\ \A i \in DOMAIN down : i > 1 => Damaged(down)[i] = down[i]
            /\ \A h \in Range(Damaged(down)) : \E g \in Range(down) : h.record = g.record
        BY <2>2, <3>2, DamagedOf
      <4>2. \A i \in DOMAIN down : i = 1 \/ i > 1
        BY <2>2
      <4> QED BY <2>2, <3>2, <4>1, <4>2
    <3> QED BY <2>1, <3>1, <3>2
  <2> QED BY <2>1, <2>3, NoneDropped, ShapeShrinks DEF Live
<1> QED BY <1>1, <1>2, <1>3, <1>4, <1>5, <1>6, <1>7, <1>8, StreamStep, HeaderShape, RecordShape, SentShape

-----------------------------------------------------------------------------
(* Units of data in a row *)

\* Unit n + i is at i, or there is no data at all.
Run(ms, n) == \A i \in DOMAIN ms : IsData(ms[i]) /\ ms[i].id = n + i
Bare(ms) == \A i \in DOMAIN ms : ~IsData(ms[i])

LEMMA DataOf ==
    /\ \A k \in Data : k \in Nat /\ k > 0 /\ \A l \in 1 .. k : l \in Data
    /\ TypeInv => server.sent \in Nat /\ \A l \in 1 .. server.sent : l \in Data
<1>1. MaxWritten \in Nat /\ MaxSent \in Nat
  BY TlsAssumption
<1>2. \A k \in Data : k \in Nat /\ k > 0 /\ \A l \in 1 .. k : l \in Data
  BY <1>1 DEF Data
<1>3. ASSUME TypeInv
      PROVE  server.sent \in Nat /\ \A l \in 1 .. server.sent : l \in Data
  <2>1. server.sent \in 0 .. MaxSent \cup {1}
    BY <1>3 DEF TypeInv, ProperServers
  <2> QED BY <1>1, <2>1 DEF Data
<1> QED BY <1>2, <1>3

LEMMA RunOf ==
    ASSUME NEW ms \in Seq(ProperMessages), Uniform(ms), Consecutive(ms), ~Bare(ms)
    PROVE  /\ ms # <<>> /\ IsData(ms[1]) /\ ms[1].id \in Data
           /\ Run(ms, ms[1].id - 1)
           /\ \A i \in DOMAIN ms : ms[i].id \in Data
<1>1. ms # <<>> /\ Head(ms) = ms[1]
  BY TailOf DEF Bare
<1>2. Head(ms).name = "data"
  BY <1>1, NoData DEF Bare, IsData
<1>3. \A i \in DOMAIN ms : IsData(ms[i]) /\ ms[i].id \in Data
  BY <1>1, <1>2, AllData DEF IsData
<1>4. 1 \in DOMAIN ms
  BY <1>1
<1>5. \A i \in DOMAIN ms : ms[i].id = ms[1].id + (i - 1)
  <2>1. \A i \in DOMAIN ms : 1 \in 1 .. i
    OBVIOUS
  <2> QED BY <1>3, <2>1 DEF Consecutive
<1>6. \A i \in DOMAIN ms : ms[i].id = (ms[1].id - 1) + i
  <2>1. ms[1].id \in Nat
    BY <1>3, <1>4, DataOf
  <2>2. TAKE i \in DOMAIN ms
  <2>3. i \in Nat /\ ms[i].id = ms[1].id + (i - 1)
    BY <1>5
  <2> QED BY <2>1, <2>3
<1> QED BY <1>1, <1>3, <1>4, <1>6 DEF Run

LEMMA RunConsecutive ==
    ASSUME NEW ms \in Seq(ProperMessages), NEW n \in Int, Run(ms, n) \/ Bare(ms)
    PROVE  Consecutive(ms)
<1>1. CASE Bare(ms)
  BY <1>1 DEF Bare, Consecutive
<1>2. CASE Run(ms, n)
  <2>1. \A i \in DOMAIN ms : \A j \in 1 .. i : j \in DOMAIN ms /\ n + i = (n + j) + (i - j)
    OBVIOUS
  <2> QED BY <1>2, <2>1 DEF Run, Consecutive
<1> QED BY <1>1, <1>2

LEMMA WithinRun ==
    ASSUME NEW ms \in Seq(ProperMessages), NEW n \in Int, Run(ms, n), NEW k \in Data
    PROVE  Within(ms, k) <=> n < k /\ k <= n + Len(ms)
<1>1. k \in Nat
  BY DataOf
<1>2. CASE n < k /\ k <= n + Len(ms)
  <2>1. k - n \in DOMAIN ms /\ n + (k - n) = k
    BY <1>1, <1>2
  <2> QED BY <1>2, <2>1 DEF Run, Within
<1>3. CASE Within(ms, k)
  <2>1. PICK i \in DOMAIN ms : ms[i].id = k
    BY <1>3 DEF Within
  <2>2. k = n + i
    BY <2>1 DEF Run
  <2> QED BY <1>3, <2>1, <2>2
<1> QED BY <1>2, <1>3

LEMMA WithinBare ==
    ASSUME NEW ms, Bare(ms), NEW k
    PROVE  ~Within(ms, k)
  BY DEF Bare, Within

LEMMA WithinConcat ==
    ASSUME NEW s \in Seq(ProperMessages), NEW t \in Seq(ProperMessages), NEW k
    PROVE  Within(s \o t, k) <=> Within(s, k) \/ Within(t, k)
<1> DEFINE u == s \o t
<1>1. /\ u \in Seq(ProperMessages) /\ Len(u) = Len(s) + Len(t)
      /\ \A i \in 1 .. Len(s) : u[i] = s[i]
      /\ \A i \in Len(s) + 1 .. Len(s) + Len(t) : u[i] = t[i - Len(s)]
  BY ConcatOf
<1> HIDE DEF u
<1>2. ASSUME Within(s, k)
      PROVE  Within(u, k)
  <2>1. PICK i \in DOMAIN s : IsData(s[i]) /\ s[i].id = k
    BY <1>2 DEF Within
  <2>2. i \in DOMAIN u /\ u[i] = s[i]
    BY <1>1
  <2> QED BY <2>1, <2>2 DEF Within
<1>3. ASSUME Within(t, k)
      PROVE  Within(u, k)
  <2>1. PICK i \in DOMAIN t : IsData(t[i]) /\ t[i].id = k
    BY <1>3 DEF Within
  <2>2. /\ Len(s) + i \in DOMAIN u /\ (Len(s) + i) - Len(s) = i
        /\ Len(s) + i \in Len(s) + 1 .. Len(s) + Len(t)
    BY <1>1
  <2>3. u[Len(s) + i] = t[i]
    BY <1>1, <2>2
  <2> QED BY <2>1, <2>2, <2>3 DEF Within
<1>4. ASSUME Within(u, k)
      PROVE  Within(s, k) \/ Within(t, k)
  <2>1. PICK i \in DOMAIN u : IsData(u[i]) /\ u[i].id = k
    BY <1>4 DEF Within
  <2>2. CASE i \in 1 .. Len(s)
    BY <1>1, <2>1, <2>2 DEF Within
  <2>3. CASE i \in Len(s) + 1 .. Len(s) + Len(t)
    <3>1. i - Len(s) \in DOMAIN t
      BY <2>3
    <3> QED BY <1>1, <2>1, <2>3, <3>1 DEF Within
  <2> QED BY <1>1, <2>1, <2>2, <2>3
<1> QED BY <1>2, <1>3, <1>4 DEF u

LEMMA ClosesConcat ==
    ASSUME NEW s \in Seq(ProperMessages), NEW t \in Seq(ProperMessages), Closes(s \o t)
    PROVE  Closes(s) \/ Closes(t)
<1> DEFINE u == s \o t
<1>1. /\ u \in Seq(ProperMessages) /\ Len(u) = Len(s) + Len(t)
      /\ \A i \in 1 .. Len(s) : u[i] = s[i]
      /\ \A i \in Len(s) + 1 .. Len(s) + Len(t) : u[i] = t[i - Len(s)]
  BY ConcatOf
<1>2. Closes(u)
  OBVIOUS
<1> HIDE DEF u
<1>3. PICK i \in DOMAIN u : u[i].name = "close_notify"
  BY <1>2 DEF Closes
<1>4. CASE i \in 1 .. Len(s)
  BY <1>1, <1>3, <1>4 DEF Closes
<1>5. CASE i \in Len(s) + 1 .. Len(s) + Len(t)
  <2>1. i - Len(s) \in DOMAIN t
    BY <1>5
  <2> QED BY <1>1, <1>3, <1>5, <2>1 DEF Closes
<1> QED BY <1>1, <1>3, <1>4, <1>5

LEMMA ClosesDrop ==
    ASSUME NEW s \in Seq(ProperMessages), NEW n \in 0 .. Len(s)
    PROVE  /\ Closes(Drop(s, n)) => Closes(s)
           /\ \A k : Within(Drop(s, n), k) => Within(s, k)
           /\ Bare(s) => Bare(Drop(s, n))
<1> DEFINE t == Drop(s, n)
<1>1. t \in Seq(ProperMessages) /\ Len(t) = Len(s) - n /\ \A i \in 1 .. Len(s) - n : t[i] = s[n + i]
  BY DropOf
<1> HIDE DEF t
<1>2. \A i \in DOMAIN t : n + i \in DOMAIN s /\ t[i] = s[n + i]
  BY <1>1
<1>3. Closes(t) => Closes(s)
  BY <1>2 DEF Closes
<1>4. \A k : Within(t, k) => Within(s, k)
  BY <1>2 DEF Within
<1>5. Bare(s) => Bare(t)
  BY <1>2 DEF Bare
<1> QED BY <1>3, <1>4, <1>5 DEF t

\* The data at hand go on where the caller's end.
LEMMA RxOf ==
    ASSUME TypeInv, ShapeInv, OrderInv
    PROVE  /\ Bare(context.rx) \/ (context.rx # <<>> /\ Run(context.rx, Len(got)))
           /\ context.rx \in Seq(ProperMessages) /\ Len(got) \in Nat
           /\ ~Bare(context.rx) => \A i \in DOMAIN context.rx : context.rx[i].id \in Data
<1>1. context.rx \in Seq(ProperMessages) /\ Len(got) \in Nat
  BY DEF TypeInv, ProperContexts
<1>2. CASE ~Bare(context.rx)
  <2>1. /\ context.rx # <<>> /\ IsData(context.rx[1]) /\ Run(context.rx, context.rx[1].id - 1)
        /\ \A i \in DOMAIN context.rx : context.rx[i].id \in Data
    BY <1>1, <1>2, RunOf DEF ShapeInv, OrderInv
  <2>2. context.rx[1].id - 1 = Len(got)
    BY <1>1, <2>1 DEF OrderInv
  <2> QED BY <1>1, <2>1, <2>2
<1> QED BY <1>1, <1>2

-----------------------------------------------------------------------------
(* What the caller has been given *)

LEMMA GotKept ==
    ASSUME TypeInv, GotInv, Ending' => Ending, Broken' => Broken, got' = got,
           server.phase = "over" => server'.phase = "over",
           \/ server'.sent = server.sent
           \/ server.phase = "data" /\ server.sent = 0 /\ server'.sent \in Nat
    PROVE  GotInv'
<1>1. Len(got) \in Nat /\ server.sent \in Nat
  BY DataOf DEF TypeInv
<1>2. Upto(Len(got))' = Upto(Len(got))
  OBVIOUS
<1> QED BY <1>1, <1>2 DEF GotInv

\* A call that goes on, or has failed, with the context where it was or not yet over.
LEMMA CallsOn ==
    ASSUME \/ call' = call /\ UNCHANGED <<context.state, context.fatalAlert>>
           \/ call' \in {"failed", "shutdown", "done"}
           \/ ~(context'.state \in Over) /\ call' # "ended"
           \/ context'.fatalAlert /\ call' # "ended"
           \/ /\ call \in {"none", "read", "write"} /\ call' \in {"none", "read", "write"}
              /\ UNCHANGED <<context.state, context.fatalAlert>>
    PROVE  (Ending' => Ending) /\ (Broken' => Broken)
  BY DEF Ending, Broken, Over

LEMMA SentCalls ==
    ASSUME NEW from, NEW to, NEW m, Sent(from, to, m), to \notin Over
    PROVE  (Ending' => Ending) /\ (Broken' => Broken) /\ got' = got /\ server' = server
  BY CallsOn DEF Sent, Elsewhere

LEMMA HandshakeGot ==
    ASSUME TypeInv, CallInv, GotInv, HandshakeStep
    PROVE  GotInv'
<1> USE DEF Over
<1> SUFFICES (Ending' => Ending) /\ (Broken' => Broken) /\ got' = got /\ server' = server
  BY GotKept
<1>1. CASE InitHandshake
  <2>1. context'.state = "CLIENT_HELLO" /\ call = "connect" /\ UNCHANGED <<call, got, server>>
    BY <1>1 DEF InitHandshake, TypeInv, ProperContexts, caller, world
  <2> QED BY <2>1, CallsOn
<1>2. CASE FlushPending
  <2>1. /\ call = "connect" /\ call' \in {call, "failed"}
        /\ \/ context'.state = context.state
           \/ context'.state = "CLOSED" /\ call' = "failed"
        /\ Untouched /\ Elsewhere
    BY <1>2, Flushed
  <2> QED BY <2>1, CallsOn DEF Untouched, Elsewhere
<1>3. CASE SendClientHello
  BY <1>3, ClientHelloSent, SentCalls
<1>4. CASE SendCertificate
  <2>1. conn > 0
    BY <1>4 DEF SendCertificate, Proceed, InTurnToSend, CallInv
  <2> QED BY <1>4, <2>1, CertificateSent, SentCalls
<1>5. CASE SendClientKeyExchange
  BY <1>5, ClientKeyExchangeSent, SentCalls
<1>6. CASE SendCertificateVerify
  BY <1>6, CertificateVerifySent, SentCalls
<1>7. CASE SendChangeCipherSpec
  BY <1>7, ChangeCipherSpecSent, SentCalls
<1>8. CASE SendFinished
  BY <1>8, FinishedSentOf, SentCalls
<1>9. ASSUME NEW name, Parsed(name), context'.state \notin Over
      PROVE  (Ending' => Ending) /\ (Broken' => Broken) /\ got' = got /\ server' = server
  <2>1. call \in {"connect", "read"}
    BY <1>9, ReadyState DEF Parsed
  <2> QED BY <1>9, <2>1, CallsOn DEF Parsed, Idle
<1>10. CASE ParseServerHello
  BY <1>9, <1>10, ServerHelloParsed
<1>11. CASE ParseCertificate \/ ParseServerKeyExchange \/ ParseCertificateRequest \/ ParseServerHelloDone \/ ParseFinished
  BY <1>9, <1>11, MessagesParsed DEF Moved
<1>12. CASE ParseHelloRequest
  <2>1. Parsed("HelloRequest") /\ context'.state = context.state /\ Ready
    BY <1>12, MessagesParsed DEF Moved, Parsed
  <2>2. Live
    BY <2>1, ReadyState
  <2> QED BY <1>9, <2>1, <2>2 DEF Live
<1>13. CASE ParseChangeCipherSpec
  BY <1>9, <1>13, ChangeCipherSpecParsed
<1>14. CASE Established
  <2>1. context.state = "APPLICATION_DATA" /\ call' = "none" /\ UNCHANGED <<context, got, server>>
    BY <1>14 DEF Established, world
  <2> QED BY <2>1, CallsOn
<1>15. CASE HandshakeFailed
  <2>1. call' = "failed" /\ UNCHANGED <<context, got, server>>
    BY <1>15 DEF HandshakeFailed, world
  <2> QED BY <2>1, CallsOn
<1> QED BY <1>1, <1>2, <1>3, <1>4, <1>5, <1>6, <1>7, <1>8, <1>10, <1>11, <1>12, <1>13, <1>14,
           <1>15 DEF HandshakeStep

\* What is read is what comes next.
LEMMA DataGot ==
    ASSUME TypeInv, CallInv, ShapeInv, DownInv, GotInv, OrderInv, ParseData
    PROVE  /\ GotInv'
           /\ \E n \in 1 .. Len(context.rx) :
                /\ Len(got') = Len(got) + n /\ context'.rx = Drop(context.rx, n)
           /\ Run(context.rx, Len(got))
<1>1. /\ call' = "none" /\ context'.state = "APPLICATION_DATA"
      /\ \A i \in DOMAIN context.rx : context.rx[i].name = "data" /\ context.rx[i].id \in Data
      /\ server' = server /\ got' \in Seq(Data)
  BY DataParsed
<1>2. PICK n \in 1 .. Len(context.rx) :
          /\ got' = got \o [i \in 1 .. n |-> context.rx[i].id]
          /\ [i \in 1 .. n |-> context.rx[i].id] \in Seq(Data)
          /\ Len([i \in 1 .. n |-> context.rx[i].id]) = n
          /\ context'.rx = Drop(context.rx, n)
  BY DataParsed
<1> DEFINE new == [i \in 1 .. n |-> context.rx[i].id]
<1>3. context.rx \in Seq(ProperMessages) /\ Len(got) \in Nat /\ got \in Seq(Data)
  BY DEF TypeInv, ProperContexts
<1>4. Run(context.rx, Len(got))
  <2>1. 1 \in DOMAIN context.rx
    BY <1>2, <1>3
  <2>2. ~Bare(context.rx)
    BY <1>1, <2>1 DEF Bare, IsData
  <2> QED BY <2>2, RxOf
<1>5. \A i \in 1 .. n : new[i] = Len(got) + i /\ i \in DOMAIN context.rx
  BY <1>2, <1>3, <1>4 DEF Run
<1>6. /\ Len(got') = Len(got) + n
      /\ \A i \in 1 .. Len(got) : got'[i] = got[i]
      /\ \A i \in Len(got) + 1 .. Len(got) + n : got'[i] = new[i - Len(got)]
  <2>1. new \in Seq(Data) /\ Len(new) = n /\ got' = got \o new
    BY <1>2
  <2> HIDE DEF new
  <2>2. /\ Len(got \o new) = Len(got) + Len(new)
        /\ \A i \in 1 .. Len(got) : (got \o new)[i] = got[i]
        /\ \A i \in Len(got) + 1 .. Len(got) + Len(new) : (got \o new)[i] = new[i - Len(got)]
    BY <1>3, <2>1, ConcatOf
  <2> QED BY <2>1, <2>2
<1> HIDE DEF new
<1>7. \A i \in 1 .. Len(got) + n : got'[i] = i
  <2>1. \A i \in 1 .. Len(got) : got[i] = i
    BY DEF GotInv, Upto
  <2>2. \A i \in Len(got) + 1 .. Len(got) + n : got'[i] = i
    <3>1. TAKE i \in Len(got) + 1 .. Len(got) + n
    <3>2. i - Len(got) \in 1 .. n /\ Len(got) + (i - Len(got)) = i
      BY <1>3, <3>1
    <3>3. got'[i] = new[i - Len(got)] /\ new[i - Len(got)] = Len(got) + (i - Len(got))
      BY <1>5, <1>6, <3>2
    <3> QED BY <3>2, <3>3
  <2>3. \A i \in 1 .. Len(got) + n : i \in 1 .. Len(got) \/ i \in Len(got) + 1 .. Len(got) + n
    BY <1>3
  <2> QED BY <1>6, <2>1, <2>2, <2>3
<1>8. got' = Upto(Len(got'))
  <2>1. got' = [i \in 1 .. Len(got) + n |-> got'[i]]
    BY <1>1, <1>6
  <2> QED BY <1>6, <1>7, <2>1 DEF Upto
<1>9. Len(got') <= server.sent
  <2>1. n \in DOMAIN context.rx
    BY <1>3
  <2>2. context.rx[n] \in Falling
    BY <2>1 DEF Falling, Range
  <2>3. context.rx[n].id <= server.sent
    BY <1>1, <2>1, <2>2 DEF DownInv, GoodDown
  <2> QED BY <1>4, <1>6, <2>1, <2>3 DEF Run
<1>10. ~Broken' /\ ~Ending'
  BY <1>1 DEF Broken, Ending
<1> QED BY <1>1, <1>2, <1>4, <1>6, <1>8, <1>9, <1>10 DEF GotInv

\* A close_notify is believed behind all of the data.
LEMMA NotifyGot ==
    ASSUME TypeInv, CallInv, ShapeInv, DownInv, GotInv, Passing,
           Parsed("close_notify"), context.state = "APPLICATION_DATA", context'.state = "CLOSING"
    PROVE  GotInv'
<1>1. Ready /\ Incoming.name = "close_notify" /\ UNCHANGED <<got, server, call>>
  BY DEF Parsed, Idle
<1>2. /\ context.rx # <<>> /\ Head(context.rx) = context.rx[1]
      /\ Head(context.rx).name = "close_notify" /\ context.rx \in Seq(ProperMessages)
  BY <1>1, TakenOf DEF TypeInv, ProperContexts
<1>3. Bare(context.rx) /\ Closes(context.rx)
  <2>1. \A i \in DOMAIN context.rx : context.rx[i].name # "data"
    BY <1>2, NoData DEF ShapeInv
  <2>2. 1 \in DOMAIN context.rx
    BY <1>2
  <2> QED BY <1>2, <2>1, <2>2 DEF Bare, IsData, Closes
<1>4. \A k \in Data : ~OnItsWay(k)
  BY <1>3, WithinBare DEF Passing, CloseInv, OnItsWay, InRx
<1>5. \A l \in Len(got) + 1 .. server.sent : OnItsWay(l)
  BY <1>3 DEF Passing, GapInv, ClosingOnItsWay
<1>6. Len(got) \in Nat /\ server.sent \in Nat /\ Len(got) <= server.sent
  BY DataOf DEF TypeInv, GotInv
<1>7. Len(got) = server.sent
  <2>1. SUFFICES ASSUME Len(got) < server.sent
                 PROVE  FALSE
    BY <1>6
  <2>2. server.sent \in Len(got) + 1 .. server.sent /\ server.sent \in 1 .. server.sent
    BY <1>6, <2>1
  <2> QED BY <1>4, <1>5, <2>2, DataOf
<1>8. server.phase = "over"
  BY <1>1, IncomingOf DEF GoodDown
<1>9. ~Broken'
  BY DEF Broken
<1> QED BY <1>1, <1>6, <1>7, <1>8, <1>9 DEF GotInv

LEMMA RecordGot ==
    ASSUME TypeInv, CallInv, ShapeInv, DownInv, GotInv, Live => Passing, RecordStep
    PROVE  GotInv'
<1>1. ASSUME Ending' => Ending, Broken' => Broken, got' = got, server' = server
      PROVE  GotInv'
  BY <1>1, GotKept
<1>2. CASE ReceiveHeader \/ ReceiveRecord
  <2>1. UNCHANGED <<context.state, context.fatalAlert, call, got, server>>
    BY <1>2, RecordReceived DEF ReceiveHeader, TypeInv, ProperContexts, caller, world
  <2> QED BY <1>1, <2>1, CallsOn
<1>3. ASSUME Refused
      PROVE  GotInv'
  BY <1>1, <1>3, CallsOn DEF Refused
<1>4. CASE ReceiveBadRecord
  BY <1>3, <1>4, BadRecordRefused
<1>5. CASE ReceiveFails
  <2>1. call' = "failed" /\ UNCHANGED <<got, server>>
    BY <1>5 DEF ReceiveFails, world
  <2> QED BY <1>1, <2>1, CallsOn
<1>6. CASE ParseAlert
  <2>1. CASE Parsed("fatal") /\ context'.fatalAlert
    <3>1. call' \in {"connect", "read"} /\ UNCHANGED <<got, server>>
      BY <2>1, ReadyState DEF Parsed, Idle
    <3> QED BY <1>1, <2>1, <3>1, CallsOn
  <2>2. CASE /\ Parsed("close_notify")
             /\ context'.state = IF context.state = "APPLICATION_DATA" THEN "CLOSING" ELSE context.state
             /\ UNCHANGED context.fatalAlert
    <3>1. Live
      BY <2>2, ReadyState DEF Parsed
    <3>2. CASE context.state = "APPLICATION_DATA"
      BY <2>2, <3>1, <3>2, NotifyGot
    <3>3. CASE context.state # "APPLICATION_DATA"
      BY <1>1, <2>2, <3>3, CallsOn DEF Parsed, Idle
    <3> QED BY <3>2, <3>3
  <2> QED BY <1>6, <2>1, <2>2, AlertParsed
<1>7. CASE ParseData
  <2>1. Live
    BY <1>7, DataParsed DEF Live, Over
  <2> QED BY <1>7, <2>1, DataGot DEF Passing
<1>8. CASE ParseRefused \/ RefuseRenegotiation
  BY <1>3, <1>8, MessageRefused
<1>9. CASE CallEnds
  <2>1. /\ call \in {"read", "write"} /\ context.state \in {"CLOSING", "CLOSED"}
        /\ call' = IF call = "read" /\ ~context.fatalAlert THEN "ended" ELSE "failed"
        /\ UNCHANGED <<context, got, server>>
    BY <1>9 DEF CallEnds, world
  <2>2. Ending' => Ending
    BY <2>1 DEF GotInv, Ending, Broken
  <2>3. ~Broken'
    BY <2>1 DEF Broken
  <2> QED BY <1>1, <2>1, <2>2, <2>3
<1> QED BY <1>2, <1>4, <1>5, <1>6, <1>7, <1>8, <1>9 DEF RecordStep

LEMMA CallerGot ==
    ASSUME TypeInv, CallInv, GotInv, CallerStep
    PROVE  GotInv'
<1>1. ASSUME Ending' => Ending, Broken' => Broken, got' = got, server' = server
      PROVE  GotInv'
  BY <1>1, GotKept
<1>2. CASE Open \/ Close
  <2>1. /\ got' = <<>> /\ server'.sent = 0 /\ context'.state = "INIT" /\ call' # "ended"
    BY <1>2 DEF Open, Close, CallInv, FreshContext, ServerInit, world
  <2>2. Len(got') = 0 /\ Upto(0) = <<>>
    BY <2>1 DEF Upto
  <2> QED BY <2>1, <2>2 DEF GotInv, Broken, Ending
<1>3. CASE (\E n \in 1 .. 2 : StartWrite(n)) \/ StartRead \/ ReadTimeout
  <2>1. /\ call \in {"none", "read", "write"} /\ call' \in {"none", "read", "write"}
        /\ UNCHANGED <<context, got, server>>
    BY <1>3 DEF StartWrite, StartRead, ReadTimeout, world
  <2> QED BY <1>1, <2>1, CallsOn
<1>4. CASE WriteData
  <2>1. /\ call' \in {"none", "write", "failed"} /\ UNCHANGED <<got, server>>
        /\ context'.state = "APPLICATION_DATA" \/ call' = "failed"
    BY <1>4, DataWritten DEF CountWritten
  <2> QED BY <1>1, <2>1, CallsOn DEF Over
<1>5. CASE StartShutdown
  <2>1. call' = "shutdown" /\ UNCHANGED <<got, server>>
    BY <1>5 DEF StartShutdown, world
  <2> QED BY <1>1, <2>1, CallsOn
<1>6. CASE SendCloseNotify
  BY <1>1, <1>6, CloseNotifySent, CallsOn
<1> QED BY <1>2, <1>3, <1>4, <1>5, <1>6 DEF CallerStep

LEMMA StepGot ==
    ASSUME TypeInv, CallInv, ServerInv, DownInv, StreamInv, [Next]_vars
    PROVE  GotInv'
<1>1. GotInv /\ ShapeInv /\ (Live => Passing)
  BY DEF StreamInv
<1>2. ASSUME UNCHANGED <<context.state, context.fatalAlert, call, got, server.sent>>,
             server.phase = "over" => server'.phase = "over"
      PROVE  GotInv'
  BY <1>1, <1>2, CallsOn, GotKept
<1>3. CASE ServerStep
  <2>1. UNCHANGED <<context, call, got>>
    BY <1>3, ServerOnward DEF ServerSide
  <2>2. CASE ServerSpeaks \/ ServerStops \/ ServerSends \/ ServerEnds
    <3>1. UNCHANGED server.sent /\ (server.phase = "over" => server'.phase = "over")
      BY <2>2, ServerSent DEF ServerSpeaks, ServerStops, ServerEnds, world
    <3> QED BY <1>2, <2>1, <3>1
  <2> QED BY <1>3, <2>2, StreamServer
<1>4. CASE SendData
  <2>1. /\ UNCHANGED <<context, call, got>> /\ server.phase = "data" /\ server.sent = 0
        /\ server'.sent \in Nat /\ server'.phase = "data"
    BY <1>4, DataSent DEF Served
  <2> QED BY <1>1, <2>1, CallsOn, GotKept
<1>5. CASE CloseNotify
  BY <1>2, <1>5, CloseNotifySaid DEF Served
<1>6. CASE Trouble
  <2>1. CASE ElementFails
    BY <1>1, <2>1, ElementRefused, CallsOn, GotKept DEF Refused
  <2>2. CASE ConnectTimeout
    <3>1. call' = "failed" /\ UNCHANGED <<got, server>>
      BY <2>2 DEF ConnectTimeout, world
    <3> QED BY <1>1, <3>1, CallsOn, GotKept
  <2>3. CASE Reject \/ AskAgain \/ Reset
    BY <1>2, <2>3, Rejected, AskedAgain, WasReset DEF Took, Served
  <2>4. CASE Damage
    BY <1>2, <2>4 DEF Damage, caller, world
  <2> QED BY <1>6, <2>1, <2>2, <2>3, <2>4 DEF Trouble
<1>7. CASE UNCHANGED vars
  BY <1>2, <1>7 DEF vars
<1> QED BY <1>1, <1>3, <1>4, <1>5, <1>6, <1>7, HandshakeGot, RecordGot, CallerGot DEF Next

-----------------------------------------------------------------------------
(* The data that are on their way *)

\* The same units are where they were.
LEMMA PassingKept ==
    ASSUME TypeInv, Passing, got' = got, server'.sent = server.sent,
           \A k \in Data : (InRx(k)' <=> InRx(k)) /\ (InFlight(k)' <=> InFlight(k)),
           DOMAIN down' = DOMAIN down,
           \A i \in DOMAIN down : down'[i].record = down[i].record /\ (down'[i].half = 2 <=> down[i].half = 2),
           Consecutive(context'.rx), Consecutive(server'.flight),
           context'.rx # <<>> /\ IsData(context'.rx[1]) => context'.rx[1].id = Len(got) + 1,
           Closes(context'.rx) => Closes(context.rx),
           Closes(server'.flight) => Closes(server.flight),
           server'.phase = "data" => server.phase = "data" \/ server.sent = 0
    PROVE  Passing'
<1>1. \A i \in DOMAIN down : \A k \in Data : Carried(i, k)' <=> Carried(i, k)
  BY DEF Carried, Completing
<1>2. \A k \in Data : (InDown(k)' <=> InDown(k)) /\ (OnItsWay(k)' <=> OnItsWay(k))
  BY <1>1 DEF InDown, OnItsWay
<1>3. \A i \in DOMAIN down : ClosedAt(i)' => ClosedAt(i)
  BY DEF ClosedAt, Completing
<1>4. OrderInv'
  <2>1. \A k \in Data : InDown(k)' \/ InFlight(k)' =>
            k > Len(got') /\ \A l \in Data : InRx(l)' => l < k
    BY <1>2 DEF Passing, OrderInv
  <2>2. \A i, j \in DOMAIN down' : i < j =>
            \A k, l \in Data : Carried(i, k)' /\ Carried(j, l)' => k < l
    BY <1>1 DEF Passing, OrderInv
  <2>3. \A k, l \in Data : InDown(k)' /\ InFlight(l)' => k < l
    BY <1>2 DEF Passing, OrderInv
  <2>4. \A i \in DOMAIN down' : Consecutive(down'[i].record.body)
    BY DEF Passing, OrderInv
  <2> QED BY <2>1, <2>2, <2>3, <2>4 DEF OrderInv
<1>5. Len(got) \in Nat /\ server.sent \in Nat /\ \A l \in 1 .. server.sent : l \in Data
  BY DataOf DEF TypeInv
<1>6. GapInv'
  <2>1. \A k \in Data : OnItsWay(k)' => \A l \in Len(got') + 1 .. k : OnItsWay(l)'
    <3>1. \A k \in Data : \A l \in Len(got) + 1 .. k : l \in Data
      BY <1>5, DataOf
    <3> QED BY <1>2, <3>1 DEF Passing, GapInv
  <2>2. ASSUME server'.phase = "data" \/ ClosingOnItsWay', NEW l \in Len(got') + 1 .. server'.sent
        PROVE  OnItsWay(l)'
    <3>1. l \in Data /\ l \in Len(got) + 1 .. server.sent /\ server.sent # 0
      BY <1>5, <2>2
    <3>2. server.phase = "data" \/ ClosingOnItsWay
      BY <1>3, <2>2, <3>1 DEF ClosingOnItsWay
    <3> QED BY <1>2, <3>1, <3>2 DEF Passing, GapInv
  <2> QED BY <2>1, <2>2 DEF GapInv
<1>7. CloseInv'
  BY <1>1, <1>2, <1>3 DEF Passing, CloseInv
<1> QED BY <1>4, <1>6, <1>7 DEF Passing

\* The client takes a message that is not of the data.
LEMMA PassingParsed ==
    ASSUME TypeInv, ShapeInv, Passing, StreamParses
    PROVE  Passing'
<1>1. PICK name \in Names : name # "data" /\ Parsed(name)
  BY DEF StreamParses
<1>2. /\ Ready /\ Incoming.name # "data" /\ context'.rx = Taken.rx
      /\ UNCHANGED <<got, down, server>>
  BY <1>1 DEF Parsed, Idle
<1>3. /\ context.rx # <<>> /\ Head(context.rx).name # "data" /\ context.rx \in Seq(ProperMessages)
      /\ \E n \in 1 .. Len(context.rx) : context'.rx = Drop(context.rx, n)
  BY <1>2, TakenOf DEF TypeInv, ProperContexts
<1>4. Bare(context.rx)
  BY <1>3, NoData DEF ShapeInv, Bare, IsData
<1>5. Bare(context'.rx) /\ (Closes(context'.rx) => Closes(context.rx)) /\ context'.rx \in Seq(ProperMessages)
  <2>1. PICK n \in 0 .. Len(context.rx) : context'.rx = Drop(context.rx, n)
    BY <1>3
  <2> QED BY <1>3, <1>4, <2>1, ClosesDrop, DropOf
<1>6. Consecutive(context'.rx) /\ (context'.rx # <<>> => ~IsData(context'.rx[1]))
  BY <1>5 DEF Bare, Consecutive
<1>7. \A k \in Data : ~InRx(k) /\ ~InRx(k)'
  BY <1>4, <1>5, WithinBare DEF InRx
<1>8. Consecutive(server.flight)
  BY DEF Passing, OrderInv
<1> QED BY <1>2, <1>5, <1>6, <1>7, <1>8, PassingKept DEF InFlight

\* The server says something else.
LEMMA PassingSpoken ==
    ASSUME TypeInv, Passing, ServerSpeaks
    PROVE  Passing'
<1>1. server.flight \in Seq(ProperMessages) /\ Consecutive(server.flight)
  BY DEF TypeInv, ProperServers, Passing, OrderInv
<1>2. /\ \A k \in Data : InFlight(k)' <=> InFlight(k)
      /\ Closes(server'.flight) => Closes(server.flight)
      /\ Consecutive(server'.flight)
  <2>1. CASE server'.flight = server.flight
    BY <1>1, <2>1 DEF InFlight
  <2>2. CASE \E ms : Says(ms) /\ \A i \in DOMAIN ms : ms[i].name \in Speech
    <3>1. PICK ms : Says(ms) /\ \A i \in DOMAIN ms : ms[i].name \in Speech
      BY <2>2
    <3>2. ms \in Seq(ProperMessages) /\ server'.flight = server.flight \o ms
      BY <3>1 DEF Says
    <3>3. Bare(ms) /\ ~Closes(ms)
      BY <3>1 DEF Bare, Closes, IsData, Speech
    <3>4. \A k \in Data : InFlight(k)' <=> InFlight(k)
      BY <1>1, <3>2, <3>3, WithinConcat, WithinBare DEF InFlight
    <3>5. Closes(server'.flight) => Closes(server.flight)
      BY <1>1, <3>2, <3>3, ClosesConcat
    <3>6. Consecutive(server'.flight)
      <4> DEFINE u == server'.flight
                 s == server.flight
      <4>1. /\ Len(u) = Len(s) + Len(ms) /\ u \in Seq(ProperMessages)
            /\ \A i \in 1 .. Len(s) : u[i] = s[i]
            /\ \A i \in Len(s) + 1 .. Len(s) + Len(ms) : u[i] = ms[i - Len(s)]
        BY <1>1, <3>2, ConcatOf
      <4> HIDE DEF u, s
      <4>2. ASSUME NEW i \in DOMAIN u, IsData(u[i])
            PROVE  i \in 1 .. Len(s)
        <5>1. ASSUME i \in Len(s) + 1 .. Len(s) + Len(ms)
              PROVE  FALSE
          <6>1. i - Len(s) \in DOMAIN ms
            BY <3>2, <5>1
          <6> QED BY <3>3, <4>1, <4>2, <5>1, <6>1 DEF Bare
        <5>2. Len(s) \in Nat
          BY <1>1 DEF s
        <5> QED BY <4>1, <4>2, <5>1, <5>2
      <4>3. Consecutive(s)
        BY <1>1 DEF s
      <4>4. Consecutive(u)
        <5>1. SUFFICES ASSUME NEW i \in DOMAIN u, IsData(u[i])
                       PROVE  \A j \in 1 .. i : IsData(u[j]) /\ u[i].id = u[j].id + (i - j)
          BY DEF Consecutive
        <5>2. i \in 1 .. Len(s) /\ \A j \in 1 .. i : j \in 1 .. Len(s)
          BY <4>2, <5>1
        <5>3. i \in DOMAIN s /\ IsData(s[i])
          BY <1>1, <4>1, <5>1, <5>2 DEF s
        <5>4. \A j \in 1 .. i : IsData(s[j]) /\ s[i].id = s[j].id + (i - j)
          BY <4>3, <5>3 DEF Consecutive
        <5> QED BY <4>1, <5>2, <5>4
      <4> QED BY <4>4 DEF u
    <3> QED BY <3>4, <3>5, <3>6
  <2> QED BY <2>1, <2>2 DEF ServerSpeaks
<1>3. /\ Consecutive(context.rx)
      /\ context.rx # <<>> /\ IsData(context.rx[1]) => context.rx[1].id = Len(got) + 1
  BY DEF Passing, OrderInv
<1>4. UNCHANGED <<context, got, down, server.sent>> /\ (server'.phase = server.phase \/ server.sent = 0)
  BY DEF ServerSpeaks
<1> QED BY <1>2, <1>3, <1>4, PassingKept DEF InRx

\* What the server had to say is lost, and perhaps what was on its way.
LEMMA PassingStopped ==
    ASSUME TypeInv, Passing, ServerStops
    PROVE  Passing'
<1>1. /\ UNCHANGED <<context, got, server.sent>> /\ server'.phase = "over"
      /\ down' = down \/ down' = <<>>
  BY DEF ServerStops
<1>2. Bare(server'.flight) /\ ~Closes(server'.flight) /\ Consecutive(server'.flight)
  <2>1. \A i \in DOMAIN server'.flight : server'.flight[i].name = "fatal"
    BY DEF ServerStops, Fatal, Message
  <2> QED BY <2>1 DEF Bare, Closes, IsData, Consecutive
<1>3. \A k \in Data : ~InFlight(k)' /\ (InRx(k)' <=> InRx(k)) /\ (InDown(k)' => InDown(k))
  <2>1. \A k \in Data : InDown(k)' => InDown(k)
    BY <1>1 DEF InDown, Carried, Completing
  <2> QED BY <1>1, <1>2, <2>1, WithinBare DEF InFlight, InRx
<1>4. \A i \in DOMAIN down' : /\ i \in DOMAIN down /\ down'[i] = down[i] /\ down' = down
                              /\ \A k \in Data : Carried(i, k)' <=> Carried(i, k)
                              /\ ClosedAt(i)' <=> ClosedAt(i)
  BY <1>1 DEF Carried, Completing, ClosedAt
<1>5. OrderInv'
  <2>1. \A k \in Data : InDown(k)' \/ InFlight(k)' =>
            k > Len(got') /\ \A l \in Data : InRx(l)' => l < k
    BY <1>1, <1>3 DEF Passing, OrderInv
  <2>2. \A i, j \in DOMAIN down' : i < j =>
            \A k, l \in Data : Carried(i, k)' /\ Carried(j, l)' => k < l
    BY <1>4 DEF Passing, OrderInv
  <2>3. \A i \in DOMAIN down' : Consecutive(down'[i].record.body)
    BY <1>4 DEF Passing, OrderInv
  <2>4. /\ Consecutive(context'.rx)
        /\ context'.rx # <<>> /\ IsData(context'.rx[1]) => context'.rx[1].id = Len(got') + 1
    BY <1>1 DEF Passing, OrderInv
  <2> QED BY <1>2, <1>3, <2>1, <2>2, <2>3, <2>4 DEF OrderInv
<1>6. Len(got) \in Nat /\ server.sent \in Nat /\ \A l \in 1 .. server.sent : l \in Data
  BY DataOf DEF TypeInv
<1>7. \A k \in Data : OnItsWay(k)' => \A l \in Len(got') + 1 .. k : OnItsWay(l)'
  <2>1. SUFFICES ASSUME NEW k \in Data, OnItsWay(k)', NEW l \in Len(got) + 1 .. k
                 PROVE  OnItsWay(l)'
    BY <1>1
  <2>2. l \in Data /\ k \in Nat /\ l \in Nat /\ l <= k
    BY <1>6, <2>1, DataOf
  <2>3. InRx(k) \/ InDown(k)'
    BY <1>3, <2>1 DEF OnItsWay
  <2>4. OnItsWay(l)
    BY <1>3, <2>3 DEF Passing, GapInv, OnItsWay
  <2>5. ~InFlight(l)
    <3>1. InFlight(l) => k < l
      BY <1>3, <2>2, <2>3 DEF Passing, OrderInv
    <3> QED BY <2>2, <3>1
  <2>6. CASE InRx(l)
    BY <1>3, <2>2, <2>6 DEF OnItsWay
  <2>7. CASE InDown(l)
    <3>1. CASE down' = down
      <4>1. InDown(l)'
        BY <2>7, <3>1 DEF InDown, Carried, Completing
      <4> QED BY <4>1 DEF OnItsWay
    <3>2. CASE down' = <<>>
      <4>1. ~InDown(k)'
        BY <3>2 DEF InDown
      <4>2. k < l
        BY <2>2, <2>3, <2>7, <4>1 DEF Passing, OrderInv
      <4> QED BY <2>2, <4>2
    <3> QED BY <1>1, <3>1, <3>2
  <2> QED BY <2>4, <2>5, <2>6, <2>7 DEF OnItsWay
<1>8. ClosingOnItsWay' => \A l \in Len(got') + 1 .. server'.sent : OnItsWay(l)'
  <2>1. SUFFICES ASSUME ClosingOnItsWay', NEW l \in Len(got) + 1 .. server.sent
                 PROVE  OnItsWay(l)'
    BY <1>1
  <2>2. l \in Data
    BY <1>6
  <2>3. Closes(context.rx) \/ \E i \in DOMAIN down' : ClosedAt(i)'
    BY <1>1, <1>2, <2>1 DEF ClosingOnItsWay
  <2>4. ClosingOnItsWay
    BY <1>4, <2>3 DEF ClosingOnItsWay
  <2>5. OnItsWay(l)
    BY <2>4 DEF Passing, GapInv
  <2>6. CASE Closes(context.rx)
    <3>1. InRx(l)
      BY <2>2, <2>5, <2>6 DEF Passing, CloseInv, OnItsWay
    <3> QED BY <1>3, <2>2, <3>1 DEF OnItsWay
  <2>7. CASE \E i \in DOMAIN down' : ClosedAt(i)'
    <3>1. ~InFlight(l) /\ down' = down
      BY <1>4, <2>2, <2>7 DEF Passing, CloseInv
    <3>2. InDown(l)' <=> InDown(l)
      BY <3>1 DEF InDown, Carried, Completing
    <3> QED BY <1>3, <2>2, <2>5, <3>1, <3>2 DEF OnItsWay
  <2> QED BY <2>3, <2>6, <2>7
<1>9. CloseInv'
  <2>1. Closes(context'.rx) => \A k \in Data : ~InDown(k)' /\ ~InFlight(k)'
    BY <1>1, <1>3 DEF Passing, CloseInv
  <2>2. \A i \in DOMAIN down' : ClosedAt(i)' =>
            \A k \in Data : ~InFlight(k)' /\ \A j \in DOMAIN down' : j > i => ~Carried(j, k)'
    BY <1>3, <1>4 DEF Passing, CloseInv
  <2> QED BY <1>2, <2>1, <2>2 DEF CloseInv
<1>10. GapInv'
  BY <1>1, <1>7, <1>8 DEF GapInv
<1> QED BY <1>5, <1>9, <1>10 DEF Passing

\* The first half of those on their way is taken.
LEMMA TailCarried ==
    ASSUME TypeInv, down # <<>>, down' = Tail(down)
    PROVE  /\ \A i \in DOMAIN down' :
                /\ i + 1 \in DOMAIN down /\ down'[i] = down[i + 1]
                /\ \A k : Carried(i, k)' <=> Carried(i + 1, k)
                /\ ClosedAt(i)' <=> ClosedAt(i + 1)
           /\ \A k : InDown(k) <=> Carried(1, k) \/ InDown(k)'
           /\ \A i \in DOMAIN down : i = 1 \/ (i - 1 \in DOMAIN down' /\ i = (i - 1) + 1)
           /\ 1 \in DOMAIN down /\ down[1] = Head(down)
<1>1. /\ Len(Tail(down)) = Len(down) - 1 /\ Tail(down) \in Seq(ProperHalves) /\ down \in Seq(ProperHalves)
      /\ \A i \in 1 .. Len(down) - 1 : Tail(down)[i] = down[i + 1]
      /\ down[1] = Head(down)
  BY ReceivedOf DEF TypeInv
<1>2. \A i \in DOMAIN down' : i + 1 \in DOMAIN down /\ down'[i] = down[i + 1]
  BY <1>1
<1>3. \A i \in DOMAIN down' : /\ \A k : Carried(i, k)' <=> Carried(i + 1, k)
                              /\ ClosedAt(i)' <=> ClosedAt(i + 1)
  BY <1>2 DEF Carried, ClosedAt, Completing
<1>4. \A i \in DOMAIN down : i = 1 \/ (i - 1 \in DOMAIN down' /\ i = (i - 1) + 1)
  BY <1>1
<1>5. 1 \in DOMAIN down
  BY <1>1
<1>6. ASSUME NEW k
      PROVE  InDown(k) <=> Carried(1, k) \/ InDown(k)'
  <2>1. InDown(k)' => InDown(k)
    BY <1>2, <1>3 DEF InDown
  <2>2. Carried(1, k) => InDown(k)
    BY <1>5 DEF InDown
  <2>3. ASSUME InDown(k), ~Carried(1, k)
        PROVE  InDown(k)'
    <3>1. PICK i \in DOMAIN down : Carried(i, k)
      BY <2>3 DEF InDown
    <3>2. i - 1 \in DOMAIN down' /\ i = (i - 1) + 1
      BY <1>4, <2>3, <3>1
    <3>3. Carried(i - 1, k)'
      BY <1>3, <3>1, <3>2
    <3> QED BY <3>2, <3>3 DEF InDown
  <2> QED BY <2>1, <2>2, <2>3
<1> QED BY <1>1, <1>2, <1>3, <1>4, <1>5, <1>6

\* Records that have moved up are in the order they were.
LEMMA TailOrder ==
    ASSUME TypeInv, Passing, down # <<>>, down' = Tail(down)
    PROVE  /\ \A i \in DOMAIN down' : Consecutive(down'[i].record.body)
           /\ \A i, j \in DOMAIN down' : i < j =>
                \A k, l \in Data : Carried(i, k)' /\ Carried(j, l)' => k < l
           /\ \A i \in DOMAIN down' : ClosedAt(i)' =>
                \A k \in Data : ~InFlight(k) /\ \A j \in DOMAIN down' : j > i => ~Carried(j, k)'
<1>1. \A i \in DOMAIN down' :
          /\ i + 1 \in DOMAIN down /\ down'[i] = down[i + 1]
          /\ \A k : Carried(i, k)' <=> Carried(i + 1, k)
          /\ ClosedAt(i)' <=> ClosedAt(i + 1)
  BY TailCarried
<1>2. \A i, j \in DOMAIN down' : i < j <=> i + 1 < j + 1
  <2>1. down' \in Seq(ProperHalves)
    BY ReceivedOf
  <2> QED BY <2>1
<1>3. \A i \in DOMAIN down' : Consecutive(down'[i].record.body)
  BY <1>1 DEF Passing, OrderInv
<1>4. \A i, j \in DOMAIN down' : i < j =>
          \A k, l \in Data : Carried(i, k)' /\ Carried(j, l)' => k < l
  BY <1>1, <1>2 DEF Passing, OrderInv
<1>5. ASSUME NEW i \in DOMAIN down', ClosedAt(i)', NEW k \in Data
      PROVE  ~InFlight(k) /\ \A j \in DOMAIN down' : j > i => ~Carried(j, k)'
  <2>1. ClosedAt(i + 1) /\ i + 1 \in DOMAIN down
    BY <1>1, <1>5
  <2>2. ~InFlight(k) /\ \A j \in DOMAIN down : j > i + 1 => ~Carried(j, k)
    BY <2>1 DEF Passing, CloseInv
  <2>3. ASSUME NEW j \in DOMAIN down', j > i
        PROVE  ~Carried(j, k)'
    <3>1. j + 1 \in DOMAIN down /\ j + 1 > i + 1
      BY <1>1, <2>3, <1>2
    <3> QED BY <1>1, <2>2, <2>3, <3>1
  <2> QED BY <2>2, <2>3
<1> QED BY <1>3, <1>4, <1>5

LEMMA PassingHeader ==
    ASSUME TypeInv, CallInv, ShapeInv, Passing, ReceiveHeader
    PROVE  Passing'
<1>1. /\ context'.rx = context.rx /\ context.rxRecord = <<>> /\ Reading
      /\ down # <<>> /\ down' = Tail(down) /\ UNCHANGED <<got, server>>
  BY DEF ReceiveHeader, TypeInv, ProperContexts, caller, world
<1>2. Live
  BY <1>1, ReadyState
<1>3. \A k : ~Carried(1, k)
  <2>1. 1 \in DOMAIN down /\ Len(context.rxRecord) = 0
    BY <1>1, TailCarried
  <2>2. down[1].half = 2 <=> Even(1 + 0)
    BY <1>2, <2>1 DEF ShapeInv
  <2>3. 1 + 0 = 1
    OBVIOUS
  <2> QED BY <2>2, <2>3, EvenOf DEF Carried, Completing
<1>4. ~ClosedAt(1)
  <2>1. 1 \in DOMAIN down /\ Len(context.rxRecord) = 0
    BY <1>1, TailCarried
  <2>2. down[1].half = 2 <=> Even(1 + 0)
    BY <1>2, <2>1 DEF ShapeInv
  <2>3. 1 + 0 = 1
    OBVIOUS
  <2> QED BY <2>2, <2>3, EvenOf DEF ClosedAt, Completing
<1>5. /\ \A k \in Data : InDown(k)' <=> InDown(k)
      /\ \A k \in Data : (InRx(k)' <=> InRx(k)) /\ (InFlight(k)' <=> InFlight(k))
  BY <1>1, <1>3, TailCarried DEF InRx, InFlight
<1>6. \A k \in Data : OnItsWay(k)' <=> OnItsWay(k)
  BY <1>5 DEF OnItsWay
<1>7. ClosingOnItsWay' => ClosingOnItsWay
  BY <1>1, TailCarried DEF ClosingOnItsWay
<1>8. OrderInv'
  <2>1. \A k \in Data : InDown(k)' \/ InFlight(k)' =>
            k > Len(got') /\ \A l \in Data : InRx(l)' => l < k
    BY <1>1, <1>5 DEF Passing, OrderInv
  <2>2. \A k, l \in Data : InDown(k)' /\ InFlight(l)' => k < l
    BY <1>5 DEF Passing, OrderInv
  <2>3. /\ Consecutive(context'.rx) /\ Consecutive(server'.flight)
        /\ context'.rx # <<>> /\ IsData(context'.rx[1]) => context'.rx[1].id = Len(got') + 1
    BY <1>1 DEF Passing, OrderInv
  <2> QED BY <1>1, <2>1, <2>2, <2>3, TailOrder DEF OrderInv
<1>9. Len(got) \in Nat /\ server.sent \in Nat /\ \A l \in 1 .. server.sent : l \in Data
  BY DataOf DEF TypeInv
<1>10. GapInv'
  <2>1. \A k \in Data : OnItsWay(k)' => \A l \in Len(got') + 1 .. k : OnItsWay(l)'
    <3>1. \A k \in Data : \A l \in Len(got) + 1 .. k : l \in Data
      BY <1>9, DataOf
    <3> QED BY <1>1, <1>6, <3>1 DEF Passing, GapInv
  <2>2. server'.phase = "data" \/ ClosingOnItsWay' => \A l \in Len(got') + 1 .. server'.sent : OnItsWay(l)'
    <3>1. \A l \in Len(got) + 1 .. server.sent : l \in Data
      BY <1>9
    <3> QED BY <1>1, <1>6, <1>7, <3>1 DEF Passing, GapInv
  <2> QED BY <2>1, <2>2 DEF GapInv
<1>11. CloseInv'
  <2>1. Closes(context'.rx) => \A k \in Data : ~InDown(k)' /\ ~InFlight(k)'
    BY <1>1, <1>5 DEF Passing, CloseInv
  <2>2. Closes(server'.flight) => \A k \in Data : ~InFlight(k)'
    BY <1>1, <1>5 DEF Passing, CloseInv
  <2> QED BY <1>1, <1>5, <2>1, <2>2, TailOrder DEF CloseInv
<1> QED BY <1>8, <1>10, <1>11 DEF Passing

\* A record joins what is left of the last: its data go on where those end.
LEMMA RecordRun ==
    ASSUME TypeInv, CallInv, ShapeInv, Passing, ReceiveRecord
    PROVE  LET body == Head(down).record.body
           IN /\ body \in Seq(ProperMessages) /\ context.rx \in Seq(ProperMessages)
              /\ Completing(1)
              /\ \/ Bare(context.rx) /\ Bare(body)
                 \/ Run(context.rx \o body, Len(got))
<1> DEFINE body == Head(down).record.body
<1>1. /\ down # <<>> /\ down' = Tail(down) /\ Head(down).half = 2 /\ body \in Bodies
      /\ context.rx # <<>> => Kind(Head(body)) = Kind(Head(context.rx))
  BY RecordReceived
<1>2. body \in Seq(ProperMessages) /\ body # <<>> /\ context.rx \in Seq(ProperMessages)
  BY <1>1 DEF Bodies, TypeInv, ProperContexts
<1>3. /\ 1 \in DOMAIN down /\ down[1] = Head(down) /\ Head(down) \in Range(down)
      /\ \A i \in DOMAIN down : i = 1 \/ (i - 1 \in DOMAIN down' /\ i = (i - 1) + 1)
  BY <1>1, TailCarried, ReceivedOf
<1>4. Uniform(body) /\ Consecutive(body) /\ Completing(1)
  BY <1>1, <1>3 DEF ShapeInv, Passing, OrderInv, Completing
<1>5. Head(body) = body[1] /\ (context.rx # <<>> => Head(context.rx) = context.rx[1])
  BY <1>2, TailOf
<1>6. CASE Bare(body)
  <2>1. ASSUME ~Bare(context.rx)
        PROVE  FALSE
    <3>1. context.rx # <<>> /\ IsData(context.rx[1])
      BY <1>2, <2>1, RunOf DEF ShapeInv, Passing, OrderInv
    <3>2. IsData(body[1])
      BY <1>1, <1>5, <3>1, KindOf DEF IsData
    <3>3. 1 \in DOMAIN body
      BY <1>2
    <3> QED BY <1>6, <3>2, <3>3 DEF Bare
  <2> QED BY <1>2, <1>4, <1>6, <2>1
<1>7. CASE ~Bare(body)
  <2> DEFINE b == body[1].id
             n == Len(got) + Len(context.rx)
  <2>1. IsData(body[1]) /\ b \in Data /\ Run(body, b - 1)
    BY <1>2, <1>4, <1>7, RunOf
  <2>2. Run(context.rx, Len(got)) /\ Len(got) \in Nat
    <3>1. Len(got) \in Nat /\ (Bare(context.rx) \/ Run(context.rx, Len(got)))
      BY RxOf DEF Passing
    <3>2. CASE context.rx = <<>>
      BY <3>1, <3>2 DEF Run
    <3>3. CASE context.rx # <<>>
      <4>1. IsData(context.rx[1]) /\ 1 \in DOMAIN context.rx
        BY <1>1, <1>2, <1>5, <2>1, <3>3, KindOf DEF IsData
      <4> QED BY <3>1, <4>1 DEF Bare
    <3> QED BY <3>2, <3>3
  <2>3. \A k \in Data : (InRx(k) <=> Len(got) < k /\ k <= n) /\ k \in Nat /\ k > 0
    BY <1>2, <2>2, WithinRun, DataOf DEF InRx
  <2>4. Carried(1, b)
    <3>1. 1 \in DOMAIN body
      BY <1>2
    <3>2. Within(body, b)
      BY <2>1, <3>1 DEF Within
    <3> QED BY <1>3, <1>4, <3>2 DEF Carried
  <2>5. InDown(b)
    BY <1>3, <2>4 DEF InDown
  <2>6. b > n
    <3>1. b > Len(got) /\ \A l \in Data : InRx(l) => l < b
      BY <2>1, <2>5 DEF Passing, OrderInv
    <3>2. CASE b <= n
      <4>1. InRx(b)
        BY <2>1, <2>3, <3>1, <3>2
      <4> QED BY <2>1, <2>3, <3>1, <4>1
    <3>3. n \in Nat /\ b \in Nat
      BY <1>2, <2>1, <2>2, <2>3
    <3> QED BY <3>2, <3>3
  <2>7. b = n + 1
    <3>0. n \in Nat /\ b \in Nat
      BY <1>2, <2>1, <2>2, <2>3
    <3> SUFFICES ASSUME n + 1 < b
                 PROVE  FALSE
      BY <2>6, <3>0
    <3>1. n + 1 \in Data /\ n + 1 \in Len(got) + 1 .. b
      BY <1>2, <2>1, <2>2, <3>0, DataOf
    <3>2. OnItsWay(n + 1)
      BY <2>1, <2>5, <3>1 DEF Passing, GapInv, OnItsWay
    <3>3. ~InRx(n + 1)
      BY <2>3, <3>0, <3>1
    <3>4. ~InFlight(n + 1)
      <4>1. InFlight(n + 1) => b < n + 1
        BY <2>1, <2>5, <3>1 DEF Passing, OrderInv
      <4> QED BY <3>0, <4>1
    <3>5. PICK i \in DOMAIN down : Carried(i, n + 1)
      BY <3>2, <3>3, <3>4 DEF OnItsWay, InDown
    <3>6. CASE i = 1
      <4>1. Within(body, n + 1)
        BY <1>3, <3>5, <3>6 DEF Carried
      <4>2. b - 1 < n + 1
        BY <1>2, <2>1, <3>0, <3>1, <4>1, WithinRun
      <4> QED BY <3>0, <4>2
    <3>7. CASE i # 1
      <4>1. 1 < i
        <5>1. down \in Seq(ProperHalves)
          BY DEF TypeInv
        <5> QED BY <3>7, <5>1
      <4>2. b < n + 1
        BY <1>3, <2>1, <2>4, <3>1, <3>5, <4>1 DEF Passing, OrderInv
      <4> QED BY <3>0, <4>2
    <3> QED BY <3>6, <3>7
  <2> DEFINE u == context.rx \o body
  <2>8. /\ u \in Seq(ProperMessages) /\ Len(u) = Len(context.rx) + Len(body)
        /\ \A i \in 1 .. Len(context.rx) : u[i] = context.rx[i]
        /\ \A i \in Len(context.rx) + 1 .. Len(context.rx) + Len(body) : u[i] = body[i - Len(context.rx)]
    <3> HIDE DEF body
    <3> QED BY <1>2, ConcatOf
  <2> HIDE DEF u, body
  <2>9. ASSUME NEW i \in DOMAIN u
        PROVE  IsData(u[i]) /\ u[i].id = Len(got) + i
    <3>1. CASE i \in 1 .. Len(context.rx)
      BY <1>2, <2>2, <2>8, <3>1 DEF Run
    <3>2. CASE i \in Len(context.rx) + 1 .. Len(context.rx) + Len(body)
      <4>1. i - Len(context.rx) \in DOMAIN body /\ (b - 1) + (i - Len(context.rx)) = Len(got) + i
        BY <1>2, <2>2, <2>7, <3>2
      <4>2. IsData(body[i - Len(context.rx)])
            /\ body[i - Len(context.rx)].id = (b - 1) + (i - Len(context.rx))
        BY <2>1, <4>1 DEF Run
      <4> QED BY <2>8, <3>2, <4>1, <4>2
    <3>3. i \in 1 .. Len(context.rx) \/ i \in Len(context.rx) + 1 .. Len(context.rx) + Len(body)
      BY <1>2, <2>8, <2>9
    <3> QED BY <3>1, <3>2, <3>3
  <2>10. Run(u, Len(got))
    BY <2>9 DEF Run
  <2> QED BY <1>2, <1>4, <2>10 DEF u, body
<1> QED BY <1>6, <1>7

LEMMA PassingRecord ==
    ASSUME TypeInv, CallInv, ShapeInv, Passing, ReceiveRecord
    PROVE  Passing'
<1> DEFINE body == Head(down).record.body
<1>1. /\ down # <<>> /\ down' = Tail(down) /\ context'.rx = context.rx \o body
      /\ UNCHANGED <<got, server>>
  BY RecordReceived
<1>2. /\ body \in Seq(ProperMessages) /\ context.rx \in Seq(ProperMessages) /\ Completing(1)
      /\ (Bare(context.rx) /\ Bare(body)) \/ Run(context.rx \o body, Len(got))
  BY RecordRun
<1>3. /\ \A i \in DOMAIN down' :
            /\ i + 1 \in DOMAIN down /\ down'[i] = down[i + 1]
            /\ \A k : Carried(i, k)' <=> Carried(i + 1, k)
      /\ \A k : InDown(k) <=> Carried(1, k) \/ InDown(k)'
      /\ 1 \in DOMAIN down /\ down[1] = Head(down)
  BY <1>1, TailCarried
<1>4. /\ \A k : Carried(1, k) <=> Within(body, k)
      /\ ClosedAt(1) <=> Closes(body)
  BY <1>2, <1>3 DEF Carried, ClosedAt
<1> HIDE DEF body
<1>5. /\ context'.rx \in Seq(ProperMessages)
      /\ \A k : InRx(k)' <=> InRx(k) \/ Within(body, k)
      /\ Closes(context'.rx) => Closes(context.rx) \/ Closes(body)
  BY <1>1, <1>2, ConcatOf, WithinConcat, ClosesConcat DEF InRx
<1>6. \A k : (InFlight(k)' <=> InFlight(k)) /\ (OnItsWay(k)' <=> OnItsWay(k))
  BY <1>1, <1>3, <1>4, <1>5 DEF InFlight, OnItsWay
<1>7. Len(got) \in Nat /\ Len(got) \in Int /\ server.sent \in Nat /\ \A l \in 1 .. server.sent : l \in Data
  BY DataOf DEF TypeInv
<1>8. Bare(context'.rx) \/ Run(context'.rx, Len(got))
  <2>1. CASE Bare(context.rx) /\ Bare(body)
    <3>1. \A k : ~Within(context'.rx, k)
      BY <1>1, <1>2, <2>1, WithinConcat, WithinBare
    <3> QED BY <3>1 DEF Bare, Within
  <2> QED BY <1>1, <1>2, <2>1
<1>9. OrderInv'
  <2>1. ASSUME NEW k \in Data, InDown(k)' \/ InFlight(k)'
        PROVE  k > Len(got') /\ \A l \in Data : InRx(l)' => l < k
    <3>1. InDown(k) \/ InFlight(k)
      BY <1>3, <1>6, <2>1
    <3>2. ASSUME NEW l \in Data, Within(body, l)
          PROVE  l < k
      <4>1. Carried(1, l) /\ InDown(l)
        BY <1>3, <1>4, <3>2
      <4>2. CASE InFlight(k)
        BY <4>1, <4>2 DEF Passing, OrderInv
      <4>3. CASE InDown(k)'
        <5>1. PICK j \in DOMAIN down' : Carried(j, k)'
          BY <4>3 DEF InDown
        <5>2. j + 1 \in DOMAIN down /\ Carried(j + 1, k)
          BY <1>3, <5>1
        <5>3. 1 < j + 1
          <6>1. down' \in Seq(ProperHalves)
            BY <1>1, ReceivedOf
          <6> QED BY <5>1, <6>1
        <5> QED BY <1>3, <4>1, <5>2, <5>3 DEF Passing, OrderInv
      <4> QED BY <1>6, <2>1, <4>2, <4>3
    <3>3. k > Len(got) /\ \A l \in Data : InRx(l) => l < k
      BY <3>1 DEF Passing, OrderInv
    <3> QED BY <1>1, <1>5, <3>2, <3>3
  <2>2. \A k, l \in Data : InDown(k)' /\ InFlight(l)' => k < l
    BY <1>3, <1>6 DEF Passing, OrderInv
  <2>3. Consecutive(context'.rx) /\ Consecutive(server'.flight)
    <3>1. Consecutive(server'.flight)
      BY <1>1 DEF Passing, OrderInv
    <3> QED BY <1>5, <1>7, <1>8, <3>1, RunConsecutive
  <2>4. context'.rx # <<>> /\ IsData(context'.rx[1]) => context'.rx[1].id = Len(got') + 1
    <3>1. context'.rx # <<>> => 1 \in DOMAIN context'.rx
      BY <1>5
    <3> QED BY <1>1, <1>8, <3>1 DEF Bare, Run
  <2>5. /\ \A i \in DOMAIN down' : Consecutive(down'[i].record.body)
        /\ \A i, j \in DOMAIN down' : i < j =>
                \A k, l \in Data : Carried(i, k)' /\ Carried(j, l)' => k < l
    BY <1>1, TailOrder
  <2> QED BY <2>1, <2>2, <2>3, <2>4, <2>5 DEF OrderInv
<1>10. ClosingOnItsWay' => ClosingOnItsWay
  <2>1. (\E i \in DOMAIN down' : ClosedAt(i)') => \E i \in DOMAIN down : ClosedAt(i)
    BY <1>1, <1>3, TailCarried
  <2> QED BY <1>1, <1>3, <1>4, <1>5, <2>1 DEF ClosingOnItsWay
<1>11. GapInv'
  <2>1. \A k \in Data : OnItsWay(k)' => \A l \in Len(got') + 1 .. k : OnItsWay(l)'
    BY <1>1, <1>6 DEF Passing, GapInv
  <2>2. server'.phase = "data" \/ ClosingOnItsWay' => \A l \in Len(got') + 1 .. server'.sent : OnItsWay(l)'
    BY <1>1, <1>6, <1>10 DEF Passing, GapInv
  <2> QED BY <2>1, <2>2 DEF GapInv
<1>12. CloseInv'
  <2>1. ASSUME Closes(context'.rx), NEW k \in Data
        PROVE  ~InDown(k)' /\ ~InFlight(k)'
    <3>1. CASE Closes(context.rx)
      BY <1>3, <1>6, <3>1 DEF Passing, CloseInv
    <3>2. CASE Closes(body)
      <4>1. ~InFlight(k) /\ \A j \in DOMAIN down : j > 1 => ~Carried(j, k)
        BY <1>3, <1>4, <3>2 DEF Passing, CloseInv
      <4>2. \A j \in DOMAIN down' : j + 1 > 1
        <5>1. down' \in Seq(ProperHalves)
          BY <1>1, ReceivedOf
        <5> QED BY <5>1
      <4>3. \A j \in DOMAIN down' : ~Carried(j, k)'
        BY <1>3, <4>1, <4>2
      <4> QED BY <1>6, <4>1, <4>3 DEF InDown
    <3> QED BY <1>5, <2>1, <3>1, <3>2
  <2>2. \A i \in DOMAIN down' : ClosedAt(i)' =>
            \A k \in Data : ~InFlight(k)' /\ \A j \in DOMAIN down' : j > i => ~Carried(j, k)'
    BY <1>1, <1>6, TailOrder
  <2>3. Closes(server'.flight) => \A k \in Data : ~InFlight(k)'
    BY <1>1, <1>6 DEF Passing, CloseInv
  <2> QED BY <2>1, <2>2, <2>3 DEF CloseInv
<1> QED BY <1>9, <1>11, <1>12 DEF Passing

\* The caller takes the first of the data, and the rest go on from there.
LEMMA PassingData ==
    ASSUME TypeInv, CallInv, ShapeInv, DownInv, GotInv, Passing, ParseData
    PROVE  Passing'
<1>1. PICK n \in 1 .. Len(context.rx) : Len(got') = Len(got) + n /\ context'.rx = Drop(context.rx, n)
  BY DataGot DEF Passing
<1>2. /\ Run(context.rx, Len(got)) /\ context.rx \in Seq(ProperMessages) /\ Len(got) \in Nat
      /\ UNCHANGED <<down, server>>
  BY DataGot, DataParsed DEF Passing, TypeInv, ProperContexts
<1>3. /\ context'.rx \in Seq(ProperMessages) /\ Len(context'.rx) = Len(context.rx) - n
      /\ \A i \in 1 .. Len(context.rx) - n : context'.rx[i] = context.rx[n + i]
  <2>1. n \in 0 .. Len(context.rx)
    BY <1>2
  <2> QED BY <1>1, <1>2, <2>1, DropOf
<1>4. Run(context'.rx, Len(got'))
  <2>1. ASSUME NEW i \in DOMAIN context'.rx
        PROVE  IsData(context'.rx[i]) /\ context'.rx[i].id = Len(got') + i
    <3>1. i \in 1 .. Len(context.rx) - n /\ n + i \in DOMAIN context.rx
      BY <1>2, <1>3
    <3>2. Len(got) + (n + i) = Len(got') + i
      BY <1>1, <1>2, <3>1
    <3> QED BY <1>2, <1>3, <3>1, <3>2 DEF Run
  <2> QED BY <2>1 DEF Run
<1> DEFINE has == Len(got)
           gets == Len(got')
           had == Len(context.rx)
           left == Len(context'.rx)
<1>5. /\ gets \in Nat /\ gets > has /\ gets + left = has + had /\ gets <= has + had
      /\ has \in Nat /\ had \in Nat /\ left \in Nat
  <2>1. had \in Nat /\ has \in Nat /\ n \in 1 .. had /\ gets = has + n /\ left = had - n
    BY <1>1, <1>2, <1>3
  <2> HIDE DEF has, gets, had, left
  <2> QED BY <2>1
<1>6. \A k \in Data : /\ InRx(k) <=> has < k /\ k <= has + had
                      /\ InRx(k)' <=> gets < k /\ k <= gets + left
                      /\ k \in Nat
  <2>1. has \in Int /\ gets \in Int
    BY <1>5
  <2>2. TAKE k \in Data
  <2>3. InRx(k) <=> has < k /\ k <= has + had
    BY <1>2, <2>1, WithinRun DEF InRx
  <2>4. InRx(k)' <=> gets < k /\ k <= gets + left
    BY <1>3, <1>4, <2>1, WithinRun DEF InRx
  <2> QED BY <2>3, <2>4, DataOf
<1>7. \A k \in Data : /\ (InDown(k)' <=> InDown(k)) /\ (InFlight(k)' <=> InFlight(k))
                      /\ \A i \in DOMAIN down : Carried(i, k)' <=> Carried(i, k)
  BY <1>2 DEF InDown, InFlight, Carried, Completing
<1>8. \A k \in Data : InRx(k)' <=> InRx(k) /\ k > Len(got')
  BY <1>5, <1>6
<1>9. \A k \in Data : InDown(k) \/ InFlight(k) => k > Len(got')
  <2>1. TAKE k \in Data
  <2>2. HAVE InDown(k) \/ InFlight(k)
  <2>3. k > Len(got) /\ \A l \in Data : InRx(l) => l < k
    BY <2>2 DEF Passing, OrderInv
  <2> SUFFICES ASSUME k <= Len(got')
               PROVE  FALSE
    BY <1>5, <1>6
  <2>4. InRx(k)
    BY <1>5, <1>6, <2>3
  <2> QED BY <1>6, <2>3, <2>4
<1>10. \A k \in Data : OnItsWay(k)' <=> OnItsWay(k) /\ k > Len(got')
  BY <1>7, <1>8, <1>9 DEF OnItsWay
<1>11. OrderInv'
  <2>1. \A k \in Data : InDown(k)' \/ InFlight(k)' =>
            k > Len(got') /\ \A l \in Data : InRx(l)' => l < k
    BY <1>7, <1>8, <1>9 DEF Passing, OrderInv
  <2>2. \A k, l \in Data : InDown(k)' /\ InFlight(l)' => k < l
    BY <1>7 DEF Passing, OrderInv
  <2>3. Consecutive(context'.rx) /\ Consecutive(server'.flight)
    <3>1. Consecutive(server'.flight)
      BY <1>2 DEF Passing, OrderInv
    <3> QED BY <1>3, <1>4, <1>5, <3>1, RunConsecutive
  <2>4. context'.rx # <<>> /\ IsData(context'.rx[1]) => context'.rx[1].id = Len(got') + 1
    <3>1. context'.rx # <<>> => 1 \in DOMAIN context'.rx
      BY <1>3
    <3> QED BY <1>4, <3>1 DEF Run
  <2>5. /\ \A i \in DOMAIN down' : Consecutive(down'[i].record.body)
        /\ \A i, j \in DOMAIN down' : i < j =>
                \A k, l \in Data : Carried(i, k)' /\ Carried(j, l)' => k < l
    BY <1>2, <1>7 DEF Passing, OrderInv
  <2> QED BY <2>1, <2>2, <2>3, <2>4, <2>5 DEF OrderInv
<1>12. ~Closes(context'.rx)
  BY <1>4 DEF Run, Closes, IsData
<1>13. GapInv'
  <2>1. server.sent \in Nat /\ \A l \in 1 .. server.sent : l \in Data
    BY DataOf
  <2>2. ASSUME NEW k \in Data, OnItsWay(k)', NEW l \in Len(got') + 1 .. k
        PROVE  OnItsWay(l)'
    <3>1. OnItsWay(k) /\ l \in Len(got) + 1 .. k /\ l > Len(got') /\ l \in 1 .. k
      BY <1>2, <1>5, <1>6, <1>10, <2>2
    <3>2. l \in Data
      BY <3>1, DataOf
    <3> QED BY <1>10, <3>1, <3>2 DEF Passing, GapInv
  <2>3. ASSUME server'.phase = "data" \/ ClosingOnItsWay', NEW l \in Len(got') + 1 .. server'.sent
        PROVE  OnItsWay(l)'
    <3>1. server.phase = "data" \/ ClosingOnItsWay
      BY <1>2, <1>12, <2>3 DEF ClosingOnItsWay, ClosedAt, Completing
    <3>2. l \in Len(got) + 1 .. server.sent /\ l > Len(got') /\ l \in Data
      BY <1>2, <1>5, <2>1, <2>3
    <3> QED BY <1>10, <3>1, <3>2 DEF Passing, GapInv
  <2> QED BY <2>2, <2>3 DEF GapInv
<1>14. CloseInv'
  <2>1. \A i \in DOMAIN down' : ClosedAt(i)' => ClosedAt(i)
    BY <1>2 DEF ClosedAt, Completing
  <2> QED BY <1>2, <1>7, <1>12, <2>1 DEF Passing, CloseInv
<1> QED BY <1>11, <1>13, <1>14 DEF Passing

\* What the server sends is the first of what it had to say.
LEMMA SentFlight ==
    ASSUME TypeInv, Consecutive(server.flight), NEW n, NEW body, Dispatched(n, body)
    PROVE  /\ Consecutive(body) /\ Consecutive(server'.flight)
           /\ \A k : InFlight(k) <=> Within(body, k) \/ InFlight(k)'
           /\ \A k, l \in Data : Within(body, k) /\ InFlight(l)' => k < l
           /\ Closes(body) => Closes(server.flight)
           /\ Closes(server'.flight) => Closes(server.flight)
<1> DEFINE flight == server.flight
           rest == Drop(flight, n)
           next == server'.flight
<1>1. /\ n \in 1 .. Len(flight) /\ Len(body) = n /\ body \in Seq(ProperMessages)
      /\ flight \in Seq(ProperMessages) /\ n \in 0 .. Len(flight)
      /\ \A i \in 1 .. n : Alike(body[i], flight[i])
  BY DEF Dispatched, TypeInv, ProperServers, Bodies
<1>2. rest \in Seq(ProperMessages) /\ Len(rest) = Len(flight) - n
      /\ \A i \in 1 .. Len(flight) - n : rest[i] = flight[n + i]
  BY <1>1, DropOf
<1>3. \A i \in DOMAIN flight : IsData(flight[i]) =>
          \A j \in 1 .. i : IsData(flight[j]) /\ flight[i].id = flight[j].id + (i - j)
  BY DEF Consecutive
<1>4. next = rest \/ \E tail \in ProperMessages :
          next = <<tail>> \o rest /\ Alike(tail, flight[n]) /\ Kind(flight[n]) = "handshake"
  BY DEF Dispatched
<1> HIDE DEF rest, flight, next
<1>5. \A i \in DOMAIN body : i \in DOMAIN flight /\ (IsData(body[i]) <=> IsData(flight[i]))
                             /\ body[i].id = flight[i].id /\ body[i].name = flight[i].name
  BY <1>1 DEF Alike, IsData
<1>6. \A j \in DOMAIN rest : n + j \in DOMAIN flight /\ rest[j] = flight[n + j]
  BY <1>1, <1>2, SMTT(30)
<1>7. \A i \in DOMAIN flight : i \in DOMAIN body \/ (i - n \in DOMAIN rest /\ rest[i - n] = flight[i])
  <2>1. TAKE i \in DOMAIN flight
  <2>2. CASE i \in 1 .. n
    BY <1>1, <2>2
  <2>3. CASE ~(i \in 1 .. n)
    <3>1. i - n \in 1 .. Len(flight) - n /\ n + (i - n) = i
      BY <1>1, <2>3
    <3> QED BY <1>2, <3>1
  <2> QED BY <2>2, <2>3
<1>8. Consecutive(body)
  <2>1. \A i \in DOMAIN body : \A j \in 1 .. i : j \in DOMAIN body
    BY <1>1
  <2> QED BY <1>3, <1>5, <2>1 DEF Consecutive
<1>9. Closes(body) => Closes(flight)
  BY <1>5 DEF Closes
<1>10. CASE next = rest
  <2>1. Consecutive(rest)
    <3>1. ASSUME NEW i \in DOMAIN rest, IsData(rest[i]), NEW j \in 1 .. i
          PROVE  IsData(rest[j]) /\ rest[i].id = rest[j].id + (i - j)
      <4>1. /\ j \in DOMAIN rest /\ n + i \in DOMAIN flight /\ n + j \in 1 .. n + i
            /\ (n + i) - (n + j) = i - j
        BY <1>1, <1>2, <3>1
      <4> QED BY <1>3, <1>6, <3>1, <4>1
    <3> QED BY <3>1 DEF Consecutive
  <2>2. \A k : Within(flight, k) <=> Within(body, k) \/ Within(rest, k)
    <3>1. TAKE k
    <3>2. Within(flight, k) => Within(body, k) \/ Within(rest, k)
      BY <1>5, <1>7 DEF Within
    <3>3. Within(body, k) \/ Within(rest, k) => Within(flight, k)
      BY <1>5, <1>6 DEF Within
    <3> QED BY <3>2, <3>3
  <2>3. ASSUME NEW k \in Data, NEW l \in Data, Within(body, k), Within(rest, l)
        PROVE  k < l
    <3>1. PICK i \in DOMAIN body : IsData(body[i]) /\ body[i].id = k
      BY <2>3 DEF Within
    <3>2. PICK j \in DOMAIN rest : IsData(rest[j]) /\ rest[j].id = l
      BY <2>3 DEF Within
    <3>3. i \in 1 .. n + j /\ (n + j) - i > 0 /\ (n + j) - i \in Int
      BY <1>1, <1>2, <3>1, <3>2
    <3>4. l = k + ((n + j) - i)
      BY <1>3, <1>5, <1>6, <3>1, <3>2, <3>3
    <3> QED BY <3>3, <3>4, DataOf
  <2>4. Closes(rest) => Closes(flight)
    BY <1>6 DEF Closes
  <2> QED BY <1>8, <1>9, <1>10, <2>1, <2>2, <2>3, <2>4 DEF InFlight, flight, next
<1>11. ASSUME NEW tail \in ProperMessages,
              next = <<tail>> \o rest, Alike(tail, flight[n]), Kind(flight[n]) = "handshake"
       PROVE  /\ Bare(next) /\ Bare(rest)
              /\ Closes(next) => Closes(flight)
  <2>1. ~IsData(flight[n]) /\ ~IsData(tail) /\ tail.name # "close_notify"
    BY <1>11, KindOf DEF Alike, IsData
  <2>2. Bare(rest)
    <3>1. ASSUME NEW j \in DOMAIN rest, IsData(rest[j])
          PROVE  FALSE
      <4>1. n \in 1 .. n + j
        BY <1>1, <1>2, <3>1
      <4> QED BY <1>3, <1>6, <2>1, <3>1, <4>1
    <3> QED BY <3>1 DEF Bare
  <2>3. <<tail>> \in Seq(ProperMessages) /\ Bare(<<tail>>) /\ ~Closes(<<tail>>)
    BY <2>1 DEF Bare, Closes
  <2>4. \A k : ~Within(next, k)
    BY <1>2, <1>11, <2>2, <2>3, WithinBare, WithinConcat
  <2>5. Closes(next) => Closes(rest)
    BY <1>2, <1>11, <2>3, ClosesConcat
  <2>6. Closes(rest) => Closes(flight)
    BY <1>6 DEF Closes
  <2> QED BY <2>2, <2>4, <2>5, <2>6 DEF Bare, Within
<1>12. CASE next # rest
  <2>1. Bare(next) /\ Bare(rest) /\ (Closes(next) => Closes(flight))
    BY <1>4, <1>11, <1>12
  <2>2. Consecutive(next) /\ \A k : ~Within(next, k)
    BY <2>1 DEF Bare, Consecutive, Within
  <2>3. \A k : Within(flight, k) <=> Within(body, k)
    <3>1. TAKE k
    <3>2. Within(flight, k) => Within(body, k)
      BY <1>5, <1>7, <2>1 DEF Within, Bare
    <3>3. Within(body, k) => Within(flight, k)
      BY <1>5 DEF Within
    <3> QED BY <3>2, <3>3
  <2> QED BY <1>8, <1>9, <2>1, <2>2, <2>3 DEF InFlight, flight, next
<1> QED BY <1>10, <1>12

\* It comes behind all that is on its way.
LEMMA SentDown ==
    ASSUME TypeInv, NEW n, NEW body, Dispatched(n, body), NEW last, last = Len(down) + 2
    PROVE  /\ last \in DOMAIN down' /\ down'[last].record.body = body /\ down' \in Seq(ProperHalves)
           /\ \A k : Carried(last, k)' <=> Within(body, k)
           /\ ClosedAt(last)' <=> Closes(body)
           /\ \A i \in DOMAIN down :
                 /\ i \in DOMAIN down' /\ i < last /\ down'[i] = down[i]
                 /\ \A k : Carried(i, k)' <=> Carried(i, k)
                 /\ ClosedAt(i)' <=> ClosedAt(i)
           /\ \A i \in DOMAIN down' :
                 i \in DOMAIN down \/ i = last \/ (~Completing(i)' /\ down'[i].record.body = body)
<1> DEFINE key == server.encryption
           halves == Halves(Record(body, key))
<1>1. body \in Bodies /\ down' = down \o halves /\ key \in Engines /\ down \in Seq(ProperHalves)
  BY DEF Dispatched, TypeInv, ProperServers
<1>2. /\ halves \in Seq(ProperHalves) /\ Len(halves) = 2
      /\ halves[1].half = 1 /\ halves[2].half = 2
      /\ halves[1].record.body = body /\ halves[2].record.body = body
  <2>1. /\ halves \in Seq(ProperHalves) /\ Len(halves) = 2
        /\ halves[1] = [record |-> Record(body, key), half |-> 1]
        /\ halves[2] = [record |-> Record(body, key), half |-> 2]
    BY <1>1, HalvesOf
  <2> QED BY <2>1 DEF Record
<1> HIDE DEF halves
<1>3. /\ Len(down') = Len(down) + 2 /\ Len(down) \in Nat /\ down' \in Seq(ProperHalves)
      /\ \A i \in 1 .. Len(down) : down'[i] = down[i]
      /\ \A i \in Len(down) + 1 .. Len(down) + 2 : down'[i] = halves[i - Len(down)]
  <2>1. /\ down' \in Seq(ProperHalves) /\ Len(down') = Len(down) + Len(halves)
        /\ \A i \in 1 .. Len(down) : down'[i] = down[i]
        /\ \A i \in Len(down) + 1 .. Len(down) + Len(halves) : down'[i] = halves[i - Len(down)]
    BY <1>1, <1>2, ConcatOf
  <2> QED BY <1>1, <1>2, <2>1
<1>4. down'[Len(down) + 1] = halves[1] /\ down'[last] = halves[2]
  <2>1. (Len(down) + 1) - Len(down) = 1 /\ (Len(down) + 2) - Len(down) = 2
    BY <1>3
  <2> QED BY <1>3, <2>1
<1>5. \A i \in DOMAIN down' : i \in DOMAIN down \/ i = Len(down) + 1 \/ i = last
  BY <1>1, <1>3
<1>6. last \in DOMAIN down'
  BY <1>3
<1>7. \A i \in DOMAIN down : i \in DOMAIN down' /\ i < last /\ down'[i] = down[i]
  BY <1>1, <1>3
<1>8. \A i \in DOMAIN down : /\ \A k : Carried(i, k)' <=> Carried(i, k)
                             /\ ClosedAt(i)' <=> ClosedAt(i)
  BY <1>7 DEF Carried, ClosedAt, Completing
<1>9. /\ \A k : Carried(last, k)' <=> Within(body, k)
      /\ ClosedAt(last)' <=> Closes(body)
  BY <1>2, <1>4, <1>6 DEF Carried, ClosedAt, Completing
<1>10. \A i \in DOMAIN down' :
           i \in DOMAIN down \/ i = last \/ (~Completing(i)' /\ down'[i].record.body = body)
  BY <1>2, <1>4, <1>5 DEF Completing
<1> QED BY <1>2, <1>3, <1>4, <1>6, <1>7, <1>8, <1>9, <1>10

LEMMA PassingSent ==
    ASSUME TypeInv, Passing, ServerSends
    PROVE  Passing'
<1>1. PICK n, body : Dispatched(n, body)
  BY ServerSent
<1>2. UNCHANGED <<context, got, server.sent, server.phase>>
  BY ServerSent DEF Served
<1>3. PICK last : last = Len(down) + 2
  OBVIOUS
<1>4. /\ Consecutive(body) /\ Consecutive(server'.flight)
      /\ \A k : InFlight(k) <=> Within(body, k) \/ InFlight(k)'
      /\ \A k, l \in Data : Within(body, k) /\ InFlight(l)' => k < l
      /\ Closes(body) => Closes(server.flight)
      /\ Closes(server'.flight) => Closes(server.flight)
  BY <1>1, SentFlight DEF Passing, OrderInv
<1>5. /\ last \in DOMAIN down' /\ down'[last].record.body = body /\ last \in Nat
      /\ down' \in Seq(ProperHalves)
      /\ \A k : Carried(last, k)' <=> Within(body, k)
      /\ ClosedAt(last)' <=> Closes(body)
  BY <1>1, <1>3, SentDown
<1>6. \A i \in DOMAIN down :
          /\ i \in DOMAIN down' /\ i < last /\ down'[i] = down[i]
          /\ \A k : Carried(i, k)' <=> Carried(i, k)
          /\ ClosedAt(i)' <=> ClosedAt(i)
  BY <1>1, <1>3, SentDown
<1>7. \A i \in DOMAIN down' :
          i \in DOMAIN down \/ i = last \/ (~Completing(i)' /\ down'[i].record.body = body)
  BY <1>1, <1>3, SentDown
<1>8. \A i \in DOMAIN down' : /\ i \in Nat
                              /\ ClosedAt(i)' => i = last \/ i \in DOMAIN down
                              /\ \A k : Carried(i, k)' => i = last \/ i \in DOMAIN down
  BY <1>5, <1>7 DEF Carried, ClosedAt
<1>9. \A k : InDown(k)' <=> InDown(k) \/ Within(body, k)
  <2>1. TAKE k
  <2>2. InDown(k)' => InDown(k) \/ Within(body, k)
    BY <1>5, <1>6, <1>8 DEF InDown
  <2>3. InDown(k) \/ Within(body, k) => InDown(k)'
    BY <1>5, <1>6 DEF InDown
  <2> QED BY <2>2, <2>3
<1>10. \A k : (InRx(k)' <=> InRx(k)) /\ (OnItsWay(k)' <=> OnItsWay(k))
  BY <1>2, <1>4, <1>9 DEF InRx, OnItsWay
<1>11. OrderInv'
  <2>1. \A k \in Data : InDown(k)' \/ InFlight(k)' =>
            k > Len(got') /\ \A l \in Data : InRx(l)' => l < k
    BY <1>2, <1>4, <1>9, <1>10 DEF Passing, OrderInv
  <2>2. ASSUME NEW i \in DOMAIN down', NEW j \in DOMAIN down', i < j,
               NEW k \in Data, NEW l \in Data, Carried(i, k)', Carried(j, l)'
        PROVE  k < l
    <3>1. i \in DOMAIN down
      <4>1. i # last
        BY <1>5, <1>6, <1>8, <2>2
      <4> QED BY <1>8, <2>2, <4>1
    <3>2. Carried(i, k) /\ InDown(k)
      BY <1>6, <2>2, <3>1 DEF InDown
    <3>3. CASE j \in DOMAIN down
      BY <1>6, <2>2, <3>1, <3>2, <3>3 DEF Passing, OrderInv
    <3>4. CASE j = last
      <4>1. InFlight(l)
        BY <1>4, <1>5, <2>2, <3>4
      <4> QED BY <3>2, <4>1 DEF Passing, OrderInv
    <3> QED BY <1>8, <2>2, <3>3, <3>4
  <2>3. ASSUME NEW k \in Data, NEW l \in Data, InDown(k)', InFlight(l)'
        PROVE  k < l
    <3>1. CASE Within(body, k)
      BY <1>4, <2>3, <3>1
    <3>2. CASE InDown(k)
      BY <1>4, <2>3, <3>2 DEF Passing, OrderInv
    <3> QED BY <1>9, <2>3, <3>1, <3>2
  <2>4. \A i \in DOMAIN down' : Consecutive(down'[i].record.body)
    BY <1>4, <1>5, <1>6, <1>7 DEF Passing, OrderInv
  <2>5. /\ Consecutive(context'.rx)
        /\ context'.rx # <<>> /\ IsData(context'.rx[1]) => context'.rx[1].id = Len(got') + 1
    BY <1>2 DEF Passing, OrderInv
  <2> QED BY <1>4, <2>1, <2>2, <2>3, <2>4, <2>5 DEF OrderInv
<1>12. ClosingOnItsWay' => ClosingOnItsWay
  BY <1>2, <1>4, <1>5, <1>6, <1>8 DEF ClosingOnItsWay
<1>13. GapInv'
  <2>1. \A k \in Data : OnItsWay(k)' => \A l \in Len(got') + 1 .. k : OnItsWay(l)'
    BY <1>2, <1>10 DEF Passing, GapInv
  <2>2. server'.phase = "data" \/ ClosingOnItsWay' => \A l \in Len(got') + 1 .. server'.sent : OnItsWay(l)'
    BY <1>2, <1>10, <1>12 DEF Passing, GapInv
  <2> QED BY <2>1, <2>2 DEF GapInv
<1>14. CloseInv'
  <2>1. Closes(context'.rx) => \A k \in Data : ~InDown(k)' /\ ~InFlight(k)'
    BY <1>2, <1>4, <1>9 DEF Passing, CloseInv
  <2>2. ASSUME NEW i \in DOMAIN down', ClosedAt(i)', NEW k \in Data
        PROVE  ~InFlight(k)' /\ \A j \in DOMAIN down' : j > i => ~Carried(j, k)'
    <3>1. CASE i \in DOMAIN down
      <4>1. ClosedAt(i) /\ ~InFlight(k)
        BY <1>6, <2>2, <3>1 DEF Passing, CloseInv
      <4>2. ASSUME NEW j \in DOMAIN down', j > i, Carried(j, k)'
            PROVE  FALSE
        <5>1. j = last => Within(body, k)
          BY <1>5, <4>2
        <5>2. j \in DOMAIN down => ~Carried(j, k)
          BY <3>1, <4>1, <4>2 DEF Passing, CloseInv
        <5> QED BY <1>4, <1>6, <1>8, <4>1, <4>2, <5>1, <5>2
      <4> QED BY <1>4, <4>1, <4>2
    <3>2. CASE i = last
      <4>1. ~InFlight(k)
        BY <1>4, <1>5, <2>2, <3>2 DEF Passing, CloseInv
      <4>2. ASSUME NEW j \in DOMAIN down', j > i, Carried(j, k)'
            PROVE  FALSE
        BY <1>5, <1>6, <1>8, <3>2, <4>2
      <4> QED BY <1>4, <4>1, <4>2
    <3> QED BY <1>8, <2>2, <3>1, <3>2
  <2>3. Closes(server'.flight) => \A k \in Data : ~InFlight(k)'
    BY <1>4 DEF Passing, CloseInv
  <2> QED BY <2>1, <2>2, <2>3 DEF CloseInv
<1> QED BY <1>11, <1>13, <1>14 DEF Passing

\* While the server has the connection open, no close_notify is on its way.
LEMMA OpenStill ==
    ASSUME TypeInv, DownInv, server.phase = "data"
    PROVE  /\ ~Closes(context.rx) /\ ~Closes(server.flight) /\ \A i \in DOMAIN down : ~ClosedAt(i)
           /\ server.sent = 0 => \A k \in Data : ~InRx(k) /\ ~InDown(k)
<1>1. /\ \A i \in DOMAIN context.rx : context.rx[i] \in Falling
      /\ \A i \in DOMAIN server.flight : server.flight[i] \in Falling
  BY DEF Falling, Range
<1>2. ASSUME NEW i \in DOMAIN down, NEW j \in DOMAIN down[i].record.body
      PROVE  down[i].record.body[j] \in Falling
  <2>1. down[i] \in Range(down) \cup Range(context.rxRecord)
    BY DEF Range
  <2>2. down[i].record.body[j] \in Range(down[i].record.body)
    BY DEF Range
  <2> QED BY <2>1, <2>2 DEF Falling
<1>3. \A m \in Falling : m.name # "close_notify" /\ (IsData(m) => m.id <= server.sent)
  BY DEF DownInv, GoodDown, IsData
<1>4. ~Closes(context.rx) /\ ~Closes(server.flight) /\ \A i \in DOMAIN down : ~ClosedAt(i)
  BY <1>1, <1>2, <1>3 DEF Closes, ClosedAt
<1>5. ASSUME server.sent = 0, NEW k \in Data
      PROVE  ~InRx(k) /\ ~InDown(k)
  <2>1. \A m \in Falling : IsData(m) => m.id # k
    <3>1. k \in Nat /\ k > 0 /\ ~(k <= server.sent)
      BY <1>5, DataOf
    <3> QED BY <1>3, <3>1
  <2>2. ~InRx(k)
    BY <1>1, <2>1 DEF InRx, Within
  <2>3. ~InDown(k)
    BY <1>2, <2>1 DEF InDown, Carried, Within
  <2> QED BY <2>2, <2>3
<1> QED BY <1>4, <1>5

LEMMA PassingDataSent ==
    ASSUME TypeInv, DownInv, GotInv, Passing, SendData
    PROVE  Passing'
<1>1. PICK b \in Nat :
          /\ server.phase = "data" /\ server.flight = <<>> /\ server.sent = 0
          /\ server' \in ProperServers /\ server'.sent = b
          /\ server'.flight = [i \in 1 .. b |-> Message("data", i, <<>>)]
          /\ Served /\ UNCHANGED <<server.phase, down>>
  BY DataSent
<1>2. UNCHANGED <<context, got, down>> /\ server'.flight \in Seq(ProperMessages) /\ Len(got) = 0
  <2>1. Len(got) \in Nat /\ Len(got) <= server.sent
    BY DEF TypeInv, GotInv
  <2> QED BY <1>1, <2>1 DEF Served, ProperServers
<1>3. Run(server'.flight, 0) /\ Len(server'.flight) = b
  BY <1>1 DEF Run, IsData, Message
<1>4. \A k \in Data : InFlight(k)' <=> k <= b
  <2>1. TAKE k \in Data
  <2>2. Within(server'.flight, k) <=> 0 < k /\ k <= 0 + Len(server'.flight)
    BY <1>2, <1>3, WithinRun
  <2> QED BY <1>3, <2>2, DataOf DEF InFlight
<1>5. ~Closes(context.rx) /\ \A i \in DOMAIN down : ~ClosedAt(i)
  BY <1>1, OpenStill
<1>6. \A k \in Data : ~InRx(k) /\ ~InDown(k)
  BY <1>1, OpenStill
<1>7. ~Closes(context'.rx) /\ \A i \in DOMAIN down' : ~ClosedAt(i)' /\ \A k \in Data : ~Carried(i, k)'
  BY <1>2, <1>5, <1>6 DEF ClosedAt, Carried, Completing, InDown
<1>8. \A k \in Data : ~InRx(k)' /\ ~InDown(k)'
  BY <1>2, <1>6 DEF InRx, InDown, Carried, Completing
<1>9. \A k \in Data : OnItsWay(k)' <=> k <= b
  BY <1>4, <1>8 DEF OnItsWay
<1>10. OrderInv'
  <2>1. \A k \in Data : k > Len(got')
    BY <1>2, DataOf
  <2>2. Consecutive(context'.rx) /\ Consecutive(server'.flight)
    <3>1. Consecutive(context'.rx)
      BY <1>2 DEF Passing, OrderInv
    <3> QED BY <1>2, <1>3, <3>1, RunConsecutive
  <2>3. /\ context'.rx # <<>> /\ IsData(context'.rx[1]) => context'.rx[1].id = Len(got') + 1
        /\ \A i \in DOMAIN down' : Consecutive(down'[i].record.body)
    BY <1>2 DEF Passing, OrderInv
  <2> QED BY <1>7, <1>8, <2>1, <2>2, <2>3 DEF OrderInv
<1>11. GapInv'
  <2>1. ASSUME NEW k \in Data, OnItsWay(k)', NEW l \in Len(got') + 1 .. k
        PROVE  OnItsWay(l)'
    <3>1. k <= b /\ l \in 1 .. k /\ l <= b
      BY <1>1, <1>2, <1>9, <2>1, DataOf
    <3>2. l \in Data
      BY <3>1, DataOf
    <3> QED BY <1>9, <3>1, <3>2
  <2>2. ASSUME NEW l \in Len(got') + 1 .. server'.sent
        PROVE  OnItsWay(l)'
    <3>1. l \in 1 .. b /\ 1 .. b \subseteq Data
      BY <1>1, <1>2, <2>2, DataSent
    <3> QED BY <1>9, <3>1
  <2> QED BY <2>1, <2>2 DEF GapInv
<1>12. ~Closes(server'.flight)
  BY <1>3 DEF Run, Closes, IsData
<1>13. CloseInv'
  BY <1>7, <1>12 DEF CloseInv
<1> QED BY <1>10, <1>11, <1>13 DEF Passing

LEMMA PassingCloseNotify ==
    ASSUME TypeInv, DownInv, Passing, CloseNotify
    PROVE  Passing'
<1>1. /\ server.phase = "data" /\ server.flight = <<>>
      /\ server'.flight = <<Message("close_notify", Nothing, <<>>)>>
      /\ UNCHANGED <<context, got, down, server.sent>>
  BY CloseNotifySaid DEF Served
<1>2. Bare(server'.flight) /\ \A k : ~InFlight(k) /\ ~InFlight(k)'
  <2>1. Bare(server'.flight) /\ Bare(server.flight)
    BY <1>1 DEF Bare, IsData, Message
  <2> QED BY <2>1, WithinBare DEF InFlight
<1>3. \A k : /\ (InRx(k)' <=> InRx(k)) /\ (InDown(k)' <=> InDown(k)) /\ (OnItsWay(k)' <=> OnItsWay(k))
             /\ \A i \in DOMAIN down : Carried(i, k)' <=> Carried(i, k)
  BY <1>1, <1>2 DEF InRx, InDown, OnItsWay, Carried, Completing
<1>4. ~Closes(context'.rx) /\ \A i \in DOMAIN down' : ~ClosedAt(i)'
  <2>1. ~Closes(context.rx) /\ \A i \in DOMAIN down : ~ClosedAt(i)
    BY <1>1, OpenStill
  <2> QED BY <1>1, <2>1 DEF ClosedAt, Completing
<1>5. OrderInv'
  <2>1. \A k \in Data : InDown(k)' \/ InFlight(k)' =>
            k > Len(got') /\ \A l \in Data : InRx(l)' => l < k
    BY <1>1, <1>2, <1>3 DEF Passing, OrderInv
  <2>2. \A i, j \in DOMAIN down' : i < j =>
            \A k, l \in Data : Carried(i, k)' /\ Carried(j, l)' => k < l
    BY <1>1, <1>3 DEF Passing, OrderInv
  <2>3. Consecutive(server'.flight)
    BY <1>2 DEF Bare, Consecutive
  <2>4. /\ Consecutive(context'.rx)
        /\ context'.rx # <<>> /\ IsData(context'.rx[1]) => context'.rx[1].id = Len(got') + 1
        /\ \A i \in DOMAIN down' : Consecutive(down'[i].record.body)
    BY <1>1 DEF Passing, OrderInv
  <2> QED BY <1>2, <2>1, <2>2, <2>3, <2>4 DEF OrderInv
<1>6. GapInv'
  BY <1>1, <1>3 DEF Passing, GapInv
<1>7. CloseInv'
  BY <1>2, <1>4 DEF CloseInv
<1> QED BY <1>5, <1>6, <1>7 DEF Passing

\* Nothing is on its way in a connection that begins, or in none.
LEMMA PassingNone ==
    ASSUME got' = <<>>, down' = <<>>, context'.rx = <<>>, server' = ServerInit
    PROVE  Passing'
<1>1. server'.flight = <<>> /\ server'.sent = 0 /\ Len(got') = 0 /\ DOMAIN down' = {} /\ DOMAIN context'.rx = {}
      /\ DOMAIN server'.flight = {}
  BY DEF ServerInit
<1>2. \A k : ~InRx(k)' /\ ~InDown(k)' /\ ~InFlight(k)' /\ ~OnItsWay(k)'
  BY <1>1 DEF InRx, InDown, InFlight, OnItsWay, Within
<1>3. OrderInv'
  BY <1>1, <1>2 DEF OrderInv, Consecutive
<1>4. GapInv'
  BY <1>1, <1>2 DEF GapInv
<1>5. CloseInv'
  BY <1>1, <1>2 DEF CloseInv, Closes
<1> QED BY <1>3, <1>4, <1>5 DEF Passing

\* What is on its way stays in order and whole.
LEMMA StepStream ==
    ASSUME TypeInv, CallInv, ServerInv, DownInv, StreamInv, [Next]_vars
    PROVE  StreamInv'
<1>1. ShapeInv /\ GotInv
  BY DEF StreamInv
<1>2. ASSUME Live'
      PROVE  Passing'
  <2>1. CASE Open \/ Close
    BY <2>1, PassingNone DEF Open, Close, FreshContext, CallInv, world
  <2>2. CASE Refused
    BY <1>2, <2>2 DEF Refused, Live, Over
  <2>3. Live \/ Open \/ Close
    <3>1. CASE StreamStays \/ StreamParses
      BY <1>2, <3>1 DEF StreamStays, StreamParses
    <3>2. CASE ReceiveHeader \/ ReceiveRecord
      BY <3>2 DEF ReceiveHeader, ReceiveRecord, Reading, Listening, Live, Over, ServerStates
    <3>3. CASE ParseData
      BY <3>3 DEF ParseData, Ready, Listening, Live, Over, ServerStates
    <3>4. CASE ServerSpeaks \/ ServerStops \/ ServerEnds \/ SendData \/ CloseNotify \/ Damage \/ ServerSends
      <4>1. context' = context
        BY <3>4, DataSent, CloseNotifySaid, ServerSent
           DEF ServerSpeaks, ServerStops, ServerEnds, Damage, Served
      <4> QED BY <1>2, <4>1 DEF Live
    <3>5. ~Refused
      BY <1>2 DEF Refused, Live, Over
    <3> QED BY <3>1, <3>2, <3>3, <3>4, <3>5, StreamStep
  <2> SUFFICES ASSUME Live
               PROVE  Passing'
    BY <2>1, <2>3
  <2>4. Passing
    BY DEF StreamInv
  <2>5. CASE StreamStays \/ ServerEnds \/ Damage
    <3>1. /\ UNCHANGED <<context.rx, server, got>>
          /\ down' = down \/ (Damageable(down) /\ down' = Damaged(down))
      BY <2>5 DEF StreamStays, ServerEnds, Damage, caller, world
    <3>2. down \in Seq(ProperHalves)
      BY DEF TypeInv
    <3>3. /\ DOMAIN down' = DOMAIN down
          /\ \A i \in DOMAIN down : down'[i].record = down[i].record /\ (down'[i].half = 2 <=> down[i].half = 2)
      <4>1. CASE down' = down
        BY <4>1
      <4>2. CASE Damageable(down) /\ down' = Damaged(down)
        <5>1. /\ Damaged(down) \in Seq(ProperHalves) /\ Len(Damaged(down)) = Len(down)
              /\ down[1].half = 1 /\ Damaged(down)[1].half = 0
              /\ \A i \in DOMAIN down : i > 1 => Damaged(down)[i] = down[i]
              /\ \A i \in DOMAIN down : Damaged(down)[i].record = down[i].record
          BY <3>2, <4>2, DamagedOf
        <5>2. \A i \in DOMAIN down : i = 1 \/ i > 1
          BY <3>2
        <5> QED BY <3>2, <4>2, <5>1, <5>2
      <4> QED BY <3>1, <4>1, <4>2
    <3>4. \A k : (InRx(k)' <=> InRx(k)) /\ (InFlight(k)' <=> InFlight(k))
      BY <3>1 DEF InRx, InFlight
    <3>5. /\ Consecutive(context'.rx) /\ Consecutive(server'.flight)
          /\ context'.rx # <<>> /\ IsData(context'.rx[1]) => context'.rx[1].id = Len(got) + 1
      BY <2>4, <3>1 DEF Passing, OrderInv
    <3> QED BY <2>4, <3>1, <3>3, <3>4, <3>5, PassingKept
  <2>6. CASE StreamParses
    BY <1>1, <2>4, <2>6, PassingParsed
  <2>7. CASE ReceiveHeader \/ ReceiveRecord \/ ParseData
    BY <1>1, <2>4, <2>7, PassingHeader, PassingRecord, PassingData
  <2>8. CASE ServerSpeaks \/ ServerStops
    BY <2>4, <2>8, PassingSpoken, PassingStopped
  <2>9. CASE ServerSends \/ SendData \/ CloseNotify
    BY <1>1, <2>4, <2>9, PassingSent, PassingDataSent, PassingCloseNotify
  <2> QED BY <2>1, <2>2, <2>5, <2>6, <2>7, <2>8, <2>9, StreamStep
<1>3. ShapeInv' /\ GotInv'
  BY <1>1, StepShape, StepGot
<1> QED BY <1>2, <1>3 DEF StreamInv

-----------------------------------------------------------------------------
(* The invariant, and what follows from it *)

LEMMA InitInv ==
    ASSUME Init
    PROVE  Inv
<1>1. /\ context = FreshContext(NoSession) /\ session = NoSession /\ server = ServerInit
      /\ call = "none" /\ todo = 0 /\ written = 0 /\ got = <<>> /\ link = "none"
      /\ up = <<>> /\ down = <<>> /\ cache = {} /\ conn = 0 /\ faults = 0 /\ troubled = FALSE
  BY DEF Init
<1>2. MaxConnections \in Nat /\ MaxFaults \in Nat /\ MaxSent \in Nat /\ MaxWritten \in Nat
  BY TlsAssumption
<1>3. NoSession \in Sessions /\ NoSession.id = 0 /\ NoSession.secret = 0
  BY <1>2 DEF NoSession, Sessions, Numbers, Nothing
<1>4. /\ context.state = "INIT" /\ ~context.resume /\ context.transcript = <<>>
      /\ context.sessionId = 0 /\ context.masterSecret = 0
      /\ context.encryption = NoEngine /\ context.tx = <<>> /\ context.rx = <<>> /\ context.rxRecord = <<>>
      /\ ~context.fatalAlert /\ ~context.closeNotifySent
  BY <1>1, <1>3 DEF FreshContext
<1>5. /\ server.phase = "hello" /\ ~server.resume /\ server.id = 0 /\ server.secret = 0
      /\ server.transcript = <<>> /\ server.flight = <<>> /\ server.sent = 0 /\ server.got = <<>>
      /\ ~server.ended
  BY <1>1 DEF ServerInit, Nothing
<1>6. TypeInv
  <2>1. context \in ProperContexts
    <3>1. NoEngine \in Engines /\ "INIT" \in States /\ 0 \in Numbers
      BY <1>2, EngineOf DEF States, Numbers
    <3> QED BY <1>1, <1>3, <3>1 DEF FreshContext, ProperContexts, Transcripts
  <2>2. server \in ProperServers
    <3>1. NoEngine \in Engines /\ 0 \in Numbers
      BY <1>2, EngineOf DEF Numbers
    <3> QED BY <1>1, <1>2, <3>1 DEF ServerInit, ProperServers, Transcripts, Nothing
  <2>3. up \in Seq(ProperHalves) /\ down \in Seq(ProperHalves) /\ got \in Seq(Data)
    BY <1>1
  <2>4. session \in Sessions /\ cache \subseteq Numbers \X Numbers
    BY <1>1, <1>3
  <2>5. /\ todo \in 0 .. 2 /\ written \in 0 .. MaxWritten \cup {1}
        /\ conn \in 0 .. MaxConnections /\ faults \in 0 .. MaxFaults
    BY <1>1, <1>2
  <2>6. call \in Calls /\ link \in Links /\ troubled \in BOOLEAN
    BY <1>1 DEF Calls, Links
  <2> QED BY <2>1, <2>2, <2>3, <2>4, <2>5, <2>6 DEF TypeInv, Numbers
<1>7. CallInv
  BY <1>1, <1>4 DEF CallInv, Over
<1>8. EngineInv
  BY <1>4, <1>1 DEF EngineInv, BeforeHello, Over, Awaiting
<1>9. ContextInv
  BY <1>1, <1>4 DEF ContextInv, OnlyFull, Sending, Awaiting
<1>10. ServerInv
  <2>1. server.got = Upto(0) /\ Len(server.got) = 0
    BY <1>5 DEF Upto
  <2> QED BY <1>1, <1>5, <2>1 DEF ServerInv, Nothing
<1>11. CacheInv
  BY <1>1, <1>3 DEF CacheInv
<1>12. UpInv
  BY <1>1, <1>4 DEF UpInv, Rising, Range
<1>13. DownInv
  BY <1>1, <1>4, <1>5 DEF DownInv, Falling, Range
<1>14. AgreedInv
  BY <1>1 DEF AgreedInv
<1>15. StreamInv
  <2>1. ShapeInv
    <3>1. Len(context.rxRecord) = 0 /\ Range(down) = {} /\ Range(context.rxRecord) = {} /\ DOMAIN down = {}
      BY <1>1, <1>4 DEF Range
    <3> QED BY <1>1, <1>4, <3>1 DEF ShapeInv, Uniform
  <2>2. GotInv
    <3>1. got = Upto(0) /\ Len(got) = 0
      BY <1>1 DEF Upto
    <3> QED BY <1>1, <1>4, <1>5, <3>1 DEF GotInv, Broken, Ending
  <2>3. Passing
    <3>1. Len(got) = 0 /\ DOMAIN down = {} /\ DOMAIN context.rx = {} /\ DOMAIN server.flight = {}
      BY <1>1, <1>4, <1>5
    <3>2. \A k : ~InRx(k) /\ ~InDown(k) /\ ~InFlight(k) /\ ~OnItsWay(k)
      BY <3>1 DEF InRx, InDown, InFlight, OnItsWay, Within
    <3>3. OrderInv
      BY <1>4, <3>1, <3>2 DEF OrderInv, Consecutive
    <3>4. GapInv
      BY <1>5, <3>1, <3>2 DEF GapInv
    <3>5. CloseInv
      BY <3>1, <3>2 DEF CloseInv, Closes
    <3> QED BY <3>3, <3>4, <3>5 DEF Passing
  <2> QED BY <2>1, <2>2, <2>3 DEF StreamInv
<1> QED BY <1>6, <1>7, <1>8, <1>9, <1>10, <1>11, <1>12, <1>13, <1>14, <1>15 DEF Inv

LEMMA StepInv ==
    ASSUME Inv, [Next]_vars
    PROVE  Inv'
<1>1. /\ TypeInv /\ CallInv /\ EngineInv /\ ContextInv /\ ServerInv /\ CacheInv
      /\ UpInv /\ DownInv /\ AgreedInv /\ StreamInv /\ ShapeInv
  BY DEF Inv, StreamInv
<1>2. TypeInv' /\ CallInv' /\ EngineInv' /\ ContextInv' /\ CacheInv'
  BY <1>1, TypeStep, StepCall, StepEngine, StepContext, StepCache
<1>3. ServerInv' /\ UpInv' /\ DownInv' /\ AgreedInv' /\ StreamInv'
  BY <1>1, StepServer, StepUp, StepDown, StepAgreed, StepStream
<1> QED BY <1>2, <1>3 DEF Inv

\* Whatever the two ends and the network do, and for any number of connections,
\* faults and units of data, the state of the client, of the server and of what is on its
\* way between them satisfy Inv.
THEOREM Invariance == Spec => []Inv
<1>1. Init => Inv
  BY InitInv
<1>2. Inv /\ [Next]_vars => Inv'
  BY StepInv
<1> QED BY <1>1, <1>2, PTL DEF Spec

LEMMA TypesFollow ==
    ASSUME TypeInv
    PROVE  TlsTypeOK
<1>1. ProperMessages \subseteq Messages
  BY DEF ProperMessages
<1>2. \A s \in Seq(ProperMessages) : s \in Seq(Messages)
  BY <1>1, SeqMonotonic
<1>3. ProperHalves \subseteq [record : Records, half : 0 .. 2]
  <2>1. [body : Bodies, key : Engines] \subseteq Records
    BY <1>2 DEF Records, Bodies
  <2> QED BY <2>1 DEF ProperHalves
<1>4. \A s \in Seq(ProperHalves) : s \in RecordHalves
  BY <1>3, SeqMonotonic DEF RecordHalves
<1>5. context \in Contexts
  BY <1>2, <1>4 DEF TypeInv, ProperContexts, Contexts
<1>6. server \in Servers
  <2>1. \A s \in Transcripts : s \in Seq(Names \X Nat)
    <3>1. Names \X Numbers \subseteq Names \X Nat
      BY DEF Numbers
    <3> QED BY <3>1, SeqMonotonic DEF Transcripts
  <2>2. server \in ProperServers
    BY DEF TypeInv
  <2> QED BY <1>2, <2>1, <2>2 DEF ProperServers, Servers
<1>7. up \in RecordHalves /\ down \in RecordHalves
  BY <1>4 DEF TypeInv
<1> QED BY <1>5, <1>6, <1>7 DEF TypeInv, TlsTypeOK, Calls, Links

\* The context, the session, the records and the server have the types of TlsTypeOK:
\* no handler leaves a state, a call or a record the code knows nothing of.
THEOREM Typed == Spec => []TlsTypeOK
<1>1. Inv => TlsTypeOK
  BY TypesFollow DEF Inv
<1> QED BY <1>1, Invariance, PTL

\* tlsRead and tlsWrite neither lose, repeat nor reorder data, wherever a timeout stops them
\* and whatever the network does; and a stream that is cut short is not taken for a whole
\* one by either end.
THEOREM StreamKept == Spec => []DataKept
<1>1. ASSUME Inv
      PROVE  DataKept
  <2>1. TypeInv /\ ServerInv /\ GotInv
    BY <1>1 DEF Inv, StreamInv
  <2>2. Len(server.got) \in Nat /\ Len(got) \in Nat /\ written \in Nat /\ server.sent \in Nat
    <3>1. server.got \in Seq(Data) /\ got \in Seq(Data) /\ written \in 0 .. MaxWritten \cup {1}
      BY <2>1 DEF TypeInv, ProperServers
    <3> QED BY <2>1, <3>1, DataOf
  <2>3. Len(server.got) \in 0 .. written + 1 /\ server.got = Upto(Len(server.got))
    BY <2>1, <2>2 DEF ServerInv
  <2>4. Len(got) \in 0 .. server.sent /\ got = Upto(Len(got))
    BY <2>1, <2>2 DEF GotInv
  <2>5. server.ended => server.got = Upto(written)
    BY <2>1, <2>3 DEF ServerInv
  <2>6. call = "ended" => got = Upto(server.sent)
    BY <2>1, <2>4 DEF GotInv, Ending
  <2> QED BY <2>3, <2>4, <2>5, <2>6 DEF DataKept
<1> QED BY <1>1, Invariance, PTL

\* When tlsConnect has succeeded, the server has the same master secret, the same idea of
\* whether the session is resumed and the same transcript of the handshake; and the
\* session that tlsSaveSessionState keeps has the secret the server keeps for it.
THEOREM EndsAgree == Spec => []SecretsAgree
<1>1. ASSUME Inv
      PROVE  SecretsAgree
  <2>1. TypeInv /\ ServerInv /\ CacheInv /\ AgreedInv
    BY <1>1 DEF Inv
  <2>2. ASSUME link # "none", context.state \in {"APPLICATION_DATA", "CLOSING"}, ~context.fatalAlert
        PROVE  /\ SameSession /\ context.sessionId = server.id
               /\ server.transcript = SubSeq(context.transcript, 1, Len(server.transcript))
    <3>1. /\ SameSession /\ context.sessionId = server.id
          /\ \/ context.transcript = Append(server.transcript, OwnFinished)
             \/ context.transcript = server.transcript
      BY <2>1, <2>2 DEF AgreedInv, Agreed
    <3>2. /\ server.transcript \in Seq(Names \X Numbers) /\ OwnFinished \in Names \X Numbers
      BY <2>1 DEF TypeInv, ProperServers, Transcripts, OwnFinished, Names
    <3>3. SubSeq(server.transcript, 1, Len(server.transcript)) = server.transcript
      BY <3>2, SubSeqFull
    <3>4. SubSeq(Append(server.transcript, OwnFinished), 1, Len(server.transcript)) = server.transcript
      <4> DEFINE t == server.transcript
                 u == Append(t, OwnFinished)
      <4>1. /\ u \in Seq(Names \X Numbers) /\ Len(u) = Len(t) + 1 /\ Len(t) \in Nat
            /\ \A i \in 1 .. Len(t) : u[i] = t[i]
        BY <3>2
      <4> HIDE DEF u
      <4>2. Len(t) \in 0 .. Len(u)
        BY <4>1
      <4>3. /\ SubSeq(u, 1, Len(t)) \in Seq(Names \X Numbers) /\ Len(SubSeq(u, 1, Len(t))) = Len(t)
            /\ \A i \in 1 .. Len(t) : SubSeq(u, 1, Len(t))[i] = u[i]
        BY <4>1, <4>2, FrontOf
      <4>4. SubSeq(u, 1, Len(t)) = t
        BY <3>2, <4>1, <4>3, SeqEqual
      <4> QED BY <4>4 DEF u
    <3> QED BY <3>1, <3>3, <3>4
  <2>3. server.phase = "data" => SameSession
    BY <2>1 DEF ServerInv
  <2>4. \A entry \in cache : entry[1] = session.id => entry[2] = session.secret
    BY <2>1 DEF CacheInv
  <2> QED BY <2>2, <2>3, <2>4 DEF SecretsAgree
<1> QED BY <1>1, Invariance, PTL

=============================================================================
