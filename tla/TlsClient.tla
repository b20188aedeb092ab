----------------------------- MODULE TlsClient -----------------------------
(***************************************************************************)
(* The TLS 1.2 client of CycloneSSL (cyclone_ssl/) as the transport of the *)
(* MQTT client calls it (mqtt_client_transport.c), over a TCP connection   *)
(* that may stall or break, with a server that may resume sessions.        *)
(*                                                                         *)
(* A step of the client is what it does up to the next return of one of    *)
(* the socket callbacks, or the handling of one message.  A record crosses *)
(* the connection in two halves, so that both callbacks can stop inside of *)
(* one.  Keys, identifiers and hashes are what they were computed from: a  *)
(* session is known by the number of the connection that established it,   *)
(* a hash is the sequence of messages hashed.                              *)
(***************************************************************************)
EXTENDS Naturals, Sequences

CONSTANTS
    MaxConnections, \* bound on the connections
    MaxWritten,     \* bound on the units of data the client sends
    MaxSent,        \* and on those the server sends, in the first connection
    MaxFaults       \* bound on the faults of network, element and server

ASSUME TlsAssumption == {MaxConnections, MaxWritten, MaxSent, MaxFaults} \subseteq Nat

VARIABLES
    context,   \* the TlsContext
    session,   \* the TlsSessionState the MQTT client keeps
    call,      \* the call the caller is in, or how its last one ended
    todo,      \* what tlsWrite has yet to write
    written,   \* what tlsWrite said it has written in this connection
    got,       \* what tlsRead has returned in this connection
    link,      \* the TCP connection: none, open, ended by the server, or reset
    up, down,  \* halves of records on their way to and from the server
    server,    \* the server's end of the connection
    cache,     \* the sessions the server would resume, as <<identifier, secret>>
    conn,      \* connections opened
    faults,    \* faults so far
    troubled   \* this connection met a fault

caller == <<call, todo, written, got>>
net == <<link, up, down>>
world == <<server, cache>>
count == <<conn, faults, troubled>>
vars == <<context, session, call, todo, written, got, link, up, down, server, cache, conn, faults, troubled>>

\* In the later connections one unit is enough.
Bound(max) == IF conn = 1 THEN max ELSE 1

Nothing == 0        \* an empty identifier, no secret

ServerStates == {"SERVER_HELLO", "SERVER_CERTIFICATE", "SERVER_KEY_EXCHANGE", "CERTIFICATE_REQUEST",
                 "SERVER_HELLO_DONE", "SERVER_CHANGE_CIPHER_SPEC", "SERVER_FINISHED"}
ClientStates == {"CLIENT_HELLO", "CLIENT_CERTIFICATE", "CLIENT_KEY_EXCHANGE",
                 "CLIENT_CERTIFICATE_VERIFY", "CLIENT_CHANGE_CIPHER_SPEC", "CLIENT_FINISHED"}
States == ServerStates \cup ClientStates \cup {"INIT", "APPLICATION_DATA", "CLOSING", "CLOSED"}

-----------------------------------------------------------------------------
(* Messages and records *)

\* A message, or a part of one that is cut in two: what it is, the identifier,
\* secret, certificate or data it carries, and the messages its hash covers.
Message(name, id, hash) == [name |-> name, id |-> id, hash |-> hash, part |-> "all"]

Hashed(m) == <<m.name, m.id>>

NoEngine == [secret |-> Nothing, seqNum |-> 0]

\* tlsInitEncryptionEngine
Engine(secret) == [secret |-> secret, seqNum |-> 0]

\* tlsEncryptRecord, tlsDecryptRecord: each record moves a working engine on.
Advance(engine) == IF engine.secret = Nothing THEN engine ELSE [engine EXCEPT !.seqNum = @ + 1]

Kind(m) ==
    CASE m.name = "ChangeCipherSpec"         -> "change_cipher_spec"
      [] m.name \in {"close_notify", "fatal"} -> "alert"
      [] m.name = "data"                     -> "application_data"
      [] OTHER                               -> "handshake"

\* Its content type is that of the messages in it.
Record(body, engine) == [body |-> body, key |-> engine]
Type(record) == Kind(Head(record.body))

Halves(record) == <<[record |-> record, half |-> 1], [record |-> record, half |-> 2]>>

\* What the bytes of a record turn out to be: two halves that do not belong
\* together, or that the engine does not fit, are not a record.
Opens(halves, engine) ==
    /\ halves = Halves(Head(halves).record)
    /\ Head(halves).record.key = engine

-----------------------------------------------------------------------------
(* The record layer *)

\* tlsInit, tlsRestoreSessionState
FreshContext(s) ==
    [state |-> "INIT", resume |-> FALSE, clientCertRequested |-> FALSE, cert |-> FALSE,
     sessionId |-> s.id, masterSecret |-> s.secret, transcript |-> <<>>,
     encryption |-> NoEngine, decryption |-> NoEngine,
     tx |-> <<>>, rx |-> <<>>, rxRecord |-> <<>>,
     closeNotifySent |-> FALSE, fatalAlert |-> FALSE]

\* tlsWriteProtocolData with an empty buffer: the record is formed and protected.
Queue(c, m) ==
    [c EXCEPT !.tx = Halves(Record(<<m>>, c.encryption)), !.encryption = Advance(@)]

\* tlsUpdateTranscriptHash does nothing until the hash is chosen.
Transcribe(c, m) ==
    IF c.transcript = <<>> THEN c ELSE [c EXCEPT !.transcript = Append(@, Hashed(m))]

\* tlsSendHandshakeMessage
QueueHandshake(c, m) == Queue(Transcribe(c, m), m)

Drop(s, n) == SubSeq(s, n + 1, Len(s))

\* tlsWriteRecord: n halves of the record are taken by the socket.
Push(c, n) ==
    /\ context' = [c EXCEPT !.tx = Drop(@, n)]
    /\ up' = up \o SubSeq(c.tx, 1, n)

Fault ==
    /\ faults < MaxFaults
    /\ faults' = faults + 1
    /\ troubled' = TRUE
    /\ UNCHANGED conn

Writable == link \in {"open", "ended"}

\* The whole record is sent, or there is none.
SendDone(c) ==
    /\ c.tx # <<>> => Writable
    /\ Push(c, Len(c.tx))

\* ERROR_TIMEOUT: part of the record is sent, and the rest stays in txBuffer.
SendTimeout(c) ==
    \E n \in 0 .. Len(c.tx) - 1 : /\ n # 0 => Writable
                                  /\ Push(c, n)

\* ERROR_WRITE_FAILED, of which tlsProcessError makes the state CLOSED.
SendFails(c) ==
    /\ c.tx # <<>> /\ link # "open"
    /\ context' = [c EXCEPT !.state = "CLOSED"]
    /\ call' = "failed"

\* tlsSendAlert by tlsProcessError: whatever becomes of the alert, the session
\* of the context is forgotten and the connection is closing.
Alerted(c) ==
    [Queue(c, Message("fatal", Nothing, <<>>)) EXCEPT
        !.fatalAlert = TRUE, !.sessionId = Nothing, !.state = "CLOSING"]

SendFatalAlert(c) == SendDone(Alerted(c)) \/ SendTimeout(Alerted(c))

Refuse(c) ==
    /\ SendFatalAlert(c)
    /\ call' = "failed"

-----------------------------------------------------------------------------
(* What the server sends *)

\* The first part of a message, without the rest, waits for another record.
Whole(rx) ==
    /\ rx # <<>>
    /\ Head(rx).part # "all" => Len(rx) > 1

\* tlsConnect waits for the server, or tlsRead for data.
Listening ==
    \/ call = "connect" /\ context.state \in ServerStates
    \/ call = "read" /\ context.state = "APPLICATION_DATA"

Reading == Listening /\ ~Whole(context.rx)

Received == Append(context.rxRecord, Head(down))

Acceptable(record) ==
    /\ Opens(Received, context.decryption)
    /\ context.rx # <<>> => Type(record) = Kind(Head(context.rx))

\* tlsReadRecord, the header.
ReceiveHeader ==
    /\ Reading /\ down # <<>> /\ context.rxRecord = <<>>
    /\ context' = [context EXCEPT !.rxRecord = Received]
    /\ down' = Tail(down)
    /\ UNCHANGED <<session, caller, link, up, world, count>>

\* tlsReadRecord, tlsProcessRecord and tlsReadProtocolData: the record joins what
\* is left of a message that an earlier one began.
ReceiveRecord ==
    LET record == Head(Received).record
    IN /\ Reading /\ down # <<>> /\ context.rxRecord # <<>>
       /\ Acceptable(record)
       /\ context' = [context EXCEPT !.rx = @ \o record.body, !.rxRecord = <<>>,
                                     !.decryption = Advance(@)]
       /\ down' = Tail(down)
       /\ UNCHANGED <<session, caller, link, up, world, count>>

\* Bad MAC, unknown type, or a record of another type within a message.
ReceiveBadRecord ==
    /\ Reading /\ down # <<>> /\ context.rxRecord # <<>>
    /\ ~Acceptable(Head(Received).record)
    /\ Refuse([context EXCEPT !.rxRecord = Received])
    /\ down' = Tail(down)
    /\ UNCHANGED <<session, todo, written, got, link, world, count>>

\* ERROR_TIMEOUT: what was received of a record or a message stays in rxBuffer.
\* The MQTT client hides it from its caller, and reads or writes again.
ReadTimeout ==
    /\ Reading /\ call = "read"
    /\ call' = "none"
    /\ UNCHANGED <<context, session, todo, written, got, net, world, count>>

\* While connecting it ends the attempt.
ConnectTimeout ==
    /\ Reading /\ call = "connect"
    /\ call' = "failed"
    /\ Fault
    /\ UNCHANGED <<context, session, todo, written, got, net, world>>

\* ERROR_READ_FAILED
ReceiveFails ==
    /\ Reading /\ down = <<>> /\ link # "open"
    /\ context' = [context EXCEPT !.state = "CLOSED"]
    /\ call' = "failed"
    /\ UNCHANGED <<session, todo, written, got, net, world, count>>

-----------------------------------------------------------------------------
(* What the client makes of it *)

Ready == Listening /\ Whole(context.rx)

Incoming == [Head(context.rx) EXCEPT !.part = "all"]

\* context once the message is taken from rxBuffer
Taken == [context EXCEPT !.rx = Drop(@, IF Head(@).part = "all" THEN 1 ELSE 2)]

\* tlsParseHandshakeMessage: the message is hashed after it is parsed.
Parse(name, c) ==
    /\ Ready /\ Incoming.name = name
    /\ context' = Transcribe(c, Incoming)
    /\ UNCHANGED <<session, caller, net, world, count>>

\* tlsParseHelloRequest in the middle of a handshake does nothing.
ParseHelloRequest ==
    /\ context.state # "APPLICATION_DATA"
    /\ Parse("HelloRequest", Taken)

\* After the handshake it is answered with a fatal no_renegotiation alert, and
\* only then does tlsRead find out that the connection is closing.
RefuseRenegotiation ==
    /\ Ready /\ Incoming.name = "HelloRequest"
    /\ context.state = "APPLICATION_DATA"
    /\ \/ SendDone(Alerted(Taken)) /\ UNCHANGED call
       \/ SendTimeout(Alerted(Taken)) /\ call' = "none"
    /\ UNCHANGED <<session, todo, written, got, link, down, world, count>>

\* Mutant: what was offered is taken for what the server chose.
OffersSession(c, m) == c.sessionId # Nothing

\* tlsResumeClientSession
ResumesSession(c, m) == m.id # Nothing /\ m.id = c.sessionId

\* tlsParseServerHello: the transcript starts again with
\* the ClientHello, formatted once more, before the identifier is replaced.
ParseServerHello ==
    LET resume == ResumesSession(context, Incoming)
    IN /\ context.state = "SERVER_HELLO"
       /\ Parse("ServerHello", [Taken EXCEPT
              !.resume = resume, !.sessionId = Incoming.id,
              !.transcript = << <<"ClientHello", context.sessionId>> >>,
              !.state = IF resume THEN "SERVER_CHANGE_CIPHER_SPEC" ELSE "SERVER_CERTIFICATE"])

ParseCertificate ==
    /\ context.state = "SERVER_CERTIFICATE"
    /\ Parse("Certificate", [Taken EXCEPT !.state = "SERVER_KEY_EXCHANGE"])

ParseServerKeyExchange ==
    /\ context.state = "SERVER_KEY_EXCHANGE"
    /\ Parse("ServerKeyExchange", [Taken EXCEPT !.state = "CERTIFICATE_REQUEST"])

\* The certificate of the client may not be acceptable to the server.
ParseCertificateRequest ==
    /\ context.state = "CERTIFICATE_REQUEST"
    /\ \E acceptable \in BOOLEAN :
           Parse("CertificateRequest", [Taken EXCEPT
               !.clientCertRequested = TRUE, !.cert = acceptable, !.state = "SERVER_HELLO_DONE"])

ParseServerHelloDone ==
    /\ context.state \in {"CERTIFICATE_REQUEST", "SERVER_HELLO_DONE"}
    /\ Parse("ServerHelloDone", [Taken EXCEPT !.state = "CLIENT_CERTIFICATE"])

\* Mutant: the hash of the messages is left out.
VerifiesSecret(c, m) == m.id = c.masterSecret

\* tlsComputeVerifyData of this end and the verify data of the other
Verifies(c, m) == m.id = c.masterSecret /\ m.hash = c.transcript

ParseFinished ==
    /\ Ready /\ context.state = "SERVER_FINISHED" /\ Verifies(context, Incoming)
    /\ Parse("Finished", [Taken EXCEPT
           !.state = IF context.resume THEN "CLIENT_CHANGE_CIPHER_SPEC" ELSE "APPLICATION_DATA"])

ParseChangeCipherSpec ==
    /\ Ready /\ Incoming.name = "ChangeCipherSpec"
    /\ context.state = "SERVER_CHANGE_CIPHER_SPEC"
    /\ context' = [Taken EXCEPT !.decryption = Engine(context.masterSecret),
                                !.state = "SERVER_FINISHED"]
    /\ UNCHANGED <<session, caller, net, world, count>>

\* tlsParseAlert: a close_notify in the middle of a handshake changes nothing here.
ParseAlert ==
    /\ Ready /\ Kind(Incoming) = "alert"
    /\ \/ /\ Incoming.name = "fatal"
          /\ context' = [Taken EXCEPT !.fatalAlert = TRUE, !.sessionId = Nothing, !.state = "CLOSED"]
       \/ /\ Incoming.name = "close_notify"
          /\ context' = [Taken EXCEPT !.state = IF @ = "APPLICATION_DATA" THEN "CLOSING" ELSE @]
    /\ UNCHANGED <<session, caller, net, world, count>>

\* tlsRead copies what the caller has room for.
ParseData ==
    /\ Ready /\ Incoming.name = "data" /\ call = "read"
    /\ \E n \in 1 .. Len(context.rx) :
           /\ got' = got \o [i \in 1 .. n |-> context.rx[i].id]
           /\ context' = [context EXCEPT !.rx = Drop(@, n)]
    /\ call' = "none"
    /\ UNCHANGED <<session, todo, written, net, world, count>>

Expected(c, m) ==
    \/ m.name = "HelloRequest" \/ Kind(m) = "alert"
    \/ <<m.name, c.state>> \in {<<"ServerHello", "SERVER_HELLO">>, <<"Certificate", "SERVER_CERTIFICATE">>,
           <<"ServerKeyExchange", "SERVER_KEY_EXCHANGE">>, <<"CertificateRequest", "CERTIFICATE_REQUEST">>,
           <<"ServerHelloDone", "CERTIFICATE_REQUEST">>, <<"ServerHelloDone", "SERVER_HELLO_DONE">>,
           <<"ChangeCipherSpec", "SERVER_CHANGE_CIPHER_SPEC">>, <<"data", "APPLICATION_DATA">>}
    \/ m.name = "Finished" /\ c.state = "SERVER_FINISHED" /\ Verifies(c, m)

ParseRefused ==
    /\ Ready /\ ~Expected(context, Incoming)
    /\ Refuse(Taken)
    /\ UNCHANGED <<session, todo, written, got, link, down, world, count>>

-----------------------------------------------------------------------------
(* What the client sends *)

\* A message is sent, or is passed over, or the connection is found broken.
Attempt(c) ==
    \/ SendDone(c) /\ UNCHANGED <<call, count>>
    \/ SendFails(c) /\ UNCHANGED <<up, count>>

\* A timeout ends the attempt, since the MQTT client then closes the connection.
GivesUp(c) == SendTimeout(c) /\ call' = "failed" /\ Fault

\* The result of the write is replaced by that of a later step, timeout or not.
Hides(c) == SendTimeout(c) /\ UNCHANGED <<call, count>>

\* tlsPerformClientHandshake first sends what is left of a message,
FlushPending ==
    /\ call = "connect" /\ context.tx # <<>>
    /\ Attempt(context) \/ GivesUp(context)
    /\ UNCHANGED <<session, todo, written, got, link, down, world>>

\* and then goes on to the next.
InTurnToSend(state) ==
    /\ call = "connect" /\ context.state = state /\ context.tx = <<>>
    /\ UNCHANGED <<session, todo, written, got, link, down, world>>

Proceed(state, c) == InTurnToSend(state) /\ (Attempt(c) \/ GivesUp(c))
ProceedAnyway(state, c) == InTurnToSend(state) /\ (Attempt(c) \/ Hides(c))

InitHandshake ==
    /\ call = "connect" /\ context.state = "INIT"
    /\ context' = [context EXCEPT !.state = "CLIENT_HELLO"]
    /\ UNCHANGED <<session, caller, net, world, count>>

SendClientHello ==
    Proceed("CLIENT_HELLO",
        QueueHandshake([context EXCEPT !.state = "SERVER_HELLO"],
                       Message("ClientHello", context.sessionId, <<>>)))

SendCertificate ==
    LET c == [context EXCEPT !.state = "CLIENT_KEY_EXCHANGE"]
    IN Proceed("CLIENT_CERTIFICATE",
           IF c.clientCertRequested
               THEN QueueHandshake(c, Message("Certificate", IF c.cert THEN 1 ELSE 0, <<>>))
               ELSE c)

\* The secret of this connection, which only it and its server come to know.
SendClientKeyExchange ==
    ProceedAnyway("CLIENT_KEY_EXCHANGE",
        QueueHandshake([context EXCEPT !.masterSecret = conn, !.state = "CLIENT_CERTIFICATE_VERIFY"],
                       Message("ClientKeyExchange", conn, <<>>)))

SendCertificateVerify ==
    LET c == [context EXCEPT !.state = "CLIENT_CHANGE_CIPHER_SPEC"]
    IN Proceed("CLIENT_CERTIFICATE_VERIFY",
           IF c.cert THEN QueueHandshake(c, Message("CertificateVerify", Nothing, c.transcript))
                     ELSE c)

\* The engine changes once the record is formed, sent or not.
SendChangeCipherSpec ==
    ProceedAnyway("CLIENT_CHANGE_CIPHER_SPEC",
        [Queue(context, Message("ChangeCipherSpec", Nothing, <<>>)) EXCEPT
            !.encryption = Engine(context.masterSecret), !.state = "CLIENT_FINISHED"])

SendFinished ==
    Proceed("CLIENT_FINISHED",
        QueueHandshake([context EXCEPT !.state = IF context.resume THEN "APPLICATION_DATA"
                                                 ELSE "SERVER_CHANGE_CIPHER_SPEC"],
                       Message("Finished", context.masterSecret, context.transcript)))

\* The secure element fails in a callback: in a verification, a key agreement or
\* a signature.
ElementFails ==
    /\ call = "connect" /\ context.tx = <<>>
    /\ \/ Ready /\ <<Incoming.name, context.state>> \in
                      {<<"Certificate", "SERVER_CERTIFICATE">>, <<"ServerKeyExchange", "SERVER_KEY_EXCHANGE">>}
       \/ context.state = "CLIENT_KEY_EXCHANGE"
       \/ context.state = "CLIENT_CERTIFICATE_VERIFY" /\ context.cert
    /\ Refuse(context) /\ Fault
    /\ UNCHANGED <<session, todo, written, got, link, down, world>>

-----------------------------------------------------------------------------
(* The caller: mqtt_client_transport.c *)

NoSession == [id |-> Nothing, secret |-> Nothing]

ServerInit ==
    [phase |-> "hello", resume |-> FALSE, id |-> Nothing, secret |-> Nothing, expects |-> <<>>,
     transcript |-> <<>>, flight |-> <<>>, encryption |-> NoEngine, decryption |-> NoEngine,
     sent |-> 0, got |-> <<>>, ended |-> FALSE]

\* mqttClientOpenConnection and mqttClientEstablishConnection, up to tlsConnect
Open ==
    /\ link = "none" /\ conn < MaxConnections
    /\ context' = FreshContext(session)
    /\ call' = "connect" /\ link' = "open"
    /\ conn' = conn + 1
    /\ UNCHANGED <<session, todo, written, got, up, down, world, faults, troubled>>

\* tlsConnect has succeeded: tlsSaveSessionState.
Established ==
    /\ call = "connect" /\ context.state = "APPLICATION_DATA"
    /\ session' = IF context.sessionId = Nothing THEN NoSession
                  ELSE [id |-> context.sessionId, secret |-> context.masterSecret]
    /\ call' = "none"
    /\ UNCHANGED <<context, todo, written, got, net, world, count>>

\* tlsPerformClientHandshake finds that the server has closed the connection.
HandshakeFailed ==
    /\ call = "connect" /\ context.state = "CLOSED"
    /\ call' = "failed"
    /\ UNCHANGED <<context, session, todo, written, got, net, world, count>>

StartWrite(n) ==
    /\ call = "none" /\ link # "none" /\ written + n <= Bound(MaxWritten)
    /\ call' = "write" /\ todo' = n
    /\ UNCHANGED <<context, session, written, got, net, world, count>>

\* Mutants: one byte more than asked for, and a pending record that is not counted.
CountOneMore ==
    /\ written' = written + 1 /\ todo' = todo - 1
    /\ call' = IF todo = 0 THEN "none" ELSE "write"
CountNewOnly ==
    IF context.tx # <<>> THEN UNCHANGED <<written, todo, call>>
    ELSE /\ written' = written + 1 /\ todo' = todo - 1
         /\ call' = IF todo = 1 THEN "none" ELSE "write"

CountWritten ==
    /\ written' = written + 1 /\ todo' = todo - 1
    /\ call' = IF todo = 1 THEN "none" ELSE "write"

\* tlsWrite, which finishes a record that is pending instead of the one it would
\* form: after a timeout the MQTT client calls again with the same data.
WriteData ==
    LET c == IF context.tx # <<>> THEN context
             ELSE Queue(context, Message("data", written + 1, <<>>))
    IN /\ call = "write" /\ context.state = "APPLICATION_DATA"
       /\ \/ SendDone(c) /\ CountWritten
          \/ SendTimeout(c) /\ UNCHANGED <<call, todo, written>>
          \/ SendFails(c) /\ UNCHANGED <<up, todo, written>>
       /\ UNCHANGED <<session, got, link, down, world, count>>

StartRead ==
    /\ call = "none" /\ link # "none"
    /\ call' = "read"
    /\ UNCHANGED <<context, session, todo, written, got, net, world, count>>

\* tlsRead and tlsWrite after the connection has been closed.
CallEnds ==
    /\ call \in {"read", "write"} /\ context.state \in {"CLOSING", "CLOSED"}
    /\ call' = IF call = "read" /\ ~context.fatalAlert THEN "ended" ELSE "failed"
    /\ UNCHANGED <<context, session, todo, written, got, net, world, count>>

\* tlsShutdown; there is nothing left to flush once the DISCONNECT packet is sent.
StartShutdown ==
    /\ call = "none" /\ link # "none" /\ context.state = "APPLICATION_DATA"
    /\ call' = "shutdown"
    /\ context' = [context EXCEPT !.state = "CLOSING"]
    /\ UNCHANGED <<session, todo, written, got, net, world, count>>

SendCloseNotify ==
    LET c == IF context.closeNotifySent THEN context
             ELSE [Queue(context, Message("close_notify", Nothing, <<>>)) EXCEPT !.closeNotifySent = TRUE]
    IN /\ call = "shutdown"
       /\ \/ SendDone(c) /\ call' = "done"
          \/ SendTimeout(c) /\ UNCHANGED call
          \/ SendFails(c) /\ UNCHANGED up
       /\ UNCHANGED <<session, todo, written, got, link, down, world, count>>

\* mqttClientCloseConnection, tlsFree: after an error or a shutdown, or because the caller
\* gives up a call that has timed out.
Close ==
    /\ link # "none" /\ call \notin {"connect", "read"}
    /\ context' = FreshContext(NoSession)
    /\ call' = "none" /\ todo' = 0 /\ written' = 0 /\ got' = <<>>
    /\ link' = "none" /\ up' = <<>> /\ down' = <<>>
    /\ server' = ServerInit /\ troubled' = FALSE
    /\ UNCHANGED <<session, cache, conn, faults>>

-----------------------------------------------------------------------------
(* The server and the network *)

Sends(s, ms) == [s EXCEPT !.flight = @ \o ms]

\* The messages of its own that a server hashes.
Said(s, ms) ==
    [Sends(s, ms) EXCEPT !.transcript = @ \o [i \in 1 .. Len(ms) |-> Hashed(ms[i])]]

Heard(s, m) == [s EXCEPT !.transcript = Append(@, Hashed(m))]

\* ChangeCipherSpec and Finished
FinishedFlight(s) ==
    Said(Sends(s, <<Message("ChangeCipherSpec", Nothing, <<>>)>>),
         <<Message("Finished", s.secret, s.transcript)>>)

\* A record has arrived, with the message m in it.
Arriving == Head(Head(up).record.body)
Decrypted == [server EXCEPT !.decryption = Advance(@)]

Valid == Opens(SubSeq(up, 1, 2), server.decryption)

Arrives(phase, names) ==
    /\ Len(up) > 1 /\ Valid
    /\ server.phase = phase /\ Arriving.name \in names
    /\ up' = Drop(up, 2)
    /\ UNCHANGED <<context, session, caller, link, down>>

\* A full handshake, of which the session may be kept or not, and for which the
\* client may have to show a certificate.
AnswerFull ==
    /\ Arrives("hello", {"ClientHello"})
    /\ \E id \in {Nothing, conn}, asks \in BOOLEAN :
           server' = Said([Heard(Decrypted, Arriving) EXCEPT
                              !.phase = "handshake", !.id = id,
                              !.expects = (IF asks THEN <<"Certificate">> ELSE <<>>)
                                          \o <<"ClientKeyExchange", "ChangeCipherSpec", "Finished">>],
                          <<Message("ServerHello", id, <<>>), Message("Certificate", Nothing, <<>>),
                            Message("ServerKeyExchange", Nothing, <<>>)>>
                          \o (IF asks THEN <<Message("CertificateRequest", Nothing, <<>>)>> ELSE <<>>)
                          \o <<Message("ServerHelloDone", Nothing, <<>>)>>)
    /\ UNCHANGED <<cache, count>>

AnswerResumed ==
    /\ Arrives("hello", {"ClientHello"})
    /\ \E entry \in cache :
           /\ entry[1] = Arriving.id
           /\ server' = FinishedFlight(Said([Heard(Decrypted, Arriving) EXCEPT
                              !.phase = "handshake", !.resume = TRUE, !.id = entry[1], !.secret = entry[2],
                              !.expects = <<"ChangeCipherSpec", "Finished">>],
                          <<Message("ServerHello", entry[1], <<>>)>>))
    /\ UNCHANGED <<cache, count>>

\* What ends a session for the server too
Ended(s) == [s EXCEPT !.phase = "over", !.flight = <<>>]
Forget(id) == {entry \in cache : entry[1] # id}

\* No common parameters
Reject ==
    /\ Arrives("hello", {"ClientHello"})
    /\ server' = Sends(Ended(Decrypted), <<Message("fatal", Nothing, <<>>)>>)
    /\ UNCHANGED cache
    /\ Fault

InTurn(m) ==
    /\ server.expects # <<>> /\ m.name = Head(server.expects)
    /\ m.name = "CertificateVerify" => m.hash = server.transcript
    /\ m.name = "Finished" => m.id = server.secret /\ m.hash = server.transcript

TakeMessage ==
    /\ Arrives("handshake", {"Certificate", "ClientKeyExchange", "CertificateVerify"})
    /\ InTurn(Arriving)
    /\ server' = [Heard(Decrypted, Arriving) EXCEPT
           !.expects = IF Arriving.name = "Certificate" /\ Arriving.id # Nothing
                           THEN <<"ClientKeyExchange", "CertificateVerify", "ChangeCipherSpec", "Finished">>
                           ELSE Tail(@),
           !.secret = IF Arriving.name = "ClientKeyExchange" THEN Arriving.id ELSE @]
    /\ UNCHANGED <<cache, count>>

TakeChangeCipherSpec ==
    /\ Arrives("handshake", {"ChangeCipherSpec"})
    /\ InTurn(Arriving)
    /\ server' = [server EXCEPT !.decryption = Engine(server.secret), !.expects = Tail(@)]
    /\ UNCHANGED <<cache, count>>

TakeFinished ==
    LET s == [Heard(Decrypted, Arriving) EXCEPT !.phase = "data", !.expects = <<>>]
    IN /\ Arrives("handshake", {"Finished"})
       /\ InTurn(Arriving)
       /\ server' = IF s.resume THEN s ELSE FinishedFlight(s)
       /\ cache' = IF s.resume \/ s.id = Nothing THEN cache ELSE cache \cup {<<s.id, s.secret>>}
       /\ UNCHANGED count

TakeData ==
    /\ Arrives("data", {"data"})
    /\ server' = [Decrypted EXCEPT !.got = Append(@, Arriving.id)]
    /\ UNCHANGED <<cache, count>>

\* An alert of the client, at any time
TakeAlert ==
    /\ \E phase \in {"handshake", "data"} : Arrives(phase, {"close_notify", "fatal"})
    /\ server' = [Ended(Decrypted) EXCEPT !.ended = Arriving.name = "close_notify"]
    /\ cache' = IF Arriving.name = "fatal" THEN Forget(server.id) ELSE cache
    /\ UNCHANGED count

\* Anything else is answered with a fatal alert.
ServerRefuses ==
    /\ Len(up) > 1 /\ server.phase # "over"
    /\ ~Valid \/ CASE server.phase = "hello"     -> Arriving.name # "ClientHello"
                   [] server.phase = "handshake" -> Kind(Arriving) # "alert" /\ ~InTurn(Arriving)
                   [] OTHER                      -> Kind(Arriving) = "handshake"
    /\ up' = Drop(up, 2)
    /\ server' = Sends(Ended(server), <<Message("fatal", Nothing, <<>>)>>)
    /\ cache' = Forget(server.id)
    /\ UNCHANGED <<context, session, caller, link, down, count>>

\* A record of the server carries handshake messages, the last of which may be cut
\* in two, or one message of another kind.
ServerSends ==
    /\ server.flight # <<>> /\ link = "open"
    /\ \E n \in {1, Len(server.flight)}, cut \in BOOLEAN :
           LET body == SubSeq(server.flight, 1, n)
               last == server.flight[n]
               rest == Drop(server.flight, n)
               key == IF last.name = "ChangeCipherSpec" THEN Engine(server.secret)
                      ELSE Advance(server.encryption)
           IN /\ \A i \in 1 .. n : Kind(body[i]) = Kind(last)
              /\ n # 1 => Kind(last) \in {"handshake", "application_data"}
              /\ cut => last.part = "all" /\ Kind(last) = "handshake"
              /\ down' = down \o Halves(Record(IF cut THEN [body EXCEPT ![n].part = "head"] ELSE body,
                                               server.encryption))
              /\ server' = [server EXCEPT !.encryption = key,
                     !.flight = IF cut THEN <<[last EXCEPT !.part = "tail"]>> \o rest ELSE rest]
    /\ UNCHANGED <<context, session, caller, link, up, cache, count>>

\* The server is done with the connection.
ServerEnds ==
    /\ server.phase = "over" /\ server.flight = <<>> /\ link = "open"
    /\ link' = "ended"
    /\ UNCHANGED <<context, session, caller, up, down, world, count>>

Talking == server.phase = "data" /\ server.flight = <<>> /\ link = "open"

SendData ==
    /\ Talking /\ server.sent = 0
    /\ server' = Sends([server EXCEPT !.sent = Bound(MaxSent)],
                       [i \in 1 .. Bound(MaxSent) |-> Message("data", i, <<>>)])
    /\ UNCHANGED <<context, session, caller, net, cache, count>>

CloseNotify ==
    /\ Talking
    /\ server' = Sends(Ended(server), <<Message("close_notify", Nothing, <<>>)>>)
    /\ UNCHANGED <<context, session, caller, net, cache, count>>

\* A server may ask for another handshake at any time.
AskAgain ==
    /\ server.phase \in {"handshake", "data"} /\ link = "open"
    /\ server' = Sends(server, <<Message("HelloRequest", Nothing, <<>>)>>)
    /\ Fault
    /\ UNCHANGED <<context, session, caller, net, cache>>

\* The connection is reset, and what is under way is lost.
Reset ==
    /\ link \in {"open", "ended"}
    /\ link' = "reset" /\ up' = <<>> /\ down' = <<>>
    /\ server' = Ended(server)
    /\ Fault
    /\ UNCHANGED <<context, session, caller, cache>>

\* A protected record is damaged on its way, which TCP may not notice.  It makes no
\* difference when, so it is the next one to arrive.
Damaged(halves) == [halves EXCEPT ![1].half = 0]
Damageable(halves) == halves # <<>> /\ Head(halves).half = 1 /\ Head(halves).record.key.secret # Nothing

Damage ==
    /\ \/ Damageable(down) /\ down' = Damaged(down) /\ UNCHANGED up
       \/ Damageable(up) /\ up' = Damaged(up) /\ UNCHANGED down
    /\ Fault
    /\ UNCHANGED <<context, session, caller, link, world>>

-----------------------------------------------------------------------------

HandshakeStep ==
    \/ InitHandshake \/ FlushPending \/ SendClientHello \/ SendCertificate
    \/ SendClientKeyExchange \/ SendCertificateVerify \/ SendChangeCipherSpec \/ SendFinished
    \/ ParseServerHello \/ ParseCertificate \/ ParseServerKeyExchange \/ ParseCertificateRequest
    \/ ParseServerHelloDone \/ ParseFinished \/ ParseChangeCipherSpec \/ ParseHelloRequest
    \/ Established \/ HandshakeFailed

RecordStep ==
    \/ ReceiveHeader \/ ReceiveRecord \/ ReceiveBadRecord \/ ReceiveFails
    \/ ParseAlert \/ ParseData \/ ParseRefused \/ RefuseRenegotiation \/ CallEnds

CallerStep ==
    \/ Open \/ (\E n \in 1 .. 2 : StartWrite(n)) \/ WriteData \/ StartRead \/ ReadTimeout
    \/ StartShutdown \/ SendCloseNotify \/ Close

ServerStep ==
    \/ AnswerFull \/ AnswerResumed \/ TakeMessage \/ TakeChangeCipherSpec \/ TakeFinished
    \/ TakeData \/ TakeAlert \/ ServerRefuses \/ ServerSends \/ ServerEnds

Trouble == Reject \/ AskAgain \/ Reset \/ Damage \/ ElementFails \/ ConnectTimeout

Init ==
    /\ context = FreshContext(NoSession) /\ session = NoSession
    /\ call = "none" /\ todo = 0 /\ written = 0 /\ got = <<>>
    /\ link = "none" /\ up = <<>> /\ down = <<>>
    /\ server = ServerInit /\ cache = {}
    /\ conn = 0 /\ faults = 0 /\ troubled = FALSE

Next == HandshakeStep \/ RecordStep \/ CallerStep \/ ServerStep \/ SendData \/ CloseNotify \/ Trouble

Spec == Init /\ [][Next]_vars

\* A call to tlsConnect goes on by itself, and the server answers what it receives.
FairSpec == Spec /\ WF_vars(HandshakeStep \/ RecordStep) /\ WF_vars(ServerStep)

-----------------------------------------------------------------------------
(* Properties *)

Numbers == 0 .. MaxConnections
Data == 1 .. MaxWritten + MaxSent + 1
Sessions == [id : Numbers, secret : Numbers]
Names == {"HelloRequest", "ClientHello", "ServerHello", "Certificate", "ServerKeyExchange",
          "CertificateRequest", "ServerHelloDone", "ClientKeyExchange", "CertificateVerify", "Finished",
          "ChangeCipherSpec", "close_notify", "fatal", "data"}
Transcripts == Seq(Names \X Numbers)
Messages == [name : Names, id : Numbers \cup Data \cup {0, 1}, hash : Transcripts, part : {"all", "head", "tail"}]
Engines == [secret : Numbers, seqNum : Nat]
Records == [body : Seq(Messages), key : Engines]
RecordHalves == Seq([record : Records, half : 0 .. 2])

Contexts ==
    [state : States, resume : BOOLEAN, clientCertRequested : BOOLEAN, cert : BOOLEAN,
     sessionId : Numbers, masterSecret : Numbers, transcript : Transcripts,
     encryption : Engines, decryption : Engines,
     tx : RecordHalves, rx : Seq(Messages), rxRecord : RecordHalves,
     closeNotifySent : BOOLEAN, fatalAlert : BOOLEAN]

Servers ==
    [phase : {"hello", "handshake", "data", "over"}, resume : BOOLEAN, id : Numbers, secret : Numbers,
     expects : Seq(Names), transcript : Seq(Names \X Nat), flight : Seq(Messages),
     encryption : Engines, decryption : Engines, sent : 0 .. MaxSent \cup {1}, got : Seq(Data), ended : BOOLEAN]

\* Every variable has its type: no step leaves a context, a record or a call the code
\* knows nothing of.
TlsTypeOK ==
    /\ context \in Contexts /\ session \in Sessions /\ server \in Servers
    /\ call \in {"none", "connect", "read", "write", "shutdown", "failed", "ended", "done"}
    /\ todo \in 0 .. 2 /\ written \in 0 .. MaxWritten \cup {1} /\ got \in Seq(Data)
    /\ link \in {"none", "open", "ended", "reset"}
    /\ up \in RecordHalves /\ down \in RecordHalves
    /\ cache \subseteq Numbers \X Numbers
    /\ conn \in Numbers /\ faults \in 0 .. MaxFaults /\ troubled \in BOOLEAN

Upto(n) == [i \in 1 .. n |-> i]

\* Neither direction loses, repeats or reorders data, however often tlsWrite and
\* tlsRead are stopped inside of a record and called again: the server has what tlsWrite
\* counted, give or take the record that is pending, and the caller what the server sent.
\* And neither end takes a truncated stream for a whole one: a close_notify is
\* believed only behind all the data (tlsShutdown; tlsRead returning ERROR_END_OF_STREAM).
DataKept ==
    /\ \E k \in 0 .. written + 1 : server.got = Upto(k)
    /\ \E k \in 0 .. server.sent : got = Upto(k)
    /\ server.ended => server.got = Upto(written)
    /\ call = "ended" => got = Upto(server.sent)

SameSession ==
    /\ context.resume = server.resume
    /\ context.masterSecret = server.secret

\* An end that considers the handshake done has the other's secret and its idea of
\* whether the session is resumed, and the two have seen the same messages
\* (tlsParseFinished).  A session saved for the next connection has the secret that the
\* server keeps for it (tlsSaveSessionState).
SecretsAgree ==
    /\ link # "none" /\ context.state \in {"APPLICATION_DATA", "CLOSING"} /\ ~context.fatalAlert =>
           /\ SameSession
           /\ context.sessionId = server.id
           /\ server.transcript = SubSeq(context.transcript, 1, Len(server.transcript))
    /\ server.phase = "data" => SameSession
    /\ \A entry \in cache : entry[1] = session.id => entry[2] = session.secret

\* tlsConnect succeeds unless something happens to the connection: with or without a
\* session to resume that the server may or may not know, with a certificate asked for
\* or not, and however the messages of the server are divided into records.
HandshakeCompletes ==
    call = "connect" ~> context.state = "APPLICATION_DATA" \/ troubled
=============================================================================
