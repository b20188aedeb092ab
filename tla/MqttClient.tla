----------------------------- MODULE MqttClient -----------------------------
(***************************************************************************)
(* The MQTT client of cyclone_tcp/mqtt: one context, one task calling its  *)
(* API, one buffer shared by the packet being sent and the packet being    *)
(* received.  Each iteration of an API loop is one action, because every   *)
(* iteration contains at most one blocking transport call.                 *)
(*                                                                         *)
(* The module is open: the peer may answer with any packet at any time and *)
(* the transport may time out or fail at any call.  MqttApp closes it with *)
(* the task of main.c and a conforming broker.                             *)
(*                                                                         *)
(* A packet is cut into Units units, so that a send or a receive can stop  *)
(* in the middle of a packet (a timeout) and be resumed by a later call.   *)
(***************************************************************************)
EXTENDS Integers

CONSTANTS
    IdSpace,       \* number of packet identifiers (65536 in the code)
    Units,         \* units a packet is cut into on the byte stream
    Msgs,          \* application messages
    NoMsg,         \* the message of a packet that carries none
    CloseOnError   \* TRUE: the caller closes the client after a failed call

ASSUME IdSpaceAssumption == IdSpace \in Nat \ {0}
ASSUME UnitsAssumption == Units \in Nat \ {0}
ASSUME CloseOnErrorAssumption == CloseOnError \in BOOLEAN

-----------------------------------------------------------------------------
(* Packets, calls and error codes *)

QoS == 0..2

PacketIds == 0 .. IdSpace - 1

Requests == {"PUBLISH", "SUBSCRIBE", "UNSUBSCRIBE", "PINGREQ"}

\* INVALID stands for what mqttClientProcessPacket rejects: an unknown type,
\* a short packet, flags that are all set.
PacketTypes == Requests \cup
    {"CONNECT", "CONNACK", "PUBACK", "PUBREC", "PUBREL", "PUBCOMP", "SUBACK",
     "UNSUBACK", "PINGRESP", "DISCONNECT", "INVALID", "NONE"}

\* ok is the return code of CONNACK and SUBACK.
Packets == [type: PacketTypes, id: PacketIds, qos: QoS, ok: BOOLEAN,
            msg: Msgs \cup {NoMsg}]

Packet(type, id) ==
    [type |-> type, id |-> id, qos |-> 0, ok |-> TRUE, msg |-> NoMsg]

NoPacket == Packet("NONE", 0)

PublishPacket(id, qos, msg) ==
    [type |-> "PUBLISH", id |-> id, qos |-> qos, ok |-> TRUE, msg |-> msg]

Errors == {"NO_ERROR", "TIMEOUT", "NOT_CONNECTED", "FAILURE"}

\* wait: the caller passed no packetId (an rtt for a ping), so that the call
\* waits for the answer.  fits: the packet fits MQTT_CLIENT_BUFFER_SIZE.
Calls == [op: Requests \cup {"NONE", "CONNECT", "TASK", "DISCONNECT"},
          qos: QoS, wait: BOOLEAN, fits: BOOLEAN, msg: Msgs \cup {NoMsg}]

NoCall == [op |-> "NONE", qos |-> 0, wait |-> FALSE, fits |-> TRUE, msg |-> NoMsg]

Results == [op: Requests \cup {"NONE", "CONNECT", "TASK", "DISCONNECT", "CLOSE"},
            wait: BOOLEAN, error: Errors, sent: BOOLEAN, answered: BOOLEAN]

States == {"CLOSED", "CONNECTING", "CONNECTED", "IDLE", "SENDING_PACKET",
           "PACKET_SENT", "RECEIVING_PACKET", "PACKET_RECEIVED",
           "DISCONNECTING", "DISCONNECTED"}

VARIABLES
    state,         \* context->state
    packetType,    \* context->packetType: the request in progress
    packetId,      \* context->packetId: the last identifier used
    buffer,        \* the outgoing packet in context->buffer, NoPacket when it
                   \* holds incoming data
    packetPos,     \* context->packetPos, in units
    keepAliveDue,  \* now >= keepAliveTimestamp + keepAlive
    socket,        \* context->socket: NULL, open, connected
    tlsContext,    \* context->tlsContext: NULL, init, established
    call,          \* the API call in progress, NoCall between calls
    error,         \* the local variable error of that call
    result,        \* history: how the last call returned
    wire,          \* history: the outgoing packet the stream is inside of, and
                   \* whether a DISCONNECT went out on it
    taken,         \* history: units read of the incoming packet
    owed,          \* history: the acknowledgement the peer is owed
    asked,         \* history: the request of this call, once it is sent
    answered       \* history: it was answered

context == <<state, packetType, packetId, buffer, packetPos>>
transport == <<socket, tlsContext>>
caller == <<call, error, result>>
streams == <<wire, taken>>
progress == <<asked, answered>>
vars == <<context, keepAliveDue, transport, caller, streams, owed, progress>>

NoWire == [pkt |-> NoPacket, sent |-> 0, bye |-> FALSE]

TypeOK ==
    /\ state \in States
    /\ packetType \in Requests \cup {"INVALID", "CONNECT", "DISCONNECT"}
    /\ packetId \in PacketIds
    /\ buffer \in Packets
    /\ packetPos \in 0..Units
    /\ keepAliveDue \in BOOLEAN
    /\ socket \in {"NULL", "open", "connected"}
    /\ tlsContext \in {"NULL", "init", "established"}
    /\ call \in Calls
    /\ error \in Errors
    /\ result \in Results
    /\ wire \in [pkt: Packets, sent: 0..Units, bye: BOOLEAN]
    /\ taken \in 0..Units
    /\ owed \in Packets
    /\ asked \in Packets
    /\ answered \in BOOLEAN

Init ==
    /\ state = "CLOSED"
    /\ packetType = "INVALID"
    /\ packetId = 0
    /\ buffer = NoPacket
    /\ packetPos = 0
    /\ keepAliveDue = FALSE
    /\ socket = "NULL"
    /\ tlsContext = "NULL"
    /\ call = NoCall
    /\ error = "NO_ERROR"
    /\ result = [op |-> "NONE", wait |-> FALSE, error |-> "NO_ERROR",
                 sent |-> FALSE, answered |-> FALSE]
    /\ wire = NoWire
    /\ taken = 0
    /\ owed = NoPacket
    /\ asked = NoPacket
    /\ answered = FALSE

-----------------------------------------------------------------------------
(* Helpers shared by the calls *)

Running(op) == call.op = op /\ error = "NO_ERROR"

Return(e) ==
    /\ result' = [op |-> call.op, wait |-> call.wait, error |-> e,
                  sent |-> asked # NoPacket, answered |-> answered]
    /\ call' = NoCall
    /\ error' = "NO_ERROR"

\* A loop iteration ends with status e; a non-zero status ends the loop
\* through the error path of the call, which is an action of its own.
Status(e) == error' = e /\ UNCHANGED <<call, result>>

\* mqttClientTask runs one iteration and hides a timeout.
EndOfEvent(e) ==
    IF call.op = "TASK"
    THEN Return(IF e = "TIMEOUT" THEN "NO_ERROR" ELSE e)
    ELSE Status(e)

\* What follows a send or a receive when no answer was recognised.
Resume == IF packetType = "INVALID" THEN "IDLE" ELSE "PACKET_SENT"

\* Mutant: the TLS context is not released.
CloseConnectionKeepsTls ==
    /\ socket' = "NULL"
    /\ UNCHANGED tlsContext
    /\ wire' = NoWire
    /\ taken' = 0
    /\ owed' = NoPacket

\* Releases the TLS context and the socket, and with them the byte stream.
CloseConnection ==
    /\ socket' = "NULL"
    /\ tlsContext' = "NULL"
    /\ wire' = NoWire
    /\ taken' = 0
    /\ owed' = NoPacket

\* Makes p the packet to send on behalf of request type.
StartPacket(p, type) ==
    /\ buffer' = p
    /\ packetPos' = 0
    /\ packetType' = type
    /\ state' = "SENDING_PACKET"

-----------------------------------------------------------------------------
(* mqttClientProcessEvents *)

\* A call runs mqttClientProcessEvents in these states.
InProcessEvents ==
    /\ error = "NO_ERROR"
    /\ \/ call.op = "TASK"
       \/ /\ call.op = "CONNECT"
          /\ state \in {"SENDING_PACKET", "PACKET_SENT", "RECEIVING_PACKET"}
       \/ /\ call.op \in Requests
          /\ \/ state \in {"SENDING_PACKET", "RECEIVING_PACKET"}
             \/ state = "PACKET_SENT" /\ call.wait
       \/ call.op = "DISCONNECT" /\ state = "SENDING_PACKET"

\* Mutant: the keep-alive is served in any state.
PingDueInAnyState == keepAliveDue

\* mqttClientCheckKeepAlive formats a PINGREQ; packetType keeps the request
\* in progress.
PingDue == keepAliveDue /\ state \in {"IDLE", "PACKET_SENT"}

OutPacket == IF PingDue THEN Packet("PINGREQ", 0) ELSE buffer
OutPos == IF PingDue THEN 0 ELSE packetPos

\* History only: the stream after n units of packet p.
OnWire(p, n) ==
    IF n \in {0, Units}
    THEN [NoWire EXCEPT !.bye = wire.bye \/ (n = Units /\ p.type = "DISCONNECT")]
    ELSE [pkt |-> p, sent |-> n, bye |-> wire.bye]

\* k more units of the outgoing packet go to the transport, which reports e:
\* it has no error to report exactly when it took them all.
SendData(k, e) ==
    /\ InProcessEvents
    /\ PingDue \/ (state = "SENDING_PACKET" /\ packetPos < Units)
    /\ k \in 0 .. Units - OutPos
    /\ IF k = Units - OutPos THEN e = "NO_ERROR" ELSE e \in {"TIMEOUT", "FAILURE"}
    /\ state' = "SENDING_PACKET"
    /\ buffer' = OutPacket
    /\ packetPos' = OutPos + k
    /\ wire' = OnWire(OutPacket, OutPos + k)
    /\ owed' = IF OutPos + k = Units /\ owed = OutPacket THEN NoPacket ELSE owed
    /\ EndOfEvent(e)
    /\ UNCHANGED <<packetType, packetId, keepAliveDue, transport, taken, progress>>

\* Nothing remains to be sent: the keep-alive interval starts again.
PacketSent ==
    /\ InProcessEvents
    /\ state = "SENDING_PACKET" /\ packetPos = Units
    /\ keepAliveDue' = FALSE
    /\ state' = Resume
    /\ asked' = IF packetType = call.op /\ buffer.type = call.op THEN buffer ELSE asked
    /\ EndOfEvent("NO_ERROR")
    /\ UNCHANGED <<packetType, packetId, buffer, packetPos, transport, streams,
                   owed, answered>>

\* Mutant: packetPos is not reset before a packet is read.
WaitForDataReadyNoReset ==
    /\ InProcessEvents
    /\ state \in {"IDLE", "PACKET_SENT"} /\ ~PingDue
    /\ state' = "RECEIVING_PACKET"
    /\ buffer' = NoPacket
    /\ EndOfEvent("NO_ERROR")
    /\ UNCHANGED <<packetType, packetId, packetPos, keepAliveDue, transport,
                   streams, owed, progress>>

\* Data is there, or the connection is at its end: reading starts.
WaitForDataReady ==
    /\ InProcessEvents
    /\ state \in {"IDLE", "PACKET_SENT"} /\ ~PingDue
    /\ state' = "RECEIVING_PACKET"
    /\ buffer' = NoPacket
    /\ packetPos' = 0
    /\ EndOfEvent("NO_ERROR")
    /\ UNCHANGED <<packetType, packetId, keepAliveDue, transport, streams, owed,
                   progress>>

WaitForDataTimeout ==
    /\ InProcessEvents
    /\ state \in {"IDLE", "PACKET_SENT"} /\ ~PingDue
    /\ EndOfEvent("TIMEOUT")
    /\ UNCHANGED <<context, keepAliveDue, transport, streams, owed, progress>>

\* The transport gives k units, not the whole packet, and then an error.
ReceivePartly(k, e) ==
    /\ InProcessEvents
    /\ state = "RECEIVING_PACKET"
    /\ k \in 0 .. Units - 1 - packetPos
    /\ e \in {"TIMEOUT", "FAILURE"}
    /\ packetPos' = packetPos + k
    /\ taken' = taken + k
    /\ EndOfEvent(e)
    /\ UNCHANGED <<state, packetType, packetId, buffer, keepAliveDue, transport,
                   wire, owed, progress>>

\* In any other state mqttClientTask has nothing to do.
NoEvent ==
    /\ Running("TASK")
    /\ state \notin {"IDLE", "PACKET_SENT", "RECEIVING_PACKET", "SENDING_PACKET"}
    /\ EndOfEvent("NO_ERROR")
    /\ UNCHANGED <<context, keepAliveDue, transport, streams, owed, progress>>

-----------------------------------------------------------------------------
(* mqttClientReceivePacket got the rest of packet p: mqttClientProcessPacket *)

\* History only: p is the answer MQTT gives to a request.
Answers(p, request) ==
    \/ request.type = "CONNECT" /\ p.type = "CONNACK"
    \/ /\ request.type = "PUBLISH" /\ p.type \in {"PUBACK", "PUBCOMP"}
       /\ request.id = p.id
    \/ /\ request.type = "SUBSCRIBE" /\ p.type = "SUBACK"
       /\ request.id = p.id
    \/ /\ request.type = "UNSUBSCRIBE" /\ p.type = "UNSUBACK"
       /\ request.id = p.id
    \/ request.type = "PINGREQ" /\ p.type = "PINGRESP"

Received ==
    /\ InProcessEvents
    /\ state = "RECEIVING_PACKET"
    /\ taken' = 0
    /\ UNCHANGED <<packetId, packetType, keepAliveDue, transport, wire, asked>>

\* p is the answer to the request in progress.
Completes(p) ==
    Received /\ state' = "PACKET_RECEIVED" /\ packetPos' = Units
             /\ answered' = (answered \/ Answers(p, asked))
             /\ EndOfEvent("NO_ERROR")
             /\ UNCHANGED <<buffer, owed>>

\* p changes nothing.
Ignored(p, e) ==
    Received /\ state' = Resume /\ packetPos' = Units
             /\ EndOfEvent(e)
             /\ UNCHANGED <<buffer, owed, answered>>

\* p calls for another packet, formatted in the buffer p was read into.
RepliedBy(reply) ==
    Received /\ state' = "SENDING_PACKET" /\ packetPos' = 0
             /\ buffer' = reply
             /\ EndOfEvent("NO_ERROR")
             /\ UNCHANGED answered

ProcessConnAck(p) ==
    /\ p.type = "CONNACK"
    /\ IF ~p.ok THEN Ignored(p, "FAILURE")
       ELSE IF packetType = "CONNECT" THEN Completes(p) ELSE Ignored(p, "NO_ERROR")

\* Mutant: a message of level 0 is acknowledged too.
ProcessPublishAcksAll(p) ==
    /\ p.type = "PUBLISH"
    /\ LET ack == Packet(IF p.qos = 2 THEN "PUBREC" ELSE "PUBACK", p.id)
       IN  RepliedBy(ack) /\ owed' = ack

\* Mutant: the acknowledgement carries the client's own identifier.
ProcessPublishOwnId(p) ==
    /\ p.type = "PUBLISH"
    /\ IF p.qos = 0 THEN Ignored(p, "NO_ERROR")
       ELSE LET ack == Packet(IF p.qos = 2 THEN "PUBREC" ELSE "PUBACK", packetId)
            IN  RepliedBy(ack) /\ owed' = ack

\* Mutant: level 1 is taken for level 0.
ProcessPublishNoAck(p) ==
    /\ p.type = "PUBLISH"
    /\ IF p.qos < 2 THEN Ignored(p, "NO_ERROR")
       ELSE RepliedBy(Packet("PUBREC", p.id)) /\ owed' = Packet("PUBREC", p.id)

ProcessPublish(p) ==
    /\ p.type = "PUBLISH"
    /\ CASE p.qos = 0 -> Ignored(p, "NO_ERROR")
         [] p.qos = 1 -> RepliedBy(Packet("PUBACK", p.id))
                         /\ owed' = Packet("PUBACK", p.id)
         [] p.qos = 2 -> RepliedBy(Packet("PUBREC", p.id))
                         /\ owed' = Packet("PUBREC", p.id)

ProcessPubRec(p) ==
    /\ p.type = "PUBREC"
    /\ RepliedBy(Packet("PUBREL", p.id)) /\ owed' = Packet("PUBREL", p.id)

ProcessPubRel(p) ==
    /\ p.type = "PUBREL"
    /\ RepliedBy(Packet("PUBCOMP", p.id)) /\ owed' = Packet("PUBCOMP", p.id)

\* Mutant: the packet identifier is not compared.
ProcessPubAckAnyId(p) ==
    /\ p.type = "PUBACK"
    /\ IF packetType = "PUBLISH" THEN Completes(p) ELSE Ignored(p, "NO_ERROR")

ProcessPubAck(p) ==
    /\ p.type = "PUBACK"
    /\ IF packetType = "PUBLISH" /\ p.id = packetId
       THEN Completes(p) ELSE Ignored(p, "NO_ERROR")

ProcessPubComp(p) ==
    /\ p.type = "PUBCOMP"
    /\ IF packetType = "PUBLISH" /\ p.id = packetId
       THEN Completes(p) ELSE Ignored(p, "NO_ERROR")

ProcessSubAck(p) ==
    /\ p.type = "SUBACK"
    /\ IF packetType = "SUBSCRIBE" /\ p.id = packetId
       THEN Completes(p) ELSE Ignored(p, "NO_ERROR")

ProcessUnsubAck(p) ==
    /\ p.type = "UNSUBACK"
    /\ IF packetType = "UNSUBSCRIBE" /\ p.id = packetId
       THEN Completes(p) ELSE Ignored(p, "NO_ERROR")

ProcessPingResp(p) ==
    /\ p.type = "PINGRESP"
    /\ IF packetType = "PINGREQ" THEN Completes(p) ELSE Ignored(p, "NO_ERROR")

ProcessUnknown(p) ==
    /\ p.type = "INVALID"
    /\ Ignored(p, "FAILURE")

ReceivePacket(p) ==
    \/ ProcessConnAck(p)
    \/ ProcessPublish(p)
    \/ ProcessPubAck(p)
    \/ ProcessPubRec(p)
    \/ ProcessPubRel(p)
    \/ ProcessPubComp(p)
    \/ ProcessSubAck(p)
    \/ ProcessUnsubAck(p)
    \/ ProcessPingResp(p)
    \/ ProcessUnknown(p)

-----------------------------------------------------------------------------
(* mqttClientConnect *)

OpenConnection ==
    /\ Running("CONNECT") /\ state = "CLOSED"
    /\ \/ /\ socket' = "open" /\ tlsContext' = "init"
          /\ state' = "CONNECTING"
          /\ Status("NO_ERROR")
          /\ UNCHANGED <<streams, owed>>
       \/ /\ CloseConnection
          /\ Status("FAILURE")
          /\ UNCHANGED state
    /\ UNCHANGED <<packetType, packetId, buffer, packetPos, keepAliveDue, progress>>

\* The TCP connection may be there when the TLS handshake fails.
EstablishConnection ==
    /\ Running("CONNECT") /\ state = "CONNECTING"
    /\ \/ /\ socket' = "connected" /\ tlsContext' = "established"
          /\ state' = "CONNECTED"
          /\ Status("NO_ERROR")
       \/ /\ \E s \in {"open", "connected"} : socket' = s
          /\ \E e \in {"TIMEOUT", "FAILURE"} : Status(e)
          /\ UNCHANGED <<tlsContext, state>>
    /\ UNCHANGED <<packetType, packetId, buffer, packetPos, keepAliveDue,
                   streams, owed, progress>>

SendConnect ==
    /\ Running("CONNECT") /\ state = "CONNECTED"
    /\ IF call.fits
       THEN /\ StartPacket(Packet("CONNECT", 0), "CONNECT")
            /\ Status("NO_ERROR")
       ELSE /\ Status("FAILURE")
            /\ UNCHANGED <<state, packetType, buffer, packetPos>>
    /\ UNCHANGED <<packetId, keepAliveDue, transport, streams, owed, progress>>

ConnectAccepted ==
    /\ Running("CONNECT") /\ state = "PACKET_RECEIVED"
    /\ packetType' = "INVALID"
    /\ state' = "IDLE"
    /\ Status("NO_ERROR")
    /\ UNCHANGED <<packetId, buffer, packetPos, keepAliveDue, transport, streams,
                   owed, progress>>

ConnectInvalidState ==
    /\ Running("CONNECT") /\ state \in {"DISCONNECTING", "DISCONNECTED"}
    /\ Status("NOT_CONNECTED")
    /\ UNCHANGED <<context, keepAliveDue, transport, streams, owed, progress>>

ConnectDone ==
    /\ Running("CONNECT") /\ state = "IDLE"
    /\ Return("NO_ERROR")
    /\ UNCHANGED <<context, keepAliveDue, transport, streams, owed, progress>>

\* Any error closes the connection before mqttClientConnect returns it.
ConnectError ==
    /\ call.op = "CONNECT" /\ error # "NO_ERROR"
    /\ CloseConnection
    /\ state' = "CLOSED"
    /\ Return(error)
    /\ UNCHANGED <<packetType, packetId, buffer, packetPos, keepAliveDue, progress>>

-----------------------------------------------------------------------------
(* mqttClientPublish, mqttClientSubscribe, mqttClientUnsubscribe and         *)
(* mqttClientPing run the same loop around a packet of their own             *)

\* A request is formatted in the buffer, or does not fit it; its packet
\* identifier is consumed either way.
StartRequest(op, id, p) ==
    /\ Running(op) /\ state = "IDLE" /\ packetType = "INVALID"
    /\ packetId' = id
    /\ IF call.fits
       THEN /\ StartPacket(p, op)
            /\ Status("NO_ERROR")
       ELSE /\ Status("FAILURE")
            /\ UNCHANGED <<state, packetType, buffer, packetPos>>
    /\ UNCHANGED <<keepAliveDue, transport, streams, owed, progress>>

\* Mutant: the identifier does not wrap.
NextPacketIdNoWrap == packetId + 1

NextPacketId == (packetId + 1) % IdSpace

StartPublish ==
    LET id == IF call.qos = 0 THEN packetId ELSE NextPacketId
    IN  StartRequest("PUBLISH", id, PublishPacket(id, call.qos, call.msg))

StartSubscribe ==
    StartRequest("SUBSCRIBE", NextPacketId, Packet("SUBSCRIBE", NextPacketId))

StartUnsubscribe ==
    StartRequest("UNSUBSCRIBE", NextPacketId, Packet("UNSUBSCRIBE", NextPacketId))

StartPing == StartRequest("PINGREQ", packetId, Packet("PINGREQ", 0))

\* Mutant: a request never waits for its answer.
RequestCompleteAtOnce ==
    /\ call.op \in Requests /\ error = "NO_ERROR"
    /\ state \in {"PACKET_SENT", "PACKET_RECEIVED"}
    /\ state' = "IDLE"
    /\ Status("NO_ERROR")
    /\ UNCHANGED <<packetType, packetId, buffer, packetPos, keepAliveDue,
                   transport, streams, owed, progress>>

\* The caller wants no answer, or the answer has come.
RequestComplete ==
    /\ call.op \in Requests /\ error = "NO_ERROR"
    /\ \/ state = "PACKET_SENT" /\ ~call.wait
       \/ state = "PACKET_RECEIVED"
    /\ state' = "IDLE"
    /\ Status("NO_ERROR")
    /\ UNCHANGED <<packetType, packetId, buffer, packetPos, keepAliveDue,
                   transport, streams, owed, progress>>

RequestDone ==
    /\ call.op \in Requests /\ error = "NO_ERROR"
    /\ state = "IDLE" /\ packetType # "INVALID"
    /\ packetType' = "INVALID"
    /\ Return("NO_ERROR")
    /\ UNCHANGED <<state, packetId, buffer, packetPos, keepAliveDue, transport,
                   streams, owed, progress>>

RequestInvalidState ==
    /\ call.op \in Requests /\ error = "NO_ERROR"
    /\ state \in {"CLOSED", "CONNECTING", "CONNECTED", "DISCONNECTING", "DISCONNECTED"}
    /\ Status("NOT_CONNECTED")
    /\ UNCHANGED <<context, keepAliveDue, transport, streams, owed, progress>>

\* The loop ends with the error; nothing is undone.
RequestError ==
    /\ call.op \in Requests \cup {"DISCONNECT"} /\ error # "NO_ERROR"
    /\ Return(error)
    /\ UNCHANGED <<context, keepAliveDue, transport, streams, owed, progress>>

-----------------------------------------------------------------------------
(* mqttClientDisconnect *)

StartDisconnect ==
    /\ Running("DISCONNECT") /\ state = "IDLE"
    /\ StartPacket(Packet("DISCONNECT", 0), "DISCONNECT")
    /\ Status("NO_ERROR")
    /\ UNCHANGED <<packetId, keepAliveDue, transport, streams, owed, progress>>

\* Mutant: the client goes back to idle.
DisconnectSentIdle ==
    /\ Running("DISCONNECT") /\ state = "PACKET_SENT"
    /\ state' = "IDLE"
    /\ Status("NO_ERROR")
    /\ UNCHANGED <<packetType, packetId, buffer, packetPos, keepAliveDue,
                   transport, streams, owed, progress>>

DisconnectSent ==
    /\ Running("DISCONNECT") /\ state = "PACKET_SENT"
    /\ state' = "DISCONNECTING"
    /\ Status("NO_ERROR")
    /\ UNCHANGED <<packetType, packetId, buffer, packetPos, keepAliveDue,
                   transport, streams, owed, progress>>

ShutdownConnection ==
    /\ Running("DISCONNECT") /\ state = "DISCONNECTING"
    /\ \/ state' = "DISCONNECTED" /\ Status("NO_ERROR")
       \/ UNCHANGED state /\ \E e \in {"TIMEOUT", "FAILURE"} : Status(e)
    /\ UNCHANGED <<packetType, packetId, buffer, packetPos, keepAliveDue,
                   transport, streams, owed, progress>>

DisconnectInvalidState ==
    /\ Running("DISCONNECT")
    /\ state \in {"CLOSED", "CONNECTING", "CONNECTED", "RECEIVING_PACKET",
                  "PACKET_RECEIVED"}
    /\ Status("NOT_CONNECTED")
    /\ UNCHANGED <<context, keepAliveDue, transport, streams, owed, progress>>

DisconnectDone ==
    /\ Running("DISCONNECT") /\ state = "DISCONNECTED"
    /\ Return("NO_ERROR")
    /\ UNCHANGED <<context, keepAliveDue, transport, streams, owed, progress>>

-----------------------------------------------------------------------------
(* The caller *)

\* A failed call is followed by mqttClientClose under CloseOnError.
MayCall == call = NoCall /\ (~CloseOnError \/ result.error = "NO_ERROR" \/ state = "CLOSED")

Call(c) ==
    /\ MayCall
    /\ call' = c
    /\ error' = "NO_ERROR"
    /\ asked' = NoPacket
    /\ answered' = FALSE
    /\ UNCHANGED <<context, keepAliveDue, transport, result, streams, owed>>

Close ==
    /\ call = NoCall
    /\ CloseConnection
    /\ state' = "CLOSED"
    /\ result' = [op |-> "CLOSE", wait |-> FALSE, error |-> "NO_ERROR",
                  sent |-> FALSE, answered |-> FALSE]
    /\ UNCHANGED <<packetType, packetId, buffer, packetPos, keepAliveDue, call,
                   error, progress>>

\* mqttClientDeinit closes the connection and clears the whole context.
Deinit ==
    /\ call = NoCall
    /\ CloseConnection
    /\ state' = "CLOSED" /\ packetType' = "INVALID" /\ packetId' = 0
    /\ buffer' = NoPacket /\ packetPos' = 0
    /\ result' = [op |-> "CLOSE", wait |-> FALSE, error |-> "NO_ERROR",
                  sent |-> FALSE, answered |-> FALSE]
    /\ UNCHANGED <<keepAliveDue, call, error, progress>>

\* Time passes.
KeepAliveExpires ==
    /\ ~keepAliveDue
    /\ keepAliveDue' = TRUE
    /\ UNCHANGED <<context, transport, caller, streams, owed, progress>>

-----------------------------------------------------------------------------
(* The client with any caller and any peer *)

\* The calls of the API: only requests are waited for, a PUBLISH of level 0
\* never is, and only CONNECT, PUBLISH, SUBSCRIBE and UNSUBSCRIBE carry text.
CallerCalls ==
    {c \in Calls :
        /\ c.op # "NONE"
        /\ c.wait => c.op \in Requests /\ (c.op = "PUBLISH" => c.qos > 0)
        /\ c.op \in {"PINGREQ", "TASK", "DISCONNECT"} => c.fits
        /\ IF c.op = "PUBLISH" THEN c.msg \in Msgs ELSE c.msg = NoMsg /\ c.qos = 0}

Incoming ==
    {Packet(t, i) : t \in {"PUBACK", "PUBREC", "PUBREL", "PUBCOMP", "UNSUBACK"},
                   i \in PacketIds}
    \cup {[Packet("SUBACK", i) EXCEPT !.ok = b] : i \in PacketIds, b \in BOOLEAN}
    \cup {PublishPacket(i, q, NoMsg) : i \in PacketIds, q \in QoS}
    \cup {[Packet("CONNACK", 0) EXCEPT !.ok = b] : b \in BOOLEAN}
    \cup {Packet("PINGRESP", 0), Packet("INVALID", 0)}

ProcessEvents ==
    \/ \E k \in 0..Units, e \in Errors : SendData(k, e)
    \/ PacketSent
    \/ WaitForDataReady
    \/ WaitForDataTimeout
    \/ \E k \in 0..Units, e \in Errors : ReceivePartly(k, e)
    \/ \E p \in Incoming : ReceivePacket(p)
    \/ NoEvent

Connect ==
    \/ OpenConnection
    \/ EstablishConnection
    \/ SendConnect
    \/ ConnectAccepted
    \/ ConnectInvalidState
    \/ ConnectDone
    \/ ConnectError

Request ==
    \/ StartPublish
    \/ StartSubscribe
    \/ StartUnsubscribe
    \/ StartPing
    \/ RequestComplete
    \/ RequestDone
    \/ RequestInvalidState
    \/ RequestError

Disconnect ==
    \/ StartDisconnect
    \/ DisconnectSent
    \/ ShutdownConnection
    \/ DisconnectInvalidState
    \/ DisconnectDone

Next ==
    \/ \E c \in CallerCalls : Call(c)
    \/ Close
    \/ Deinit
    \/ ProcessEvents
    \/ Connect
    \/ Request
    \/ Disconnect
    \/ KeepAliveExpires

Spec == Init /\ [][Next]_vars

-----------------------------------------------------------------------------
(* Properties *)

\* The byte stream carries whole packets, one after the other, although every
\* packet is built and read in one buffer, and a timeout can interrupt a send
\* or a receive that another call resumes (mqtt_client_misc.c:66-148).
Framing ==
    /\ wire.sent = IF state = "SENDING_PACKET" /\ packetPos < Units THEN packetPos ELSE 0
    /\ wire.sent > 0 => wire.pkt = buffer
    /\ taken = IF state = "RECEIVING_PACKET" THEN packetPos ELSE 0

\* An acknowledgement the peer is owed is the packet being sent: no other
\* packet, keep-alive or request, takes the buffer before it has left.
AcksKept ==
    owed # NoPacket => state = "SENDING_PACKET" /\ buffer = owed /\ packetPos < Units

\* A request returns NO_ERROR only after its own packet has left whole, and
\* if the caller waits, after the peer has answered that very packet.
SuccessIsEarned ==
    result.op \in Requests /\ result.error = "NO_ERROR" =>
        result.sent /\ (result.wait => result.answered)

\* A closed client holds neither a socket nor a TLS context, whatever step of
\* the connection failed, and one that is past the handshake holds both.
NoLeak ==
    /\ state = "CLOSED" => socket = "NULL" /\ tlsContext = "NULL"
    /\ state \notin {"CLOSED", "CONNECTING"} =>
          socket = "connected" /\ tlsContext = "established"

\* After sending a DISCONNECT packet the client sends no more control packets
\* on that network connection (mqtt_client.c:1070-1071).
SilentAfterDisconnect ==
    wire.bye => ~ (InProcessEvents /\ (PingDue \/ (state = "SENDING_PACKET" /\ packetPos < Units)))

=============================================================================
