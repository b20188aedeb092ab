---------------------------- MODULE MqttAppProofs ----------------------------
(***************************************************************************)
(* Proofs about MqttClient, for every number of packet identifiers, every  *)
(* way of cutting packets, and every behaviour of peer and transport; then *)
(* about MqttApp: the task of main.c, the client and the broker, for any   *)
(* number of packet identifiers, faults, presses and messages.  What is    *)
(* proved of the client alone holds in MqttApp too, because every step of  *)
(* the composition is a step the open client admits.                       *)
(***************************************************************************)
EXTENDS MqttApp, FiniteSetTheorems, TLAPS

-----------------------------------------------------------------------------
(* The client *)

Live == {"IDLE", "SENDING_PACKET", "PACKET_SENT", "RECEIVING_PACKET", "PACKET_RECEIVED"}

\* No request is in progress; an acknowledgement, a keep-alive or an incoming
\* packet may be under way.
Quiet ==
    /\ state \in {"IDLE", "SENDING_PACKET", "RECEIVING_PACKET"}
    /\ packetType = "INVALID"
    /\ state = "SENDING_PACKET" => buffer.type # "DISCONNECT"

Ended == state \in {"CLOSED", "DISCONNECTED"}

\* The request of the call: in the buffer until it is sent, then remembered
\* by packetType and packetId.
InRequest ==
    /\ state \in Live
    /\ packetType = call.op
    /\ state = "SENDING_PACKET" => buffer.type # "DISCONNECT"
    /\ state = "SENDING_PACKET" /\ buffer.type = call.op =>
          call.op = "PINGREQ" \/ buffer.id = packetId
    /\ asked = NoPacket => /\ state = "SENDING_PACKET" /\ ~answered
                           /\ buffer.type = call.op
    /\ asked # NoPacket => /\ asked.type = call.op
                           /\ call.op # "PINGREQ" => asked.id = packetId
    /\ state = "PACKET_RECEIVED" => answered
    /\ state = "IDLE" /\ call.wait => answered

InConnect ==
    \/ state \in {"CONNECTING", "CONNECTED"}
    \/ /\ packetType = "CONNECT"
       /\ state \in {"SENDING_PACKET", "PACKET_SENT", "RECEIVING_PACKET",
                     "PACKET_RECEIVED"}
       /\ state = "SENDING_PACKET" => buffer.type # "DISCONNECT"

InDisconnect ==
    /\ packetType = "DISCONNECT"
    /\ state \in {"SENDING_PACKET", "PACKET_SENT", "DISCONNECTING", "DISCONNECTED"}

\* What the state and the packet type can be during and between calls, for a
\* caller that closes the client after an error.
CallInv ==
    /\ call.op = "NONE" /\ result.error = "NO_ERROR" => Ended \/ Quiet
    /\ call.op = "TASK" => Ended \/ Quiet
    /\ call.op = "CONNECT" => Ended \/ Quiet \/ InConnect
    /\ call.op = "DISCONNECT" => Ended \/ Quiet \/ InDisconnect
    /\ call.op \in Requests =>
          Ended \/ (Quiet /\ asked = NoPacket /\ ~answered) \/ InRequest

\* A DISCONNECT has left: the client is on its way out.
ByeInv ==
    wire.bye =>
        /\ packetType = "DISCONNECT"
        /\ \/ state = "SENDING_PACKET" /\ packetPos = Units
           \/ state \in {"PACKET_SENT", "DISCONNECTING", "DISCONNECTED"}
        /\ \/ call.op = "DISCONNECT"
           \/ state = "DISCONNECTED"
           \/ call.op = "NONE" /\ result.error # "NO_ERROR"

-----------------------------------------------------------------------------
(* Types *)

LEMMA ZeroIsPacketId == 0 \in PacketIds
  BY IdSpaceAssumption DEF PacketIds

LEMMA PacketTyped ==
    ASSUME NEW t \in PacketTypes, NEW i \in PacketIds
    PROVE  Packet(t, i) \in Packets
  BY DEF Packet, Packets, QoS

LEMMA NoPacketTyped == NoPacket \in Packets
  BY ZeroIsPacketId, PacketTyped DEF NoPacket, PacketTypes

LEMMA PublishTyped ==
    ASSUME NEW i \in PacketIds, NEW q \in QoS, NEW m \in Msgs \cup {NoMsg}
    PROVE  PublishPacket(i, q, m) \in Packets
  BY DEF PublishPacket, Packets, PacketTypes, Requests

LEMMA IncomingTyped == Incoming \subseteq Packets
  <1>1. \A t \in PacketTypes, i \in PacketIds : Packet(t, i) \in Packets
    BY PacketTyped
  <1>2. \A i \in PacketIds, q \in QoS : PublishPacket(i, q, NoMsg) \in Packets
    BY PublishTyped
  <1>3. \A t \in PacketTypes, i \in PacketIds, b \in BOOLEAN :
          [Packet(t, i) EXCEPT !.ok = b] \in Packets
    BY DEF Packet, Packets, PacketTypes, QoS
  <1>4. {Packet(t, i) : t \in {"PUBACK", "PUBREC", "PUBREL", "PUBCOMP", "UNSUBACK"},
                       i \in PacketIds} \subseteq Packets
    <2>1. {"PUBACK", "PUBREC", "PUBREL", "PUBCOMP", "UNSUBACK"} \subseteq PacketTypes
      BY DEF PacketTypes
    <2> QED
      BY <1>1, <2>1
  <1>5. {PublishPacket(i, q, NoMsg) : i \in PacketIds, q \in QoS} \subseteq Packets
    BY <1>2
  <1>6. /\ {[Packet("SUBACK", i) EXCEPT !.ok = b] : i \in PacketIds, b \in BOOLEAN}
              \subseteq Packets
        /\ {[Packet("CONNACK", 0) EXCEPT !.ok = b] : b \in BOOLEAN} \subseteq Packets
    BY <1>3, ZeroIsPacketId DEF PacketTypes
  <1>7. {Packet("PINGRESP", 0), Packet("INVALID", 0)} \subseteq Packets
    BY <1>1, ZeroIsPacketId DEF PacketTypes
  <1> QED
    BY <1>4, <1>5, <1>6, <1>7 DEF Incoming

LEMMA NextPacketIdTyped ==
    ASSUME packetId \in PacketIds
    PROVE  NextPacketId \in PacketIds
  BY IdSpaceAssumption DEF NextPacketId, PacketIds

LEMMA ReturnTyped ==
    ASSUME TypeOK, NEW e \in Errors, Return(e)
    PROVE  call' \in Calls /\ error' \in Errors /\ result' \in Results
  BY DEF TypeOK, Return, NoCall, Calls, Errors, Results, QoS, Requests

LEMMA StatusTyped ==
    ASSUME TypeOK, NEW e \in Errors, Status(e)
    PROVE  call' \in Calls /\ error' \in Errors /\ result' \in Results
  BY DEF TypeOK, Status

LEMMA EndOfEventTyped ==
    ASSUME TypeOK, NEW e \in Errors, EndOfEvent(e)
    PROVE  call' \in Calls /\ error' \in Errors /\ result' \in Results
  BY ReturnTyped, StatusTyped DEF EndOfEvent, Errors

LEMMA OnWireTyped ==
    ASSUME TypeOK, NEW p \in Packets, NEW n \in 0..Units
    PROVE  OnWire(p, n) \in [pkt: Packets, sent: 0..Units, bye: BOOLEAN]
  <1>1. wire.bye \in BOOLEAN
    BY DEF TypeOK
  <1>2. NoPacket \in Packets /\ 0 \in 0..Units
    BY NoPacketTyped, UnitsAssumption
  <1>3. \A b \in BOOLEAN :
          [NoWire EXCEPT !.bye = b] \in [pkt: Packets, sent: 0..Units, bye: BOOLEAN]
    BY <1>2 DEF NoWire
  <1>4. CASE n \in {0, Units}
    BY <1>3, <1>4 DEF OnWire
  <1>5. CASE n \notin {0, Units}
    BY <1>1, <1>5 DEF OnWire
  <1> QED
    BY <1>4, <1>5

LEMMA CloseTyped ==
    ASSUME CloseConnection
    PROVE  /\ socket' \in {"NULL", "open", "connected"}
           /\ tlsContext' \in {"NULL", "init", "established"}
           /\ wire' \in [pkt: Packets, sent: 0..Units, bye: BOOLEAN]
           /\ taken' \in 0..Units
           /\ owed' \in Packets
  BY NoPacketTyped, UnitsAssumption DEF CloseConnection, NoWire

\* The tuples of unchanged variables, one by one.
LEMMA Frames ==
    /\ UNCHANGED vars <=> UNCHANGED <<context, keepAliveDue, transport, caller,
                                      streams, owed, progress>>
    /\ UNCHANGED context <=>
          UNCHANGED <<state, packetType, packetId, buffer, packetPos>>
    /\ UNCHANGED transport <=> UNCHANGED <<socket, tlsContext>>
    /\ UNCHANGED caller <=> UNCHANGED <<call, error, result>>
    /\ UNCHANGED streams <=> UNCHANGED <<wire, taken>>
    /\ UNCHANGED progress <=> UNCHANGED <<asked, answered>>
  BY DEF vars, context, transport, caller, streams, progress

LEMMA InitTyped == Init => TypeOK
  <1> SUFFICES ASSUME Init PROVE TypeOK
    OBVIOUS
  <1>1. NoCall \in Calls
    BY DEF NoCall, Calls, QoS
  <1>2. result \in Results
    BY DEF Init, Results, Errors
  <1>3. wire \in [pkt: Packets, sent: 0..Units, bye: BOOLEAN] /\ 0 \in 0..Units
    BY NoPacketTyped, UnitsAssumption DEF Init, NoWire
  <1> QED
    BY <1>1, <1>2, <1>3, NoPacketTyped, ZeroIsPacketId
    DEF Init, TypeOK, States, Errors

LEMMA SendTyped ==
    ASSUME TypeOK, NEW k \in 0..Units, NEW e \in Errors, SendData(k, e)
    PROVE  TypeOK'
  <1>1. OutPacket \in Packets /\ OutPos \in 0..Units
    <2>1. Packet("PINGREQ", 0) \in Packets /\ 0 \in 0..Units
      BY PacketTyped, ZeroIsPacketId, UnitsAssumption DEF PacketTypes, Requests
    <2> QED
      BY <2>1 DEF OutPacket, OutPos, TypeOK
  <1>2. OutPos + k \in 0..Units
    BY <1>1, UnitsAssumption DEF SendData
  <1>3. OnWire(OutPacket, OutPos + k) \in [pkt: Packets, sent: 0..Units, bye: BOOLEAN]
    BY <1>1, <1>2, OnWireTyped
  <1>4. call' \in Calls /\ error' \in Errors /\ result' \in Results
    BY EndOfEventTyped DEF SendData
  <1> QED
    BY <1>1, <1>2, <1>3, <1>4, NoPacketTyped
    DEF SendData, TypeOK, States, transport, progress

LEMMA ReplyTyped ==
    ASSUME NEW p \in Packets,
           NEW t \in {"PUBACK", "PUBREC", "PUBREL", "PUBCOMP"}
    PROVE  Packet(t, p.id) \in Packets
  <1>1. p.id \in PacketIds
    BY DEF Packets
  <1> QED
    BY <1>1, PacketTyped DEF PacketTypes

LEMMA CompletesTyped ==
    ASSUME TypeOK, NEW p \in Packets, Completes(p)
    PROVE  TypeOK'
  <1>1. call' \in Calls /\ error' \in Errors /\ result' \in Results
    BY EndOfEventTyped DEF Completes, Errors
  <1>2. (answered \/ Answers(p, asked)) \in BOOLEAN
    BY Zenon
  <1> QED
    BY <1>1, <1>2, UnitsAssumption
    DEF Completes, Received, TypeOK, States, transport

LEMMA IgnoredTyped ==
    ASSUME TypeOK, NEW p \in Packets, NEW e \in Errors, Ignored(p, e)
    PROVE  TypeOK'
  <1>1. call' \in Calls /\ error' \in Errors /\ result' \in Results
    BY EndOfEventTyped DEF Ignored
  <1> QED
    BY <1>1, UnitsAssumption
    DEF Ignored, Received, Resume, TypeOK, States, transport

LEMMA RepliedTyped ==
    ASSUME TypeOK, NEW r \in Packets, RepliedBy(r), owed' = r
    PROVE  TypeOK'
  <1>1. call' \in Calls /\ error' \in Errors /\ result' \in Results
    BY EndOfEventTyped DEF RepliedBy, Errors
  <1> QED
    BY <1>1, UnitsAssumption
    DEF RepliedBy, Received, TypeOK, States, transport

\* p answers the request that packetType and packetId remember.
Matches(p) ==
    \/ packetType = "CONNECT"
    \/ packetType = "PUBLISH" /\ p.type \in {"PUBACK", "PUBCOMP"} /\ p.id = packetId
    \/ packetType = "SUBSCRIBE" /\ p.type = "SUBACK" /\ p.id = packetId
    \/ packetType = "UNSUBSCRIBE" /\ p.type = "UNSUBACK" /\ p.id = packetId
    \/ packetType = "PINGREQ" /\ p.type = "PINGRESP"

\* The three things that can happen to an incoming packet.
LEMMA ReceiveKinds ==
    ASSUME NEW p \in Packets, ReceivePacket(p)
    PROVE  \/ Completes(p) /\ Matches(p)
           \/ \E e \in Errors : Ignored(p, e)
           \/ \E t \in {"PUBACK", "PUBREC", "PUBREL", "PUBCOMP"} :
                 RepliedBy(Packet(t, p.id)) /\ owed' = Packet(t, p.id)
  <1>1. p.qos = 0 \/ p.qos = 1 \/ p.qos = 2
    BY DEF Packets, QoS
  <1>2. "NO_ERROR" \in Errors /\ "FAILURE" \in Errors
    BY DEF Errors
  <1>3. ProcessPublish(p) =>
          \/ \E e \in Errors : Ignored(p, e)
          \/ \E t \in {"PUBACK", "PUBREC"} :
                RepliedBy(Packet(t, p.id)) /\ owed' = Packet(t, p.id)
    BY <1>1, <1>2 DEF ProcessPublish
  <1> QED
    BY <1>2, <1>3
    DEF Matches, ReceivePacket, ProcessConnAck, ProcessPubAck, ProcessPubRec,
        ProcessPubRel, ProcessPubComp, ProcessSubAck, ProcessUnsubAck,
        ProcessPingResp, ProcessUnknown

LEMMA ReceiveTyped ==
    ASSUME TypeOK, NEW p \in Packets, ReceivePacket(p)
    PROVE  TypeOK'
  BY ReceiveKinds, CompletesTyped, IgnoredTyped, RepliedTyped, ReplyTyped

\* What was read of the incoming packet is what Framing says.
LEMMA EventsTyped == TypeOK /\ Framing /\ ProcessEvents => TypeOK'
  <1> SUFFICES ASSUME TypeOK, Framing, ProcessEvents PROVE TypeOK'
    OBVIOUS
  <1> USE DEF States, context, transport, streams, progress
  <1>0. "NO_ERROR" \in Errors /\ "TIMEOUT" \in Errors
    BY DEF Errors
  <1>1. CASE \E k \in 0..Units, e \in Errors : SendData(k, e)
    BY <1>1, SendTyped
  <1>2. CASE PacketSent
    <2>1. call' \in Calls /\ error' \in Errors /\ result' \in Results
      BY <1>0, <1>2, EndOfEventTyped DEF PacketSent
    <2> QED
      BY <1>2, <2>1 DEF PacketSent, Resume, TypeOK
  <1>3. CASE WaitForDataReady
    <2>1. call' \in Calls /\ error' \in Errors /\ result' \in Results
      BY <1>0, <1>3, EndOfEventTyped DEF WaitForDataReady
    <2> QED
      BY <1>3, <2>1, NoPacketTyped, UnitsAssumption DEF WaitForDataReady, TypeOK
  <1>4. CASE WaitForDataTimeout
    <2>1. call' \in Calls /\ error' \in Errors /\ result' \in Results
      BY <1>0, <1>4, EndOfEventTyped DEF WaitForDataTimeout
    <2> QED
      BY <1>4, <2>1 DEF WaitForDataTimeout, TypeOK
  <1>5. CASE \E p \in Incoming : ReceivePacket(p)
    BY <1>5, IncomingTyped, ReceiveTyped
  <1>6. CASE NoEvent
    <2>1. call' \in Calls /\ error' \in Errors /\ result' \in Results
      BY <1>0, <1>6, EndOfEventTyped DEF NoEvent
    <2> QED
      BY <1>6, <2>1 DEF NoEvent, TypeOK
  <1>7. CASE \E k \in 0..Units, e \in Errors : ReceivePartly(k, e)
    <2>1. PICK k \in 0..Units, e \in Errors : ReceivePartly(k, e)
      BY <1>7
    <2>2. call' \in Calls /\ error' \in Errors /\ result' \in Results
      BY <2>1, EndOfEventTyped DEF ReceivePartly
    <2>3. taken = packetPos /\ packetPos \in 0..Units /\ k \in 0 .. Units - 1 - packetPos
      BY <2>1 DEF ReceivePartly, Framing, TypeOK
    <2>4. packetPos + k \in 0..Units
      BY <2>3, UnitsAssumption
    <2> QED
      BY <2>1, <2>2, <2>3, <2>4 DEF ReceivePartly, TypeOK
  <1> QED
    BY <1>1, <1>2, <1>3, <1>4, <1>5, <1>6, <1>7 DEF ProcessEvents

LEMMA ConnectTyped == TypeOK /\ Connect => TypeOK'
  <1> SUFFICES ASSUME TypeOK, Connect PROVE TypeOK'
    OBVIOUS
  <1> USE DEF States, context, transport, streams, progress
  <1>0. Errors = {"NO_ERROR", "TIMEOUT", "NOT_CONNECTED", "FAILURE"}
    BY DEF Errors
  <1>1. CASE OpenConnection
    BY <1>0, <1>1, CloseTyped DEF OpenConnection, Status, TypeOK
  <1>2. CASE EstablishConnection
    BY <1>0, <1>2 DEF EstablishConnection, Status, TypeOK
  <1>3. CASE SendConnect
    <2>1. Packet("CONNECT", 0) \in Packets /\ 0 \in 0..Units
      BY PacketTyped, ZeroIsPacketId, UnitsAssumption DEF PacketTypes
    <2> QED
      BY <1>0, <1>3, <2>1 DEF SendConnect, StartPacket, Status, TypeOK
  <1>4. CASE ConnectAccepted
    BY <1>0, <1>4 DEF ConnectAccepted, Status, TypeOK
  <1>5. CASE ConnectInvalidState
    BY <1>0, <1>5 DEF ConnectInvalidState, Status, TypeOK
  <1>6. CASE ConnectDone
    BY <1>0, <1>6, ReturnTyped DEF ConnectDone, TypeOK
  <1>7. CASE ConnectError
    <2>1. call' \in Calls /\ error' \in Errors /\ result' \in Results
      BY <1>7, ReturnTyped DEF ConnectError, TypeOK
    <2> QED
      BY <1>7, <2>1, CloseTyped DEF ConnectError, TypeOK
  <1> QED
    BY <1>1, <1>2, <1>3, <1>4, <1>5, <1>6, <1>7 DEF Connect

LEMMA StartTyped ==
    ASSUME TypeOK, NEW op \in Requests, NEW id \in PacketIds, NEW p \in Packets,
           StartRequest(op, id, p)
    PROVE  TypeOK'
  <1>1. 0 \in 0..Units /\ "NO_ERROR" \in Errors /\ "FAILURE" \in Errors
    BY UnitsAssumption DEF Errors
  <1> QED
    BY <1>1 DEF StartRequest, StartPacket, Status, TypeOK, States, transport,
                streams, progress

LEMMA RequestTyped == TypeOK /\ Request => TypeOK'
  <1> SUFFICES ASSUME TypeOK, Request PROVE TypeOK'
    OBVIOUS
  <1> USE DEF States, context, transport, streams, progress
  <1>0. Errors = {"NO_ERROR", "TIMEOUT", "NOT_CONNECTED", "FAILURE"}
    BY DEF Errors
  <1>1. NextPacketId \in PacketIds /\ packetId \in PacketIds /\ 0 \in PacketIds
    BY NextPacketIdTyped, ZeroIsPacketId DEF TypeOK
  <1>2. CASE StartPublish
    <2>1. call.qos \in QoS /\ call.msg \in Msgs \cup {NoMsg}
      BY DEF TypeOK, Calls
    <2> QED
      BY <1>1, <1>2, <2>1, PublishTyped, StartTyped DEF StartPublish, Requests
  <1>3. CASE StartSubscribe
    BY <1>1, <1>3, PacketTyped, StartTyped DEF StartSubscribe, PacketTypes, Requests
  <1>4. CASE StartUnsubscribe
    BY <1>1, <1>4, PacketTyped, StartTyped DEF StartUnsubscribe, PacketTypes, Requests
  <1>5. CASE StartPing
    BY <1>1, <1>5, PacketTyped, StartTyped DEF StartPing, PacketTypes, Requests
  <1>6. CASE RequestComplete
    BY <1>0, <1>6 DEF RequestComplete, Status, TypeOK
  <1>7. CASE RequestDone
    BY <1>0, <1>7, ReturnTyped DEF RequestDone, TypeOK
  <1>8. CASE RequestInvalidState
    BY <1>0, <1>8 DEF RequestInvalidState, Status, TypeOK
  <1>9. CASE RequestError
    BY <1>9, ReturnTyped DEF RequestError, TypeOK
  <1> QED
    BY <1>2, <1>3, <1>4, <1>5, <1>6, <1>7, <1>8, <1>9 DEF Request

LEMMA DisconnectTyped == TypeOK /\ Disconnect => TypeOK'
  <1> SUFFICES ASSUME TypeOK, Disconnect PROVE TypeOK'
    OBVIOUS
  <1> USE DEF States, context, transport, streams, progress
  <1>0. Errors = {"NO_ERROR", "TIMEOUT", "NOT_CONNECTED", "FAILURE"}
    BY DEF Errors
  <1>1. CASE StartDisconnect
    <2>1. Packet("DISCONNECT", 0) \in Packets /\ 0 \in 0..Units
      BY PacketTyped, ZeroIsPacketId, UnitsAssumption DEF PacketTypes
    <2> QED
      BY <1>0, <1>1, <2>1 DEF StartDisconnect, StartPacket, Status, TypeOK
  <1>2. CASE DisconnectSent
    BY <1>0, <1>2 DEF DisconnectSent, Status, TypeOK
  <1>3. CASE ShutdownConnection
    BY <1>0, <1>3 DEF ShutdownConnection, Status, TypeOK
  <1>4. CASE DisconnectInvalidState
    BY <1>0, <1>4 DEF DisconnectInvalidState, Status, TypeOK
  <1>5. CASE DisconnectDone
    BY <1>0, <1>5, ReturnTyped DEF DisconnectDone, TypeOK
  <1> QED
    BY <1>1, <1>2, <1>3, <1>4, <1>5 DEF Disconnect

LEMMA StepTyped == TypeOK /\ Framing /\ [Next]_vars => TypeOK'
  <1> SUFFICES ASSUME TypeOK, Framing, [Next]_vars PROVE TypeOK'
    OBVIOUS
  <1> USE DEF context, transport, caller, streams, progress
  <1>1. CASE \E c \in CallerCalls : Call(c)
    BY <1>1, NoPacketTyped DEF CallerCalls, Call, TypeOK, Errors
  <1>2. CASE Close \/ Deinit
    <2>1. result' = [op |-> "CLOSE", wait |-> FALSE, error |-> "NO_ERROR",
                     sent |-> FALSE, answered |-> FALSE]
      BY <1>2 DEF Close, Deinit
    <2>2. result' \in Results
      BY <2>1 DEF Results, Errors
    <2> QED
      BY <1>2, <2>2, CloseTyped, NoPacketTyped, ZeroIsPacketId, UnitsAssumption
      DEF Close, Deinit, TypeOK, States
  <1>3. CASE KeepAliveExpires
    BY <1>3 DEF KeepAliveExpires, TypeOK
  <1>4. CASE UNCHANGED vars
    BY <1>4 DEF vars, TypeOK
  <1> QED
    BY <1>1, <1>2, <1>3, <1>4, EventsTyped, ConnectTyped, RequestTyped,
       DisconnectTyped DEF Next

-----------------------------------------------------------------------------
(* Framing *)

LEMMA InitFramed == Init => Framing
  BY UnitsAssumption DEF Init, Framing, NoWire

LEMMA OnWireSent ==
    ASSUME NEW p, NEW n \in 0..Units
    PROVE  /\ OnWire(p, n).sent = IF n = Units THEN 0 ELSE n
           /\ OnWire(p, n).sent > 0 => OnWire(p, n).pkt = p
  BY UnitsAssumption DEF OnWire, NoWire

\* A step that leaves the stream alone keeps it framed when the buffer, the
\* position and the state agree with it as before, or nothing was under way.
LEMMA StepFramed == TypeOK /\ Framing /\ [Next]_vars => Framing'
  <1> SUFFICES ASSUME TypeOK, Framing, [Next]_vars PROVE Framing'
    OBVIOUS
  <1> USE UnitsAssumption DEF Framing, context, transport, streams, progress
  <1>0. packetPos \in 0..Units /\ taken \in 0..Units /\ wire.sent \in 0..Units
    BY DEF TypeOK
  <1>1. ASSUME NEW k \in 0..Units, NEW e \in Errors, SendData(k, e) PROVE Framing'
    <2>1. OutPos \in 0..Units /\ OutPos + k \in 0..Units /\ taken = 0
      BY <1>0, <1>1 DEF OutPos, PingDue, SendData
    <2> QED
      BY <1>1, <2>1, OnWireSent DEF SendData
  <1>2. CASE PacketSent \/ WaitForDataReady \/ WaitForDataTimeout \/ NoEvent
    BY <1>0, <1>2 DEF PacketSent, Resume, WaitForDataReady, WaitForDataTimeout, NoEvent
  <1>3. ASSUME NEW k \in 0..Units, NEW e \in Errors, ReceivePartly(k, e) PROVE Framing'
    BY <1>0, <1>3 DEF ReceivePartly
  <1>4. ASSUME NEW p \in Incoming, ReceivePacket(p) PROVE Framing'
    <2>1. /\ Received
          /\ \/ state' \in {"PACKET_RECEIVED", "IDLE", "PACKET_SENT"}
             \/ state' = "SENDING_PACKET" /\ packetPos' = 0
      BY <1>4, IncomingTyped, ReceiveKinds DEF Completes, Ignored, RepliedBy, Resume
    <2> QED
      BY <1>0, <2>1 DEF Received
  <1>5. CASE Connect
    BY <1>0, <1>5 DEF Connect, OpenConnection, EstablishConnection, SendConnect,
       ConnectAccepted, ConnectInvalidState, ConnectDone, ConnectError,
       StartPacket, CloseConnection, NoWire
  <1>6. CASE Request
    BY <1>0, <1>6 DEF Request, StartPublish, StartSubscribe, StartUnsubscribe,
       StartPing, StartRequest, StartPacket, RequestComplete, RequestDone,
       RequestInvalidState, RequestError
  <1>7. CASE Disconnect
    BY <1>0, <1>7 DEF Disconnect, StartDisconnect, StartPacket, DisconnectSent,
       ShutdownConnection, DisconnectInvalidState, DisconnectDone
  <1>8. CASE (\E c \in CallerCalls : Call(c)) \/ Close \/ Deinit \/ KeepAliveExpires
             \/ UNCHANGED vars
    BY <1>0, <1>8 DEF Call, Close, Deinit, KeepAliveExpires, CloseConnection,
       NoWire, vars
  <1> QED
    BY <1>1, <1>2, <1>3, <1>4, <1>5, <1>6, <1>7, <1>8 DEF Next, ProcessEvents

\* Every variable keeps its type, whatever the caller, the peer and the
\* transport do.
THEOREM Typed == Spec => []TypeOK
  <1>1. Init => TypeOK /\ Framing
    BY InitTyped, InitFramed
  <1>2. TypeOK /\ Framing /\ [Next]_vars => (TypeOK /\ Framing)'
    BY StepTyped, StepFramed
  <1> QED
    BY <1>1, <1>2, PTL DEF Spec

\* The stream carries whole packets for any caller, even one that goes on
\* after an error (mqtt_client_misc.c:66-147).
THEOREM Framed == Spec => []Framing
  <1>1. Init => TypeOK /\ Framing
    BY InitTyped, InitFramed
  <1>2. TypeOK /\ Framing /\ [Next]_vars => (TypeOK /\ Framing)'
    BY StepTyped, StepFramed
  <1> QED
    BY <1>1, <1>2, PTL DEF Spec
-----------------------------------------------------------------------------
(* Acknowledgements and resources *)

LEMMA StepKeepsAcks == TypeOK /\ AcksKept /\ [Next]_vars => AcksKept'
  <1> SUFFICES ASSUME TypeOK, AcksKept, [Next]_vars PROVE AcksKept'
    OBVIOUS
  <1> USE UnitsAssumption DEF AcksKept, context, transport, streams, progress
  <1>0. packetPos \in 0..Units
    BY DEF TypeOK
  <1>1. ASSUME NEW k \in 0..Units, NEW e \in Errors, SendData(k, e) PROVE AcksKept'
    <2>1. CASE owed = NoPacket
      BY <1>1, <2>1 DEF SendData
    <2>2. CASE owed # NoPacket
      <3>1. OutPacket = buffer /\ OutPos = packetPos
        BY <2>2 DEF OutPacket, OutPos, PingDue
      <3>2. packetPos + k = Units => owed' = NoPacket
        BY <1>1, <2>2, <3>1 DEF SendData
      <3>3. packetPos + k # Units => packetPos + k < Units
        BY <1>0, <1>1, <3>1 DEF SendData
      <3> QED
        BY <1>1, <2>2, <3>1, <3>2, <3>3 DEF SendData
    <2> QED
      BY <2>1, <2>2
  <1>2. CASE PacketSent \/ WaitForDataReady \/ WaitForDataTimeout \/ NoEvent
    BY <1>0, <1>2 DEF PacketSent, WaitForDataReady, WaitForDataTimeout, NoEvent
  <1>3. ASSUME NEW k \in 0..Units, NEW e \in Errors, ReceivePartly(k, e) PROVE AcksKept'
    BY <1>3 DEF ReceivePartly
  <1>4. ASSUME NEW p \in Incoming, ReceivePacket(p) PROVE AcksKept'
    BY <1>4, IncomingTyped, ReceiveKinds DEF Completes, Ignored, RepliedBy, Received
  <1>5. CASE Connect
    BY <1>5 DEF Connect, OpenConnection, EstablishConnection, SendConnect,
       ConnectAccepted, ConnectInvalidState, ConnectDone, ConnectError,
       StartPacket, CloseConnection
  <1>6. CASE Request
    BY <1>6 DEF Request, StartPublish, StartSubscribe, StartUnsubscribe,
       StartPing, StartRequest, StartPacket, RequestComplete, RequestDone,
       RequestInvalidState, RequestError
  <1>7. CASE Disconnect
    BY <1>7 DEF Disconnect, StartDisconnect, StartPacket, DisconnectSent,
       ShutdownConnection, DisconnectInvalidState, DisconnectDone
  <1>8. CASE (\E c \in CallerCalls : Call(c)) \/ Close \/ Deinit \/ KeepAliveExpires
             \/ UNCHANGED vars
    BY <1>8 DEF Call, Close, Deinit, KeepAliveExpires, CloseConnection, vars
  <1> QED
    BY <1>1, <1>2, <1>3, <1>4, <1>5, <1>6, <1>7, <1>8 DEF Next, ProcessEvents

\* No packet takes the buffer from an acknowledgement before it has left,
\* whatever the caller does (mqtt_client_misc.c:119-142).
THEOREM AcksAreKept == Spec => []AcksKept
  <1>1. Init => AcksKept
    BY DEF Init, AcksKept
  <1> QED
    BY <1>1, StepKeepsAcks, Typed, PTL DEF Spec

LEMMA StepNoLeak == NoLeak /\ [Next]_vars => NoLeak'
  <1> SUFFICES ASSUME NoLeak, [Next]_vars PROVE NoLeak'
    OBVIOUS
  <1> USE DEF NoLeak, context, transport, streams, progress
  <1>1. ASSUME NEW k \in 0..Units, NEW e \in Errors, SendData(k, e) PROVE NoLeak'
    BY <1>1 DEF SendData, PingDue
  <1>2. CASE PacketSent \/ WaitForDataReady \/ WaitForDataTimeout \/ NoEvent
    BY <1>2 DEF PacketSent, WaitForDataReady, WaitForDataTimeout, NoEvent, Resume
  <1>3. ASSUME NEW k \in 0..Units, NEW e \in Errors, ReceivePartly(k, e) PROVE NoLeak'
    BY <1>3 DEF ReceivePartly
  <1>4. ASSUME NEW p \in Incoming, ReceivePacket(p) PROVE NoLeak'
    BY <1>4, IncomingTyped, ReceiveKinds
    DEF Completes, Ignored, RepliedBy, Received, Resume
  <1>5. CASE Connect
    BY <1>5 DEF Connect, OpenConnection, EstablishConnection, SendConnect,
       ConnectAccepted, ConnectInvalidState, ConnectDone, ConnectError,
       StartPacket, CloseConnection
  <1>6. CASE Request
    BY <1>6 DEF Request, StartPublish, StartSubscribe, StartUnsubscribe,
       StartPing, StartRequest, StartPacket, RequestComplete, RequestDone,
       RequestInvalidState, RequestError
  <1>7. CASE Disconnect
    BY <1>7 DEF Disconnect, StartDisconnect, StartPacket, DisconnectSent,
       ShutdownConnection, DisconnectInvalidState, DisconnectDone
  <1>8. CASE (\E c \in CallerCalls : Call(c)) \/ Close \/ Deinit \/ KeepAliveExpires
             \/ UNCHANGED vars
    BY <1>8 DEF Call, Close, Deinit, KeepAliveExpires, CloseConnection, vars
  <1> QED
    BY <1>1, <1>2, <1>3, <1>4, <1>5, <1>6, <1>7, <1>8 DEF Next, ProcessEvents

\* A closed client holds no socket and no TLS context, and one past the
\* handshake holds both, whatever fails (mqtt_client.c:440-540, 1108-1121).
THEOREM NothingLeaks == Spec => []NoLeak
  <1>1. Init => NoLeak
    BY DEF Init, NoLeak
  <1> QED
    BY <1>1, StepNoLeak, PTL DEF Spec

-----------------------------------------------------------------------------
(* A caller that closes the client after an error *)

\* Completes and Matches together answer the request that was asked.
LEMMA MatchAnswers ==
    ASSUME NEW p \in Packets, Matches(p), call.op \in Requests, InRequest,
           state = "RECEIVING_PACKET"
    PROVE  Answers(p, asked)
  BY DEF Matches, InRequest, Answers, Requests

LEMMA StepCall == CloseOnError /\ TypeOK /\ CallInv /\ [Next]_vars => CallInv'
  <1> SUFFICES ASSUME CloseOnError, TypeOK, CallInv, [Next]_vars PROVE CallInv'
    OBVIOUS
  <1> USE DEF CallInv, Ended, Quiet, InRequest, InConnect, InDisconnect, Live,
              Requests, context, transport, streams, progress
  <1>0. /\ call.op \in Requests \cup {"NONE", "CONNECT", "TASK", "DISCONNECT"}
        /\ NoCall.op = "NONE"
    BY DEF TypeOK, Calls, NoCall
  <1>1. ASSUME NEW k \in 0..Units, NEW e \in Errors, SendData(k, e) PROVE CallInv'
    BY <1>0, <1>1 DEF SendData, InProcessEvents, PingDue, OutPacket, Packet,
                      EndOfEvent, Return, Status
  <1>2. CASE PacketSent
    <2>1. NoPacket.type = "NONE"
      BY DEF NoPacket, Packet
    <2>2. call.op \in Requests /\ InRequest => asked' # NoPacket
      BY <1>2, <2>1 DEF PacketSent
    <2>3. call.op \in Requests /\ InRequest => InRequest'
      BY <1>2, <2>2 DEF PacketSent, Resume, EndOfEvent, Status
    <2>4. asked' # asked => packetType = call.op
      BY <1>2 DEF PacketSent
    <2> QED
      BY <1>0, <1>2, <2>3, <2>4 DEF PacketSent, InProcessEvents, Resume,
                                    EndOfEvent, Return, Status
  <1>3. CASE WaitForDataReady \/ WaitForDataTimeout \/ NoEvent
    BY <1>0, <1>3 DEF WaitForDataReady, WaitForDataTimeout, NoEvent,
                      InProcessEvents, EndOfEvent, Return, Status, Running
  <1>4. ASSUME NEW k \in 0..Units, NEW e \in Errors, ReceivePartly(k, e) PROVE CallInv'
    BY <1>0, <1>4 DEF ReceivePartly, InProcessEvents, EndOfEvent, Return, Status
  <1>5. ASSUME NEW p \in Incoming, ReceivePacket(p) PROVE CallInv'
    <2>1. CASE Completes(p) /\ Matches(p)
      BY <1>0, <2>1, IncomingTyped, MatchAnswers
      DEF Completes, Received, InProcessEvents, Matches, EndOfEvent, Return, Status
    <2>2. CASE \E e \in Errors : Ignored(p, e)
      BY <1>0, <2>2
      DEF Ignored, Received, InProcessEvents, Resume, EndOfEvent, Return, Status
    <2>3. CASE \E t \in {"PUBACK", "PUBREC", "PUBREL", "PUBCOMP"} :
                  RepliedBy(Packet(t, p.id)) /\ owed' = Packet(t, p.id)
      BY <1>0, <2>3
      DEF RepliedBy, Received, InProcessEvents, Packet, EndOfEvent, Return, Status
    <2> QED
      BY <1>5, <2>1, <2>2, <2>3, IncomingTyped, ReceiveKinds
  <1>6. CASE Connect
    BY <1>0, <1>6 DEF Connect, OpenConnection, EstablishConnection, SendConnect,
       ConnectAccepted, ConnectInvalidState, ConnectDone, ConnectError,
       StartPacket, CloseConnection, Running, Packet, Return, Status
  <1>7. CASE Request
    <2>1. CASE StartPublish \/ StartSubscribe \/ StartUnsubscribe \/ StartPing
      BY <1>0, <2>1 DEF StartPublish, StartSubscribe, StartUnsubscribe, StartPing,
         StartRequest, StartPacket, Running, Packet, PublishPacket, Status
    <2>2. CASE RequestComplete \/ RequestDone \/ RequestInvalidState \/ RequestError
      BY <1>0, <2>2 DEF RequestComplete, RequestDone, RequestInvalidState,
         RequestError, Return, Status
    <2> QED
      BY <1>7, <2>1, <2>2 DEF Request
  <1>8. CASE Disconnect
    BY <1>0, <1>8 DEF Disconnect, StartDisconnect, StartPacket, DisconnectSent,
       ShutdownConnection, DisconnectInvalidState, DisconnectDone,
       Running, Packet, Return, Status
  <1>9. CASE (\E c \in CallerCalls : Call(c)) \/ Close \/ Deinit
    BY <1>0, <1>9 DEF Call, MayCall, CallerCalls, Calls, Close, Deinit, CloseConnection
  <1>10. CASE KeepAliveExpires \/ UNCHANGED vars
    BY <1>10 DEF KeepAliveExpires, caller, vars
  <1> QED
    BY <1>1, <1>2, <1>3, <1>4, <1>5, <1>6, <1>7, <1>8, <1>9, <1>10
    DEF Next, ProcessEvents

\* What holds of the client under CloseOnError.
ClosingInv == TypeOK /\ Framing /\ CallInv

LEMMA ClosingInvariant == CloseOnError => (Spec => []ClosingInv)
  <1> SUFFICES ASSUME CloseOnError PROVE Spec => []ClosingInv
    OBVIOUS
  <1>1. Init => ClosingInv
    BY InitTyped, InitFramed DEF Init, ClosingInv, CallInv, Ended, NoCall
  <1>2. ClosingInv /\ [Next]_vars => ClosingInv'
    BY StepTyped, StepFramed, StepCall DEF ClosingInv
  <1> QED
    BY <1>1, <1>2, PTL DEF Spec

LEMMA StepEarned == TypeOK /\ CallInv /\ SuccessIsEarned /\ [Next]_vars => SuccessIsEarned'
  <1> SUFFICES ASSUME TypeOK, CallInv, SuccessIsEarned, [Next]_vars
               PROVE  SuccessIsEarned'
    OBVIOUS
  <1> USE DEF SuccessIsEarned
  <1>1. CASE RequestDone
    <2>1. CallInv /\ call.op \in Requests /\ state = "IDLE" /\ packetType # "INVALID"
      BY <1>1 DEF RequestDone
    <2>2. asked # NoPacket /\ (call.wait => answered)
      BY <2>1 DEF CallInv, Ended, Quiet, InRequest
    <2> QED
      BY <1>1, <2>2 DEF RequestDone, Return
  <1>2. CASE RequestError \/ ConnectError \/ ConnectDone \/ DisconnectDone \/ Close \/ Deinit
    BY <1>2 DEF RequestError, ConnectError, ConnectDone, DisconnectDone, Running,
                Return, Close, Deinit, Requests
  <1>3. ASSUME NEW e, EndOfEvent(e) PROVE SuccessIsEarned'
    BY <1>3 DEF EndOfEvent, Return, Status, Requests
  <1>4. CASE ProcessEvents
    <2>1. ASSUME NEW p \in Incoming, ReceivePacket(p) PROVE \E e \in Errors : EndOfEvent(e)
      <3>1. "NO_ERROR" \in Errors
        BY DEF Errors
      <3> QED
        BY <2>1, <3>1, IncomingTyped, ReceiveKinds DEF Completes, Ignored, RepliedBy
    <2> QED
      BY <1>3, <1>4, <2>1 DEF ProcessEvents, SendData, PacketSent, WaitForDataReady,
         WaitForDataTimeout, ReceivePartly, NoEvent
  <1>5. CASE UNCHANGED result
    BY <1>5
  <1>6. CASE Connect
    BY <1>2, <1>5, <1>6 DEF Connect, OpenConnection, EstablishConnection, SendConnect,
       ConnectAccepted, ConnectInvalidState, Status
  <1>7. CASE Request
    BY <1>1, <1>2, <1>5, <1>7 DEF Request, StartPublish, StartSubscribe,
       StartUnsubscribe, StartPing, StartRequest, RequestComplete,
       RequestInvalidState, Status
  <1>8. CASE Disconnect
    BY <1>2, <1>5, <1>8 DEF Disconnect, StartDisconnect, DisconnectSent,
       ShutdownConnection, DisconnectInvalidState, Status
  <1>9. CASE (\E c \in CallerCalls : Call(c)) \/ KeepAliveExpires \/ UNCHANGED vars
    BY <1>5, <1>9 DEF Call, KeepAliveExpires, caller, vars
  <1> QED
    BY <1>2, <1>4, <1>6, <1>7, <1>8, <1>9 DEF Next

\* A request that returns NO_ERROR was sent whole, and answered by the peer if
\* the caller waits for it (mqtt_client.c:560-985).
THEOREM SuccessEarned == CloseOnError => (Spec => []SuccessIsEarned)
  <1>1. Init => SuccessIsEarned
    BY DEF Init, SuccessIsEarned, Requests
  <1>2. ClosingInv /\ SuccessIsEarned /\ [Next]_vars => SuccessIsEarned'
    BY StepEarned DEF ClosingInv
  <1> QED
    BY <1>1, <1>2, ClosingInvariant, PTL DEF Spec

LEMMA StepBye == CloseOnError /\ ClosingInv /\ ByeInv /\ [Next]_vars => ByeInv'
  <1> SUFFICES ASSUME CloseOnError, ClosingInv, ByeInv, [Next]_vars PROVE ByeInv'
    OBVIOUS
  <1> USE UnitsAssumption DEF ClosingInv, ByeInv, context, transport, streams, progress
  <1>0. /\ call.op \in Requests \cup {"NONE", "CONNECT", "TASK", "DISCONNECT"}
        /\ NoCall.op = "NONE" /\ NoWire.bye = FALSE
    BY DEF TypeOK, Calls, NoCall, NoWire
  <1>1. ASSUME NEW k \in 0..Units, NEW e \in Errors, SendData(k, e) PROVE ByeInv'
    <2>1. OutPos \in 0..Units /\ OutPos + k \in 0..Units
      BY <1>1 DEF OutPos, SendData, TypeOK
    <2>2. ~wire.bye
      BY <1>0, <1>1 DEF SendData, InProcessEvents, PingDue, Requests
    <2>3. wire'.bye => OutPos + k = Units /\ OutPacket.type = "DISCONNECT"
      BY <1>1, <2>1, <2>2 DEF SendData, OnWire, NoWire
    <2>4. OutPacket.type = "DISCONNECT" =>
            call.op = "DISCONNECT" /\ packetType = "DISCONNECT"
      BY <1>0, <1>1 DEF SendData, InProcessEvents, OutPacket, PingDue, Packet,
         CallInv, Ended, Quiet, InConnect, InRequest, InDisconnect, Requests
    <2> QED
      BY <1>1, <2>3, <2>4 DEF SendData, EndOfEvent, Status
  <1>2. CASE PacketSent
    BY <1>0, <1>2 DEF PacketSent, InProcessEvents, Resume, EndOfEvent, Status, Requests
  <1>3. CASE WaitForDataReady \/ WaitForDataTimeout \/ NoEvent
    BY <1>0, <1>3 DEF WaitForDataReady, WaitForDataTimeout, NoEvent,
       InProcessEvents, EndOfEvent, Return, Status, Running, Requests
  <1>4. ASSUME NEW k \in 0..Units, NEW e \in Errors, ReceivePartly(k, e) PROVE ByeInv'
    BY <1>4 DEF ReceivePartly
  <1>5. ASSUME NEW p \in Incoming, ReceivePacket(p) PROVE ByeInv'
    BY <1>5, IncomingTyped, ReceiveKinds DEF Completes, Ignored, RepliedBy, Received
  <1>6. CASE Connect
    BY <1>0, <1>6 DEF Connect, OpenConnection, EstablishConnection, SendConnect,
       ConnectAccepted, ConnectInvalidState, ConnectDone, ConnectError,
       CloseConnection, Running, Return, Status
  <1>7. CASE Request
    BY <1>0, <1>7 DEF Request, StartPublish, StartSubscribe, StartUnsubscribe,
       StartPing, StartRequest, RequestComplete, RequestDone,
       RequestInvalidState, RequestError, Running, Return, Status, Requests
  <1>8. CASE Disconnect
    BY <1>0, <1>8 DEF Disconnect, StartDisconnect, DisconnectSent,
       ShutdownConnection, DisconnectInvalidState, DisconnectDone, Running,
       Return, Status
  <1>9. CASE \E c \in CallerCalls : Call(c)
    BY <1>0, <1>9 DEF Call, MayCall
  <1>10. CASE Close \/ Deinit \/ KeepAliveExpires \/ UNCHANGED vars
    BY <1>0, <1>10 DEF Close, Deinit, KeepAliveExpires, CloseConnection, caller, vars
  <1> QED
    BY <1>1, <1>2, <1>3, <1>4, <1>5, <1>6, <1>7, <1>8, <1>9, <1>10
    DEF Next, ProcessEvents

\* Nothing follows a DISCONNECT on the connection (mqtt_client.c:1065-1073).
THEOREM DisconnectIsLast == CloseOnError => (Spec => []SilentAfterDisconnect)
  <1> SUFFICES ASSUME CloseOnError PROVE Spec => []SilentAfterDisconnect
    OBVIOUS
  <1>1. Init => ByeInv
    BY DEF Init, ByeInv, NoWire
  <1>2. ClosingInv /\ ByeInv /\ [Next]_vars => ByeInv'
    BY StepBye
  <1>3. ByeInv => SilentAfterDisconnect
    BY UnitsAssumption DEF ByeInv, SilentAfterDisconnect, InProcessEvents, PingDue, Requests
  <1> QED
    BY <1>1, <1>2, <1>3, ClosingInvariant, PTL DEF Spec

-----------------------------------------------------------------------------
(* What the task calls, and what travels *)

Owned == {"CONNECT", "SUBSCRIBE", "PUBLISH"}
Replies == {"CONNACK", "SUBACK", "PUBACK"}

\* The call in progress is the one of the place the task is at.
CallOfPlace ==
    \/ call = NoCall
    \/ at = "connecting" /\ call = ConnectCall
    \/ at = "subscribing" /\ call = SubscribeCall
    \/ at = "announcing" /\ call = PublishCall("online")
    \/ at = "publishing" /\ call = PublishCall(buttonState)
    \/ at = "task" /\ call = TaskCall

\* The state of the client at a place of the task.
PlaceInv ==
    /\ CallOfPlace
    /\ connectionState <=> at \in {"publishing", "task"} \/ (at = "loop" /\ connectionState)
    /\ at = "loop" /\ ~connectionState => state = "CLOSED"
    /\ at = "delay" => state = "CLOSED"
    /\ packetType \in Owned \cup {"INVALID"}
    /\ state \notin {"DISCONNECTING", "DISCONNECTED"}
    /\ call.op = "CONNECT" =>
          \/ state \in {"CLOSED", "CONNECTING", "CONNECTED", "IDLE"}
          \/ packetType = "CONNECT"

\* What the client sends, and what the broker sends.
Upward(p) ==
    /\ p.type \in Owned \cup {"PUBACK", "PINGREQ"}
    /\ p.type = "PUBACK" => p = Packet("PUBACK", p.id)
Downward(p) ==
    /\ p \in Incoming
    /\ p.type \in Replies \cup {"PINGRESP", "PUBLISH"}
    /\ p.type = "PUBLISH" => p.qos \in {0, 1}

\* What is in the two directions and in the buffer.
PacketsInv ==
    /\ \A i \in DOMAIN up : Upward(up[i])
    /\ \A i \in DOMAIN down : Downward(down[i].pkt)
    /\ net # "ok" => up = <<>>
    /\ state \in {"CLOSED", "CONNECTING"} => net = "none" /\ up = <<>> /\ down = <<>>
    /\ state = "SENDING_PACKET" => Upward(buffer)

-----------------------------------------------------------------------------
(* Requests and their answers *)

Asking(i) == i \in DOMAIN up /\ up[i].type \in Owned
Replying(i) == i \in DOMAIN down /\ down[i].pkt.type \in Replies

\* A request is in the buffer and has not left it whole.
InBuffer(type) ==
    state = "SENDING_PACKET" /\ buffer.type = type /\ packetPos < Units

NotAsked == packetType = "INVALID" \/ state = "CONNECTED" \/ InBuffer(packetType)

\* The request of a call of the task is still to be sent.
Starting ==
    state \in {"CLOSED", "CONNECTING", "CONNECTED"} \/ \E type \in Owned : InBuffer(type)

\* The answer has come.
Got ==
    \/ state = "PACKET_RECEIVED"
    \/ answered
    \/ call.op = "CONNECT" /\ state = "IDLE"

\* What the answer to the request in progress says of the broker.
Granted ==
    call # NoCall =>
        /\ packetType = "CONNECT" /\ net = "ok" => session
        /\ packetType = "SUBSCRIBE" /\ net = "ok" => subscribeSeen
        /\ packetType = "PUBLISH" /\ net = "ok" /\ call.msg = "online" => announced
        /\ packetType = "PUBLISH" /\ call.msg \in Buttons => retainedButton = call.msg

OneRequest ==
    /\ \A i, j : Asking(i) /\ Asking(j) => i = j
    /\ \A i, j : Replying(i) /\ Replying(j) => i = j
    /\ \A i, j : ~(Asking(i) /\ Replying(j))
    /\ NotAsked \/ Got => \A i : ~Asking(i) /\ ~Replying(i)

\* p is the request of the call.
OfCall(p) ==
    /\ p.type = packetType
    /\ call # NoCall /\ p.type = "PUBLISH" => p.msg = call.msg

RequestInv ==
    /\ OneRequest
    /\ \A i : Asking(i) => OfCall(up[i])
    /\ state = "SENDING_PACKET" /\ buffer.type \in Owned => OfCall(buffer)
    /\ Got \/ (\E i : Replying(i)) => Granted
    /\ call.op = "CONNECT" /\ state = "IDLE" /\ net = "ok" => session
    /\ Starting /\ call # NoCall => ~answered

-----------------------------------------------------------------------------
(* The session and the stages of the connection *)

SessionInv ==
    /\ net = "ok" /\ (state = "CONNECTED" \/ InBuffer("CONNECT")) =>
          up = <<>> /\ down = <<>> /\ ~session
    /\ \A i \in DOMAIN up : up[i].type = "CONNECT" => i = 1 /\ ~session
    /\ net = "ok" /\ ~session =>
          IF up = <<>> THEN state = "CONNECTED" \/ InBuffer("CONNECT")
          ELSE up[1].type = "CONNECT"

StageInv ==
    /\ net = "ok" =>
          /\ \/ at \in {"subscribing", "announcing"} \/ connectionState
             \/ Succeeded("connecting")
             => session
          /\ at = "announcing" \/ connectionState \/ Succeeded("subscribing")
             => subscribeSeen
          /\ connectionState \/ Succeeded("announcing") => announced
    /\ Succeeded("publishing") => retainedButton = buttonState

-----------------------------------------------------------------------------
(* Acknowledgements of the messages for the LED *)

\* Packets that carry identifier id of such a message.
Arriving(i, id) ==
    /\ i \in DOMAIN down
    /\ down[i].pkt.type = "PUBLISH" /\ down[i].pkt.qos = 1 /\ down[i].pkt.id = id
Leaving(i, id) == i \in DOMAIN up /\ up[i] = Packet("PUBACK", id)
InHand(id) == owed = Packet("PUBACK", id)

\* An identifier is at one place exactly when the broker waits for it.
OnePlace(id) ==
    /\ \A i, j : Arriving(i, id) /\ Arriving(j, id) => i = j
    /\ \A i, j : Leaving(i, id) /\ Leaving(j, id) => i = j
    /\ \A i, j : ~(Arriving(i, id) /\ Leaving(j, id))
    /\ InHand(id) => \A i : ~Arriving(i, id) /\ ~Leaving(i, id)
    /\ id \in ledInFlight <=>
          InHand(id) \/ (\E i : Arriving(i, id)) \/ (\E i : Leaving(i, id))

LedInv ==
    /\ owed = NoPacket \/ \E id \in PacketIds : InHand(id)
    /\ InBuffer("PUBACK") => owed = buffer
    /\ net = "ok" => \A id \in PacketIds : OnePlace(id)

AppInv ==
    /\ AppTypeOK /\ Framing /\ CallInv /\ AcksKept
    /\ PlaceInv /\ PacketsInv /\ RequestInv /\ SessionInv /\ StageInv /\ LedInv

-----------------------------------------------------------------------------
(* Sequences *)

LEMMA AppendElements ==
    ASSUME NEW S, NEW s \in Seq(S), NEW x \in S
    PROVE  /\ Append(s, x) \in Seq(S)
           /\ Append(s, x) # <<>>
           /\ Len(s) \in Nat /\ DOMAIN s = 1 .. Len(s)
           /\ DOMAIN Append(s, x) = 1 .. Len(s) + 1
           /\ \A i \in 1 .. Len(s) : Append(s, x)[i] = s[i]
           /\ Append(s, x)[Len(s) + 1] = x
  OBVIOUS

LEMMA TailElements ==
    ASSUME NEW S, NEW s \in Seq(S), s # <<>>
    PROVE  /\ Tail(s) \in Seq(S)
           /\ Len(s) \in Nat \ {0} /\ DOMAIN s = 1 .. Len(s)
           /\ Head(s) = s[1]
           /\ DOMAIN Tail(s) = 1 .. Len(s) - 1
           /\ \A i \in 1 .. Len(s) - 1 : Tail(s)[i] = s[i + 1]
           /\ Head(s) \in S
  OBVIOUS

LEMMA PrefixElements ==
    ASSUME NEW S, NEW s \in Seq(S), NEW n \in 0 .. Len(s)
    PROVE  /\ SubSeq(s, 1, n) \in Seq(S)
           /\ Len(s) \in Nat /\ DOMAIN s = 1 .. Len(s)
           /\ DOMAIN SubSeq(s, 1, n) = 1 .. n
           /\ \A i \in 1 .. n : SubSeq(s, 1, n)[i] = s[i]
  OBVIOUS

LEMMA ReplaceElement ==
    ASSUME NEW S, NEW s \in Seq(S), NEW n \in 1 .. Len(s), NEW x \in S
    PROVE  /\ [s EXCEPT ![n] = x] \in Seq(S)
           /\ DOMAIN [s EXCEPT ![n] = x] = DOMAIN s
           /\ DOMAIN s = 1 .. Len(s)
           /\ \A i \in 1 .. Len(s) : [s EXCEPT ![n] = x][i] = IF i = n THEN x ELSE s[i]
  <1>1. s \in [1 .. Len(s) -> S] /\ Len(s) \in Nat
    OBVIOUS
  <1>2. [s EXCEPT ![n] = x] \in [1 .. Len(s) -> S]
    BY <1>1
  <1> QED
    BY <1>1, <1>2

-----------------------------------------------------------------------------
(* A step of the composition is a step of the client *)

LEMMA CallsAllowed ==
    /\ ConnectCall \in CallerCalls /\ TaskCall \in CallerCalls
    /\ SubscribeCall \in CallerCalls
    /\ \A m \in {"online"} \cup Buttons : PublishCall(m) \in CallerCalls
  <1> USE DEF ConnectCall, TaskCall, SubscribeCall, PublishCall, NoCall, Calls,
              Requests, QoS
  <1>1. ConnectCall \in CallerCalls /\ TaskCall \in CallerCalls
    <2>1. ConnectCall \in Calls /\ TaskCall \in Calls
      <3>1. \A c \in Calls, op \in {"CONNECT", "TASK"} : [c EXCEPT !.op = op] \in Calls
        OBVIOUS
      <3>2. NoCall \in Calls
        OBVIOUS
      <3> QED
        BY <3>1, <3>2, Zenon DEF ConnectCall, TaskCall
    <2>2. /\ ConnectCall.op = "CONNECT" /\ TaskCall.op = "TASK"
          /\ \A c \in {ConnectCall, TaskCall} :
                ~c.wait /\ c.fits /\ c.msg = NoMsg /\ c.qos = 0
      OBVIOUS
    <2> QED
      BY <2>1, <2>2 DEF CallerCalls
  <1>2. SubscribeCall \in CallerCalls
    <2>1. SubscribeCall \in Calls
      <3>1. \A c \in Calls :
               [c EXCEPT !.op = "SUBSCRIBE", !.wait = TRUE] \in Calls
        OBVIOUS
      <3>2. NoCall \in Calls
        OBVIOUS
      <3> QED
        BY <3>1, <3>2, Zenon DEF SubscribeCall
    <2>2. SubscribeCall.op = "SUBSCRIBE" /\ SubscribeCall.msg = NoMsg /\ SubscribeCall.qos = 0
      OBVIOUS
    <2> QED
      BY <2>1, <2>2 DEF CallerCalls
  <1>3. ASSUME NEW m \in {"online"} \cup Buttons PROVE PublishCall(m) \in CallerCalls
    <2>1. m \in Msgs
      BY TaskAssumption
    <2>2. PublishCall(m) \in Calls
      BY <2>1
    <2> QED
      BY <2>1, <2>2 DEF CallerCalls
  <1> QED
    BY <1>1, <1>2, <1>3

LEMMA ClientStepAllowed ==
    ASSUME AppTypeOK, PacketsInv, ClientStep
    PROVE  Next
  <1>1. CASE LocalStep
    BY <1>1 DEF LocalStep, Next, ProcessEvents, Connect, Request
  <1>2. CASE ConnectStep
    BY <1>2 DEF ConnectStep, Next, Connect
  <1>3. CASE SendStep
    BY <1>3 DEF SendStep, Next, ProcessEvents
  <1>4. CASE WaitStep
    BY <1>4 DEF WaitStep, Next, ProcessEvents
  <1>5. CASE ReceiveStep
    <2>1. CASE down # <<>> /\ ReceivePacket(Head(down).pkt)
      <3>1. Head(down).pkt \in Incoming
        BY <2>1, TailElements DEF PacketsInv, Downward, AppTypeOK
      <3> QED
        BY <2>1, <3>1 DEF Next, ProcessEvents
    <2>2. CASE \E k \in 0..Units, e \in {"TIMEOUT", "FAILURE"} : ReceivePartly(k, e)
      BY <2>2 DEF Next, ProcessEvents, Errors
    <2> QED
      BY <1>5, <2>1, <2>2 DEF ReceiveStep
  <1> QED
    BY <1>1, <1>2, <1>3, <1>4, <1>5 DEF ClientStep

LEMMA StepAllowed ==
    ASSUME AppTypeOK, PacketsInv, [AppNext]_appVars
    PROVE  [Next]_vars
  <1>1. CASE ClientStep
    BY <1>1, ClientStepAllowed
  <1>2. CASE AppStep
    <2>1. button \in Buttons /\ buttonState \in Buttons
      BY DEF AppTypeOK
    <2> QED
      BY <1>2, <2>1, CallsAllowed
      DEF AppStep, TryConnect, Subscribe, Announce, Connected, CloseAndPause, DelayOver,
          PollButton, ButtonSent, TaskDone, CallAt, Next
  <1>3. CASE PressButton \/ LinkUp \/ LinkDown \/ SilentLoss \/ Reset \/ TcpGiveUp
             \/ BrokerStep \/ BrokerRefuse \/ SendLedMessage
    BY <1>3 DEF PressButton, LinkUp, LinkDown, SilentLoss, Reset, TcpGiveUp, BrokerStep,
                BrokerRefuse, SendLedMessage
  <1>4. CASE TimePasses
    BY <1>4 DEF TimePasses, Next
  <1>5. CASE UNCHANGED appVars
    BY <1>5 DEF appVars
  <1> QED
    BY <1>1, <1>2, <1>3, <1>4, <1>5 DEF AppNext

-----------------------------------------------------------------------------
(* Types *)

\* The part of AppTypeOK that is not the client's.
EnvTypeOK ==
    /\ at \in Places
    /\ connectionState \in BOOLEAN
    /\ {buttonState, prevButtonState, button, retainedButton} \subseteq Buttons
    /\ link \in BOOLEAN
    /\ net \in {"none", "ok", "dead", "reset"}
    /\ unacked \in BOOLEAN
    /\ up \in Seq(Packets)
    /\ down \in Seq(Deliveries)
    /\ {session, subscribed, subscribeSeen, announced} \subseteq BOOLEAN
    /\ ledInFlight \subseteq PacketIds
    /\ faults \in 0..MaxFaults /\ presses \in 0..MaxPresses /\ ledMsgs \in 0..MaxLedMsgs

LEMMA AppTypes == AppTypeOK <=> TypeOK /\ EnvTypeOK
  BY DEF AppTypeOK, EnvTypeOK

LEMMA Counted ==
    ASSUME EnvTypeOK, Fault \/ NoFault
    PROVE  faults' \in 0..MaxFaults
  BY BoundsAssumption DEF EnvTypeOK, Fault, NoFault

LEMMA EmptyTyped == <<>> \in Seq(Packets) /\ <<>> \in Seq(Deliveries)
  OBVIOUS

LEMMA OutPacketTyped == TypeOK => OutPacket \in Packets
  BY PacketTyped, ZeroIsPacketId DEF TypeOK, OutPacket, PacketTypes, Requests

LEMMA AnswerTyped ==
    ASSUME EnvTypeOK, NEW p \in Packets, Answer(p)
    PROVE  down' \in Seq(Deliveries)
  <1>1. [pkt |-> p, whole |-> TRUE] \in Deliveries
    BY DEF Deliveries
  <1> QED
    BY <1>1, AppendElements DEF Answer, EnvTypeOK

LEMMA EndSessionTyped ==
    ASSUME EnvTypeOK, EndSession
    PROVE  /\ {session', subscribed', subscribeSeen', announced'} \subseteq BOOLEAN
           /\ ledInFlight' \subseteq PacketIds /\ retainedButton' \in Buttons
  BY DEF EndSession, EnvTypeOK

LEMMA LoseTailTyped ==
    ASSUME EnvTypeOK, LoseTail
    PROVE  unacked' \in BOOLEAN /\ up' \in Seq(Packets) /\ down' \in Seq(Deliveries)
  <1>1. PICK n \in 0 .. Len(down) :
          \/ down' = SubSeq(down, 1, n)
          \/ n > 0 /\ down' = [SubSeq(down, 1, n) EXCEPT ![n].whole = FALSE]
    BY DEF LoseTail
  <1>2. SubSeq(down, 1, n) \in Seq(Deliveries)
    BY PrefixElements DEF EnvTypeOK
  <1>3. ASSUME n > 0
        PROVE  [SubSeq(down, 1, n) EXCEPT ![n].whole = FALSE] \in Seq(Deliveries)
    <2> DEFINE s == SubSeq(down, 1, n)
    <2>1. n \in 1 .. Len(s) /\ s[n] \in Deliveries
      BY <1>2, <1>3, PrefixElements DEF EnvTypeOK
    <2>2. [s[n] EXCEPT !.whole = FALSE] \in Deliveries
      BY <2>1 DEF Deliveries
    <2>3. [s EXCEPT ![n] = [s[n] EXCEPT !.whole = FALSE]] \in Seq(Deliveries)
      BY <1>2, <2>1, <2>2, ReplaceElement
    <2> QED
      BY <2>3, Zenon
  <1>4. down' \in Seq(Deliveries)
    BY <1>1, <1>2, <1>3
  <1> QED
    BY <1>4, EmptyTyped, Zenon DEF LoseTail

LEMMA ClientStepTyped ==
    ASSUME AppTypeOK, ClientStep
    PROVE  EnvTypeOK'
  <1> USE AppTypes DEF EnvTypeOK, ClientStep, task, network, broker
  <1>1. Fault \/ NoFault => faults' \in 0..MaxFaults
    BY Counted
  <1>2. CASE LocalStep
    BY <1>1, <1>2 DEF LocalStep
  <1>3. CASE ConnectStep
    BY <1>1, <1>3, EmptyTyped, EndSessionTyped DEF ConnectStep, Disconnected
  <1>4. CASE SendStep
    <2>1. Append(up, OutPacket) \in Seq(Packets)
      BY OutPacketTyped, AppendElements
    <2> QED
      BY <1>1, <1>4, <2>1 DEF SendStep
  <1>5. CASE WaitStep
    BY <1>1, <1>5 DEF WaitStep
  <1>6. CASE ReceiveStep
    <2>1. down # <<>> => Tail(down) \in Seq(Deliveries)
      BY TailElements
    <2> QED
      BY <1>1, <1>6, <2>1 DEF ReceiveStep
  <1> QED
    BY <1>2, <1>3, <1>4, <1>5, <1>6

LEMMA AppStepTyped ==
    ASSUME AppTypeOK, AppStep
    PROVE  EnvTypeOK'
  <1> USE AppTypes DEF EnvTypeOK, Places, task, network, broker
  <1>1. Fault \/ NoFault => faults' \in 0..MaxFaults
    BY Counted
  <1>2. CASE CloseAndPause
    BY <1>1, <1>2, EmptyTyped, EndSessionTyped DEF AppStep, CloseAndPause, Disconnected
  <1>3. CASE TryConnect \/ Subscribe \/ Announce \/ Connected \/ DelayOver
             \/ PollButton \/ ButtonSent \/ TaskDone
    BY <1>1, <1>3 DEF AppStep, TryConnect, Subscribe, Announce, Connected, DelayOver,
       PollButton, ButtonSent, TaskDone, CallAt
  <1> QED
    BY <1>2, <1>3 DEF AppStep

LEMMA BrokerStepTyped ==
    ASSUME AppTypeOK, BrokerStep
    PROVE  EnvTypeOK'
  <1> USE AppTypes DEF EnvTypeOK, task, network, broker
  <1> DEFINE p == Head(up)
  <1>1. p \in Packets /\ up' \in Seq(Packets)
    BY TailElements DEF BrokerStep
  <1>2. p.id \in PacketIds
    BY <1>1 DEF Packets
  <1>3. \A t \in {"CONNACK", "SUBACK", "PUBACK", "PINGRESP"}, i \in {0, p.id}, b \in BOOLEAN :
          Packet(t, i) \in Packets /\ [Packet(t, i) EXCEPT !.ok = b] \in Packets
    BY <1>2, ZeroIsPacketId DEF Packet, Packets, PacketTypes, QoS
  <1>4. Fault \/ NoFault => faults' \in 0..MaxFaults
    BY Counted
  <1>5. /\ UNCHANGED <<task, button, link, net, unacked, presses, ledMsgs>>
        /\ BrokerConnect(p) \/ BrokerSubscribe(p) \/ BrokerPublish(p)
           \/ BrokerPubAck(p) \/ BrokerPing(p)
    BY DEF BrokerStep
  <1>6. CASE BrokerConnect(p)
    BY <1>1, <1>3, <1>4, <1>5, <1>6, AnswerTyped DEF BrokerConnect
  <1>7. CASE BrokerSubscribe(p)
    <2>1. PICK granted \in BOOLEAN :
             /\ Answer([Packet("SUBACK", p.id) EXCEPT !.ok = granted])
             /\ subscribed' = granted /\ (Fault \/ NoFault)
      BY <1>7 DEF BrokerSubscribe
    <2>2. down' \in Seq(Deliveries)
      BY <1>3, <2>1, AnswerTyped
    <2> QED
      BY <1>1, <1>4, <1>5, <1>7, <2>1, <2>2 DEF BrokerSubscribe
  <1>8. CASE BrokerPublish(p)
    <2>1. (announced \/ p.msg = "online") \in BOOLEAN
      BY Zenon
    <2> QED
      BY <1>1, <1>3, <1>4, <1>5, <1>8, <2>1, AnswerTyped DEF BrokerPublish
  <1>9. CASE BrokerPubAck(p)
    BY <1>1, <1>4, <1>5, <1>9 DEF BrokerPubAck
  <1>10. CASE BrokerPing(p)
    BY <1>1, <1>3, <1>4, <1>5, <1>10, AnswerTyped DEF BrokerPing
  <1> QED
    BY <1>5, <1>6, <1>7, <1>8, <1>9, <1>10

LEMMA OtherStepTyped ==
    ASSUME AppTypeOK,
           \/ PressButton \/ LinkUp \/ LinkDown \/ SilentLoss \/ Reset \/ TcpGiveUp
           \/ BrokerRefuse \/ SendLedMessage \/ TimePasses \/ UNCHANGED appVars
    PROVE  EnvTypeOK'
  <1> USE AppTypes DEF EnvTypeOK, task, network, broker, counters
  <1>1. Fault \/ NoFault => faults' \in 0..MaxFaults
    BY Counted
  <1>2. CASE PressButton
    BY <1>2, BoundsAssumption DEF PressButton
  <1>3. CASE LinkUp \/ TcpGiveUp \/ TimePasses
    BY <1>3 DEF LinkUp, TcpGiveUp, TimePasses
  <1>4. CASE LinkDown \/ SilentLoss
    BY <1>1, <1>4, LoseTailTyped, EndSessionTyped DEF LinkDown, SilentLoss
  <1>5. CASE Reset
    BY <1>1, <1>5, EmptyTyped, EndSessionTyped DEF Reset
  <1>6. CASE BrokerRefuse
    <2>1. [Packet("CONNACK", 0) EXCEPT !.ok = FALSE] \in Packets
      <3>1. Packet("CONNACK", 0) \in Packets
        BY PacketTyped, ZeroIsPacketId DEF PacketTypes
      <3> QED
        BY <3>1 DEF Packets
    <2> QED
      BY <1>1, <1>6, <2>1, AnswerTyped, EmptyTyped DEF BrokerRefuse
  <1>7. CASE SendLedMessage
    <2>1. \A i \in PacketIds \cup {0}, q \in {0, 1} : PublishPacket(i, q, NoMsg) \in Packets
      BY PublishTyped, ZeroIsPacketId DEF QoS
    <2>2. down' \in Seq(Deliveries) /\ ledInFlight' \subseteq PacketIds
      BY <1>7, <2>1, AnswerTyped DEF SendLedMessage
    <2> QED
      BY <1>7, <2>2, BoundsAssumption DEF SendLedMessage
  <1>8. CASE UNCHANGED appVars
    BY <1>8 DEF appVars
  <1> QED
    BY <1>2, <1>3, <1>4, <1>5, <1>6, <1>7, <1>8

LEMMA StepAppTyped ==
    ASSUME AppTypeOK, Framing, PacketsInv, [AppNext]_appVars
    PROVE  AppTypeOK'
  <1>1. TypeOK'
    BY AppTypes, StepAllowed, StepTyped
  <1>2. EnvTypeOK'
    BY ClientStepTyped, AppStepTyped, BrokerStepTyped, OtherStepTyped DEF AppNext
  <1> QED
    BY <1>1, <1>2 DEF AppTypeOK, EnvTypeOK

-----------------------------------------------------------------------------
(* The task and its client *)

LEMMA CallFields ==
    /\ NoCall.op = "NONE" /\ ConnectCall.op = "CONNECT" /\ TaskCall.op = "TASK"
    /\ SubscribeCall.op = "SUBSCRIBE" /\ SubscribeCall.wait
    /\ \A m : /\ PublishCall(m).op = "PUBLISH" /\ PublishCall(m).wait
              /\ PublishCall(m).msg = m /\ PublishCall(m).qos = 1
    /\ ConnectCall.fits /\ SubscribeCall.fits /\ \A m : PublishCall(m).fits
  BY DEF NoCall, ConnectCall, TaskCall, SubscribeCall, PublishCall

\* The calls of the task, and where it makes them.
LEMMA CallPlaces ==
    ASSUME CallOfPlace
    PROVE  /\ call = NoCall <=> call.op = "NONE"
           /\ call.op \in {"NONE", "CONNECT", "TASK", "SUBSCRIBE", "PUBLISH"}
           /\ call.op = "CONNECT" => at = "connecting"
           /\ call.op = "SUBSCRIBE" => at = "subscribing" /\ call.wait /\ call.fits
           /\ call.op = "PUBLISH" =>
                 /\ call.wait /\ call.fits
                 /\ \/ at = "announcing" /\ call.msg = "online"
                    \/ at = "publishing" /\ call.msg = buttonState
           /\ call.op = "TASK" => at = "task"
           /\ call.op = "CONNECT" => call.fits
  BY CallFields DEF CallOfPlace

\* A call goes on, or it is over.
CallKept == call' \in {call, NoCall}

LEMMA EndOfEventCall ==
    ASSUME NEW e, EndOfEvent(e) \/ Status(e) \/ Return(e)
    PROVE  CallKept
  BY DEF EndOfEvent, Status, Return, CallKept

LEMMA ReceiveStates ==
    ASSUME NEW p \in Packets, ReceivePacket(p)
    PROVE  /\ InProcessEvents /\ state = "RECEIVING_PACKET" /\ CallKept
           /\ UNCHANGED <<packetType, packetId, asked>>
           /\ \/ state' = "PACKET_RECEIVED" /\ packetType # "INVALID"
              \/ state' = "IDLE" /\ packetType = "INVALID"
              \/ state' = "PACKET_SENT" /\ packetType # "INVALID"
              \/ /\ state' = "SENDING_PACKET"
                 /\ buffer'.type \in {"PUBACK", "PUBREC", "PUBREL", "PUBCOMP"}
  <1>1. CASE Completes(p) /\ Matches(p)
    BY <1>1, EndOfEventCall DEF Completes, Received, Matches
  <1>2. CASE \E e \in Errors : Ignored(p, e)
    BY <1>2, EndOfEventCall DEF Ignored, Received, Resume
  <1>3. CASE \E t \in {"PUBACK", "PUBREC", "PUBREL", "PUBCOMP"} :
                RepliedBy(Packet(t, p.id)) /\ owed' = Packet(t, p.id)
    BY <1>3, EndOfEventCall DEF RepliedBy, Received, Packet
  <1> QED
    BY <1>1, <1>2, <1>3, ReceiveKinds

LEMMA HeadReceived ==
    ASSUME AppTypeOK, PacketsInv, down # <<>>
    PROVE  /\ Head(down).pkt \in Packets /\ Downward(Head(down).pkt)
           /\ Head(down) = down[1] /\ 1 \in DOMAIN down
  BY TailElements, IncomingTyped DEF AppTypeOK, PacketsInv, Downward

LEMMA LocalPlace ==
    ASSUME AppTypeOK, CallInv, PlaceInv, LocalStep \/ ConnectStep, UNCHANGED task
    PROVE  PlaceInv'
  <1> USE CallPlaces, CallFields DEF PlaceInv, CallOfPlace, CallKept, task, context
  <1>1. CASE PacketSent \/ NoEvent
    BY <1>1, EndOfEventCall
    DEF PacketSent, NoEvent, Resume, InProcessEvents, Running, Owned, Requests,
        CallInv, Quiet, Ended, InConnect, InRequest, Live
  <1>2. CASE OpenConnection \/ SendConnect \/ ConnectAccepted \/ ConnectDone
    BY <1>2, EndOfEventCall
    DEF OpenConnection, SendConnect, ConnectAccepted, ConnectDone, Running, StartPacket, Owned
  <1>3. CASE StartPublish \/ StartSubscribe
    BY <1>3, EndOfEventCall
    DEF StartPublish, StartSubscribe, StartRequest, StartPacket, Running, Owned
  <1>4. CASE RequestComplete \/ RequestDone \/ RequestError
    BY <1>4, EndOfEventCall
    DEF RequestComplete, RequestDone, RequestError, Requests, Owned
  <1>5. CASE ConnectStep
    BY <1>5, EndOfEventCall
    DEF ConnectStep, EstablishConnection, ConnectError, Running
  <1> QED
    BY <1>1, <1>2, <1>3, <1>4, <1>5 DEF LocalStep

LEMMA TransferPlace ==
    ASSUME AppTypeOK, CallInv, PlaceInv, PacketsInv,
           SendStep \/ WaitStep \/ ReceiveStep, UNCHANGED task
    PROVE  PlaceInv'
  <1> USE CallPlaces, CallFields DEF PlaceInv, CallOfPlace, CallKept, task, context
  <1>1. CASE SendStep
    <2>1. PICK k \in 0..Units, e \in Errors : SendData(k, e)
      BY <1>1 DEF SendStep
    <2> QED
      BY <2>1, EndOfEventCall
      DEF SendData, InProcessEvents, PingDue, Requests, Owned, CallInv, Quiet, Ended,
          InConnect, InRequest, Live
  <1>2. CASE WaitStep
    BY <1>2, EndOfEventCall
    DEF WaitStep, WaitForDataReady, WaitForDataTimeout, InProcessEvents, Requests,
        Owned, CallInv, Quiet, Ended, InConnect, InRequest, Live
  <1>3. CASE ReceiveStep
    <2>1. CASE down # <<>> /\ ReceivePacket(Head(down).pkt)
      BY <2>1, HeadReceived, ReceiveStates DEF InProcessEvents
    <2>2. CASE \E k \in 0..Units, e \in {"TIMEOUT", "FAILURE"} : ReceivePartly(k, e)
      BY <2>2, EndOfEventCall DEF ReceivePartly
    <2> QED
      BY <1>3, <2>1, <2>2 DEF ReceiveStep
  <1> QED
    BY <1>1, <1>2, <1>3

LEMMA StepPlace ==
    ASSUME AppTypeOK, CallInv, PlaceInv, PacketsInv, [AppNext]_appVars
    PROVE  PlaceInv'
  <1>1. CASE ClientStep
    BY <1>1, LocalPlace, TransferPlace DEF ClientStep
  <1>2. CASE AppStep
    BY <1>2, CallFields, CallPlaces
    DEF AppStep, TryConnect, Subscribe, Announce, Connected, CloseAndPause, DelayOver,
        PollButton, ButtonSent, TaskDone, CallAt, Call, Close, Succeeded, Failed,
        PlaceInv, CallOfPlace, vars, context, caller
  <1>3. CASE PressButton \/ LinkUp \/ LinkDown \/ SilentLoss \/ Reset \/ TcpGiveUp
             \/ BrokerStep \/ BrokerRefuse \/ SendLedMessage \/ TimePasses
             \/ UNCHANGED appVars
    <2>1. UNCHANGED <<call, state, packetType, task>>
      BY <1>3 DEF PressButton, LinkUp, LinkDown, SilentLoss, Reset, TcpGiveUp, BrokerStep,
         BrokerRefuse, SendLedMessage, TimePasses, KeepAliveExpires, appVars, vars,
         context, caller
    <2> QED
      BY <2>1 DEF PlaceInv, CallOfPlace, task
  <1> QED
    BY <1>1, <1>2, <1>3 DEF AppNext

-----------------------------------------------------------------------------
(* What travels *)

\* What the client makes of a packet of this broker.
LEMMA ReceiveFromBroker ==
    ASSUME NEW p \in Packets, Downward(p), ReceivePacket(p)
    PROVE  \/ /\ Completes(p) /\ packetType # "INVALID"
              /\ p.type \in Replies \/ packetType = "PINGREQ"
              /\ p.type # "PUBLISH"
           \/ /\ \E e \in Errors : Ignored(p, e)
              /\ ~(p.type = "PUBLISH" /\ p.qos = 1)
           \/ /\ p.type = "PUBLISH" /\ p.qos = 1
              /\ RepliedBy(Packet("PUBACK", p.id)) /\ owed' = Packet("PUBACK", p.id)
  <1>1. "NO_ERROR" \in Errors /\ "FAILURE" \in Errors
    BY DEF Errors
  <1>2. CASE ProcessPublish(p)
    <2>1. p.type = "PUBLISH" /\ (p.qos = 0 \/ p.qos = 1)
      BY <1>2 DEF ProcessPublish, Downward
    <2>2. CASE p.qos = 0
      BY <1>1, <1>2, <2>2 DEF ProcessPublish
    <2>3. CASE p.qos = 1
      BY <1>2, <2>1, <2>3 DEF ProcessPublish
    <2> QED
      BY <2>1, <2>2, <2>3
  <1>3. CASE \/ ProcessConnAck(p) \/ ProcessPubAck(p) \/ ProcessSubAck(p)
             \/ ProcessPingResp(p)
    BY <1>1, <1>3 DEF ProcessConnAck, ProcessPubAck, ProcessSubAck, ProcessPingResp, Replies
  <1>4. ~ (\/ ProcessPubRec(p) \/ ProcessPubRel(p) \/ ProcessPubComp(p)
           \/ ProcessUnsubAck(p) \/ ProcessUnknown(p))
    <2>1. p.type \notin {"PUBREC", "PUBREL", "PUBCOMP", "UNSUBACK", "INVALID"}
      BY DEF Downward, Replies
    <2> QED
      BY <2>1 DEF ProcessPubRec, ProcessPubRel, ProcessPubComp, ProcessUnsubAck,
                  ProcessUnknown
  <1> QED
    BY <1>2, <1>3, <1>4 DEF ReceivePacket

LEMMA PubAckUpward == \A id : Upward(Packet("PUBACK", id))
  BY DEF Upward, Packet

LEMMA PingReqUpward == Upward(Packet("PINGREQ", 0))
  BY DEF Upward, Packet

LEMMA OwnedUpward == \A p : p.type \in Owned => Upward(p)
  BY DEF Upward, Owned

LEMMA AnswersDownward ==
    /\ \A b \in BOOLEAN : Downward([Packet("CONNACK", 0) EXCEPT !.ok = b])
    /\ Downward(Packet("CONNACK", 0))
    /\ \A i \in PacketIds, b \in BOOLEAN : Downward([Packet("SUBACK", i) EXCEPT !.ok = b])
    /\ \A i \in PacketIds : Downward(Packet("PUBACK", i))
    /\ Downward(Packet("PINGRESP", 0))
    /\ \A i \in PacketIds, q \in {0, 1} : Downward(PublishPacket(i, q, NoMsg))
  <1> USE DEF Downward, Replies
  <1>1. ASSUME NEW b \in BOOLEAN PROVE Downward([Packet("CONNACK", 0) EXCEPT !.ok = b])
    <2>1. [Packet("CONNACK", 0) EXCEPT !.ok = b] \in Incoming
      BY DEF Incoming
    <2>2. [Packet("CONNACK", 0) EXCEPT !.ok = b].type = "CONNACK"
      BY DEF Packet
    <2> QED
      BY <2>1, <2>2
  <1>2. Downward(Packet("CONNACK", 0))
    <2> DEFINE p == Packet("CONNACK", 0)
    <2>1. p = [p EXCEPT !.ok = TRUE]
      <3>1. p \in Packets /\ p.ok = TRUE
        BY PacketTyped, ZeroIsPacketId DEF PacketTypes, Packet
      <3> HIDE DEF p
      <3> QED
        BY <3>1 DEF Packets
    <2> QED
      BY <1>1, <2>1, Zenon
  <1>3. ASSUME NEW i \in PacketIds, NEW b \in BOOLEAN
        PROVE  Downward([Packet("SUBACK", i) EXCEPT !.ok = b])
    <2>1. [Packet("SUBACK", i) EXCEPT !.ok = b] \in Incoming
      BY DEF Incoming
    <2>2. [Packet("SUBACK", i) EXCEPT !.ok = b].type = "SUBACK"
      BY DEF Packet
    <2> QED
      BY <2>1, <2>2
  <1>4. ASSUME NEW i \in PacketIds PROVE Downward(Packet("PUBACK", i))
    <2>1. Packet("PUBACK", i) \in Incoming
      BY DEF Incoming
    <2>2. Packet("PUBACK", i).type = "PUBACK"
      BY DEF Packet
    <2> QED
      BY <2>1, <2>2
  <1>5. Downward(Packet("PINGRESP", 0))
    <2>1. Packet("PINGRESP", 0) \in Incoming
      BY DEF Incoming
    <2>2. Packet("PINGRESP", 0).type = "PINGRESP"
      BY DEF Packet
    <2> QED
      BY <2>1, <2>2
  <1>6. ASSUME NEW i \in PacketIds, NEW q \in {0, 1}
        PROVE  Downward(PublishPacket(i, q, NoMsg))
    <2>1. PublishPacket(i, q, NoMsg) \in Incoming
      BY DEF Incoming, QoS
    <2>2. PublishPacket(i, q, NoMsg).qos = q
      BY DEF PublishPacket
    <2>3. PublishPacket(i, q, NoMsg).type = "PUBLISH"
      BY DEF PublishPacket
    <2> QED
      BY <2>1, <2>2, <2>3
  <1> QED
    BY <1>1, <1>2, <1>3, <1>4, <1>5, <1>6

\* The lost tail of down leaves a prefix of it.
LEMMA LoseTailElements ==
    ASSUME AppTypeOK, LoseTail
    PROVE  /\ up' = <<>>
           /\ \A i \in DOMAIN down' : i \in DOMAIN down /\ down'[i].pkt = down[i].pkt
  <1>1. PICK n \in 0 .. Len(down) :
          \/ down' = SubSeq(down, 1, n)
          \/ n > 0 /\ down' = [SubSeq(down, 1, n) EXCEPT ![n].whole = FALSE]
    BY DEF LoseTail
  <1> DEFINE s == SubSeq(down, 1, n)
  <1>2. /\ s \in Seq(Deliveries)
        /\ DOMAIN down = 1 .. Len(down) /\ Len(down) \in Nat
        /\ DOMAIN s = 1 .. n
        /\ \A i \in 1 .. n : s[i] = down[i]
    BY PrefixElements DEF AppTypeOK
  <1>3. CASE down' = s
    BY <1>2, <1>3 DEF LoseTail
  <1>4. CASE n > 0 /\ down' = [s EXCEPT ![n].whole = FALSE]
    <2>1. n \in DOMAIN s /\ s[n] \in Deliveries
      BY <1>2, <1>4
    <2>2. [s[n] EXCEPT !.whole = FALSE].pkt = s[n].pkt
      BY <2>1 DEF Deliveries
    <2>3. DOMAIN down' = DOMAIN s
      BY <1>4
    <2>4. \A i \in DOMAIN s : down'[i] = IF i = n THEN [s[n] EXCEPT !.whole = FALSE] ELSE s[i]
      BY <1>4
    <2> HIDE DEF s
    <2>5. \A i \in DOMAIN s : down'[i].pkt = s[i].pkt
      BY <2>2, <2>4
    <2> QED
      BY <1>2, <2>3, <2>5 DEF LoseTail
  <1> QED
    BY <1>1, <1>3, <1>4

LEMMA ClientPackets ==
    ASSUME AppTypeOK, PacketsInv, ClientStep
    PROVE  PacketsInv'
  <1> USE DEF PacketsInv, ClientStep, network, context
  <1>1. CASE LocalStep
    <2>1. CASE PacketSent \/ NoEvent \/ OpenConnection \/ ConnectAccepted \/ ConnectDone
               \/ RequestComplete \/ RequestDone \/ RequestError
      BY <1>1, <2>1
      DEF LocalStep, PacketSent, NoEvent, Resume, OpenConnection, ConnectAccepted,
          ConnectDone, RequestComplete, RequestDone, RequestError
    <2>2. CASE SendConnect \/ StartPublish \/ StartSubscribe
      <3>1. /\ UNCHANGED <<net, up, down>>
            /\ \/ state' = "SENDING_PACKET" /\ buffer'.type \in Owned
               \/ UNCHANGED <<state, buffer>>
        BY <1>1, <2>2
        DEF LocalStep, SendConnect, StartPublish, StartSubscribe, StartRequest,
            StartPacket, Packet, PublishPacket, Owned
      <3> QED
        BY <3>1, OwnedUpward
    <2> QED
      BY <1>1, <2>1, <2>2 DEF LocalStep
  <1>2. CASE ConnectStep
    BY <1>2 DEF ConnectStep, EstablishConnection, Status, ConnectError, Disconnected
  <1>3. CASE SendStep
    <2>1. PICK k \in 0..Units, e \in Errors :
             /\ SendData(k, e)
             /\ up' = Append(up, OutPacket) \/ UNCHANGED up
             /\ net # "ok" => UNCHANGED up
             /\ UNCHANGED <<net, down>>
      BY <1>3 DEF SendStep
    <2>2. Upward(OutPacket)
      BY <2>1, PingReqUpward DEF SendData, OutPacket
    <2>3. \A i \in DOMAIN up' : Upward(up'[i])
      BY <2>1, <2>2, OutPacketTyped, AppendElements DEF AppTypeOK
    <2> QED
      BY <2>1, <2>2, <2>3 DEF SendData
  <1>4. CASE WaitStep
    BY <1>4 DEF WaitStep, WaitForDataReady, WaitForDataTimeout
  <1>5. CASE ReceiveStep
    <2>1. CASE /\ down # <<>> /\ ReceivePacket(Head(down).pkt)
               /\ down' = Tail(down) /\ UNCHANGED <<net, up>>
      <3>1. \A i \in DOMAIN down' : Downward(down'[i].pkt)
        BY <2>1, TailElements DEF AppTypeOK
      <3>2. state' = "SENDING_PACKET" => Upward(buffer')
        BY <2>1, HeadReceived, ReceiveFromBroker, PubAckUpward
        DEF Completes, Ignored, Resume, RepliedBy
      <3>3. state' \notin {"CLOSED", "CONNECTING"}
        BY <2>1, HeadReceived, ReceiveStates
      <3> QED
        BY <2>1, <3>1, <3>2, <3>3
    <2>2. CASE /\ \E k \in 0..Units, e \in {"TIMEOUT", "FAILURE"} : ReceivePartly(k, e)
               /\ UNCHANGED network
      BY <2>2 DEF ReceivePartly
    <2> QED
      BY <1>5, <2>1, <2>2 DEF ReceiveStep
  <1> QED
    BY <1>1, <1>2, <1>3, <1>4, <1>5

LEMMA BrokerPackets ==
    ASSUME AppTypeOK, PacketsInv, BrokerStep \/ BrokerRefuse \/ SendLedMessage
    PROVE  PacketsInv'
  <1> USE DEF PacketsInv
  <1>1. ASSUME NEW p \in Packets, Downward(p), Answer(p)
        PROVE  \A i \in DOMAIN down' : Downward(down'[i].pkt)
    <2>1. [pkt |-> p, whole |-> TRUE] \in Deliveries
      BY DEF Deliveries
    <2> QED
      BY <1>1, <2>1, AppendElements DEF Answer, AppTypeOK
  <1>2. Incoming \subseteq Packets /\ \A p : Downward(p) => p \in Packets
    BY IncomingTyped DEF Downward
  <1>3. net = "ok" /\ UNCHANGED <<state, buffer>> /\ state \notin {"CLOSED", "CONNECTING"}
    BY DEF BrokerStep, BrokerRefuse, SendLedMessage, vars, context
  <1>4. CASE BrokerStep
    <2> DEFINE p == Head(up)
    <2>1. p \in Packets /\ p.id \in PacketIds
      <3>1. up \in Seq(Packets) /\ up # <<>>
        BY <1>4 DEF BrokerStep, AppTypeOK
      <3>2. p \in Packets
        BY <3>1
      <3> QED
        BY <3>2 DEF Packets
    <2>2. \A i \in DOMAIN up' : Upward(up'[i])
      BY <1>4, TailElements DEF BrokerStep, AppTypeOK
    <2>3. \A i \in DOMAIN down' : Downward(down'[i].pkt)
      <3>1. \/ UNCHANGED down \/ Answer(Packet("CONNACK", 0))
            \/ \E b \in BOOLEAN : Answer([Packet("SUBACK", p.id) EXCEPT !.ok = b])
            \/ Answer(Packet("PUBACK", p.id)) \/ Answer(Packet("PINGRESP", 0))
        BY <1>4 DEF BrokerStep, BrokerConnect, BrokerSubscribe, BrokerPublish,
                    BrokerPubAck, BrokerPing
      <3> QED
        BY <1>1, <1>2, <2>1, <3>1, AnswersDownward
    <2> QED
      BY <1>3, <1>4, <2>2, <2>3 DEF BrokerStep
  <1>5. CASE BrokerRefuse
    <2>1. Answer([Packet("CONNACK", 0) EXCEPT !.ok = FALSE]) /\ up' = <<>> /\ net' = "reset"
      BY <1>5 DEF BrokerRefuse
    <2>2. \A i \in DOMAIN down' : Downward(down'[i].pkt)
      BY <1>1, <1>2, <2>1, AnswersDownward
    <2> QED
      BY <1>3, <2>1, <2>2
  <1>6. CASE SendLedMessage
    <2>1. \E i \in PacketIds, q \in {0, 1} : Answer(PublishPacket(i, q, NoMsg))
      BY <1>6, ZeroIsPacketId DEF SendLedMessage
    <2>2. \A i \in DOMAIN down' : Downward(down'[i].pkt)
      BY <1>1, <1>2, <2>1, AnswersDownward
    <2> QED
      BY <1>3, <1>6, <2>2 DEF SendLedMessage
  <1> QED
    BY <1>4, <1>5, <1>6

LEMMA StepPackets ==
    ASSUME AppTypeOK, PlaceInv, PacketsInv, [AppNext]_appVars
    PROVE  PacketsInv'
  <1>1. CASE ClientStep
    BY <1>1, ClientPackets
  <1>2. CASE AppStep
    <2>1. CASE CloseAndPause
      BY <2>1 DEF CloseAndPause, Close, Disconnected, PacketsInv
    <2>2. CASE TryConnect \/ Subscribe \/ Announce \/ Connected \/ DelayOver
               \/ PollButton \/ ButtonSent \/ TaskDone
      <3>1. UNCHANGED <<state, buffer, network>>
        BY <2>2 DEF TryConnect, Subscribe, Announce, Connected, DelayOver, PollButton,
                    ButtonSent, TaskDone, CallAt, Call, vars, context
      <3> QED
        BY <3>1 DEF PacketsInv, network
    <2> QED
      BY <1>2, <2>1, <2>2 DEF AppStep
  <1>3. CASE BrokerStep \/ BrokerRefuse \/ SendLedMessage
    BY <1>3, BrokerPackets
  <1>4. CASE PressButton \/ LinkUp \/ TcpGiveUp \/ TimePasses \/ UNCHANGED appVars
    BY <1>4 DEF PressButton, LinkUp, TcpGiveUp, TimePasses, KeepAliveExpires, appVars,
                vars, context, network, PacketsInv
  <1>5. CASE LinkDown \/ SilentLoss
    <2>1. CASE net = "ok" /\ LoseTail /\ net' = "dead" /\ UNCHANGED vars
      BY <2>1, LoseTailElements DEF PacketsInv, vars, context
    <2>2. CASE UNCHANGED <<network, vars>>
      BY <2>2 DEF PacketsInv, network, vars, context
    <2> QED
      BY <1>5, <2>1, <2>2 DEF LinkDown, SilentLoss
  <1>6. CASE Reset
    BY <1>6 DEF Reset, PacketsInv, vars, context
  <1> QED
    BY <1>1, <1>2, <1>3, <1>4, <1>5, <1>6 DEF AppNext

-----------------------------------------------------------------------------
(* The session *)

\* What a send does to the direction of the broker.
LEMMA SendEffect ==
    ASSUME AppTypeOK, PacketsInv, SendStep
    PROVE  /\ UNCHANGED <<net, down, broker, packetType, answered, packetId>>
           /\ state' = "SENDING_PACKET" /\ buffer' = OutPacket
           /\ CallKept
           /\ \/ /\ state \in {"IDLE", "PACKET_SENT"} /\ OutPacket = Packet("PINGREQ", 0)
              \/ /\ state = "SENDING_PACKET" /\ packetPos < Units /\ OutPacket = buffer
           /\ owed' = IF packetPos' = Units /\ owed = OutPacket THEN NoPacket ELSE owed
           /\ \/ packetPos' < Units /\ UNCHANGED up
              \/ /\ packetPos' = Units
                 /\ net # "ok" /\ UNCHANGED up
              \/ /\ packetPos' = Units /\ net = "ok"
                 /\ up' = Append(up, OutPacket)
  <1>1. PICK k \in 0..Units, e \in Errors :
           /\ SendData(k, e)
           /\ UNCHANGED <<net, down, broker>>
           /\ IF net = "ok" /\ e = "NO_ERROR" THEN up' = Append(up, OutPacket) ELSE UNCHANGED up
    BY DEF SendStep
  <1>2. OutPos \in 0..Units /\ packetPos \in 0..Units
    BY UnitsAssumption DEF OutPos, AppTypeOK, TypeOK
  <1>3. packetPos' = OutPos + k
    BY <1>1 DEF SendData
  <1>4. IF k = Units - OutPos THEN e = "NO_ERROR" /\ packetPos' = Units
        ELSE e # "NO_ERROR" /\ packetPos' < Units
    BY <1>1, <1>2, <1>3, UnitsAssumption DEF SendData
  <1>5. \/ /\ state \in {"IDLE", "PACKET_SENT"} /\ OutPacket = Packet("PINGREQ", 0)
        \/ /\ state = "SENDING_PACKET" /\ packetPos < Units /\ OutPacket = buffer
    BY <1>1 DEF SendData, PingDue, OutPacket
  <1>6. CallKept
    BY <1>1, EndOfEventCall DEF SendData
  <1> QED
    BY <1>1, <1>3, <1>4, <1>5, <1>6 DEF SendData, progress

LEMMA ClientSession ==
    ASSUME AppTypeOK, PlaceInv, PacketsInv, SessionInv, ClientStep
    PROVE  SessionInv'
  <1> USE UnitsAssumption DEF SessionInv, InBuffer, PacketsInv, ClientStep, network, broker
  <1>1. CASE LocalStep
    <2>1. CASE PacketSent \/ NoEvent \/ OpenConnection \/ ConnectAccepted \/ ConnectDone
               \/ RequestComplete \/ RequestDone \/ RequestError
      BY <1>1, <2>1
      DEF LocalStep, PacketSent, NoEvent, Resume, OpenConnection, ConnectAccepted,
          ConnectDone, RequestComplete, RequestDone, RequestError, context
    <2>2. CASE SendConnect
      <3>1. call.fits
        BY <2>2, CallPlaces DEF SendConnect, Running, PlaceInv
      <3>2. Packet("CONNECT", 0).type = "CONNECT"
        BY DEF Packet
      <3> QED
        BY <1>1, <2>2, <3>1, <3>2 DEF LocalStep, SendConnect, StartPacket
    <2>3. CASE StartPublish \/ StartSubscribe
      <3>1. /\ state = "IDLE" /\ UNCHANGED <<net, up, down, session>>
            /\ state' = "SENDING_PACKET" => buffer'.type # "CONNECT"
            /\ state' # "CONNECTED"
        BY <1>1, <2>3 DEF LocalStep, StartPublish, StartSubscribe, StartRequest, StartPacket,
                          Packet, PublishPacket
      <3> QED
        BY <3>1
    <2> QED
      BY <1>1, <2>1, <2>2, <2>3 DEF LocalStep
  <1>2. CASE ConnectStep
    BY <1>2 DEF ConnectStep, EstablishConnection, Status, ConnectError, Disconnected, EndSession
  <1>3. CASE SendStep
    <2>1. /\ UNCHANGED <<net, down, session>>
          /\ state' = "SENDING_PACKET" /\ buffer' = OutPacket
          /\ \/ state \in {"IDLE", "PACKET_SENT"} /\ OutPacket.type = "PINGREQ"
             \/ state = "SENDING_PACKET" /\ packetPos < Units /\ OutPacket = buffer
      BY <1>3, SendEffect DEF Packet
    <2>2. CASE UNCHANGED up /\ (packetPos' < Units \/ net # "ok")
      BY <2>1, <2>2
    <2>3. CASE packetPos' = Units /\ net = "ok" /\ up' = Append(up, OutPacket)
      <3>1. /\ Len(up) \in Nat /\ DOMAIN up = 1 .. Len(up)
            /\ DOMAIN up' = 1 .. Len(up) + 1 /\ up' # <<>>
            /\ \A i \in 1 .. Len(up) : up'[i] = up[i]
            /\ up'[Len(up) + 1] = OutPacket
        BY <2>3, OutPacketTyped, AppendElements DEF AppTypeOK
      <3>2. up = <<>> <=> Len(up) = 0
        BY DEF AppTypeOK
      <3>3. CASE OutPacket.type = "CONNECT"
        <4>1. up = <<>> /\ ~session
          BY <2>1, <2>3, <3>3
        <4> QED
          BY <2>1, <2>3, <3>1, <3>2, <3>3, <4>1
      <3>4. CASE OutPacket.type # "CONNECT"
        BY <2>1, <2>3, <3>1, <3>2, <3>4
      <3> QED
        BY <3>3, <3>4
    <2> QED
      BY <1>3, <2>2, <2>3, SendEffect
  <1>4. CASE WaitStep
    BY <1>4 DEF WaitStep, WaitForDataReady, WaitForDataTimeout, context
  <1>5. CASE ReceiveStep
    <2>1. CASE /\ down # <<>> /\ ReceivePacket(Head(down).pkt)
               /\ UNCHANGED <<net, up, session>>
      <3>1. /\ state = "RECEIVING_PACKET" /\ state' # "CONNECTED"
            /\ state' = "SENDING_PACKET" => buffer'.type # "CONNECT"
        BY <2>1, HeadReceived, ReceiveStates
      <3> QED
        BY <2>1, <3>1
    <2>2. CASE /\ \E k \in 0..Units, e \in {"TIMEOUT", "FAILURE"} : ReceivePartly(k, e)
               /\ UNCHANGED <<network, broker>>
      BY <2>2 DEF ReceivePartly
    <2> QED
      BY <1>5, <2>1, <2>2 DEF ReceiveStep
  <1> QED
    BY <1>1, <1>2, <1>3, <1>4, <1>5

LEMMA BrokerSession ==
    ASSUME AppTypeOK, SessionInv, BrokerStep \/ BrokerRefuse \/ SendLedMessage
    PROVE  SessionInv'
  <1> USE DEF SessionInv, InBuffer
  <1>1. UNCHANGED <<state, buffer, packetPos>>
    BY DEF BrokerStep, BrokerRefuse, SendLedMessage, vars, context
  <1>2. CASE BrokerStep
    <2>1. /\ net = "ok" /\ up # <<>> /\ up' = Tail(up) /\ UNCHANGED net
          /\ Head(up).type = "CONNECT" \/ session
          /\ session'
      BY <1>2 DEF BrokerStep, BrokerConnect, BrokerSubscribe, BrokerPublish, BrokerPubAck,
                  BrokerPing, broker
    <2>2. /\ Len(up) \in Nat \ {0} /\ DOMAIN up = 1 .. Len(up)
          /\ DOMAIN up' = 1 .. Len(up) - 1
          /\ \A i \in 1 .. Len(up) - 1 : up'[i] = up[i + 1]
      BY <2>1, TailElements DEF AppTypeOK
    <2>3. \A i \in DOMAIN up' : up'[i].type # "CONNECT"
      BY <2>2
    <2> QED
      BY <1>1, <2>1, <2>3
  <1>3. CASE BrokerRefuse
    BY <1>1, <1>3 DEF BrokerRefuse
  <1>4. CASE SendLedMessage
    BY <1>1, <1>4 DEF SendLedMessage
  <1> QED
    BY <1>2, <1>3, <1>4

LEMMA StepSession ==
    ASSUME AppTypeOK, PlaceInv, PacketsInv, SessionInv, [AppNext]_appVars
    PROVE  SessionInv'
  <1>1. CASE ClientStep
    BY <1>1, ClientSession
  <1>2. CASE AppStep
    <2>1. CASE CloseAndPause
      BY <2>1 DEF CloseAndPause, Close, Disconnected, EndSession, SessionInv, InBuffer
    <2>2. CASE TryConnect \/ Subscribe \/ Announce \/ Connected \/ DelayOver
               \/ PollButton \/ ButtonSent \/ TaskDone
      <3>1. UNCHANGED <<state, buffer, packetPos, network, session>>
        BY <2>2 DEF TryConnect, Subscribe, Announce, Connected, DelayOver, PollButton,
                    ButtonSent, TaskDone, CallAt, Call, vars, context, broker
      <3> QED
        BY <3>1 DEF SessionInv, InBuffer, network
    <2> QED
      BY <1>2, <2>1, <2>2 DEF AppStep
  <1>3. CASE BrokerStep \/ BrokerRefuse \/ SendLedMessage
    BY <1>3, BrokerSession
  <1>4. CASE PressButton \/ LinkUp \/ TcpGiveUp \/ TimePasses \/ UNCHANGED appVars
    BY <1>4 DEF PressButton, LinkUp, TcpGiveUp, TimePasses, KeepAliveExpires, appVars,
                vars, context, network, broker, SessionInv, InBuffer
  <1>5. CASE LinkDown \/ SilentLoss \/ Reset
    <2>1. CASE up' = <<>> /\ net' # "ok"
      BY <2>1 DEF SessionInv
    <2>2. CASE UNCHANGED <<network, broker, vars>>
      BY <2>2 DEF SessionInv, InBuffer, network, broker, vars, context
    <2> QED
      BY <1>5, <2>1, <2>2 DEF LinkDown, SilentLoss, Reset, LoseTail
  <1> QED
    BY <1>1, <1>2, <1>3, <1>4, <1>5 DEF AppNext

-----------------------------------------------------------------------------
(* Requests and their answers *)

\* The step asks nothing, answers nothing and takes nothing back.
FactsKept ==
    /\ net' = "ok" =>
          /\ net = "ok"
          /\ session => session'
          /\ subscribeSeen => subscribeSeen'
          /\ announced => announced'
    /\ UNCHANGED retainedButton

LEMMA RequestKept ==
    ASSUME RequestInv, FactsKept, CallKept,
           NEW a \in Nat, NEW b \in Nat,
           \A i : Asking(i)' => Asking(i + a) /\ up'[i] = up[i + a],
           \A i : Replying(i)' => Replying(i + b),
           \A i : Asking(i)' \/ Replying(i)' => i \in Int,
           UNCHANGED <<packetType, answered>>,
           NotAsked' => NotAsked,
           Got' => Got,
           Starting' => Starting,
           state' = "SENDING_PACKET" /\ buffer'.type \in Owned =>
              state = "SENDING_PACKET" /\ UNCHANGED buffer,
           call'.op = "CONNECT" /\ state' = "IDLE" => call.op = "CONNECT" /\ state = "IDLE"
    PROVE  RequestInv'
  <1>1. OneRequest'
    <2>1. ASSUME NEW i, NEW j, Asking(i)', Asking(j)' PROVE i = j
      <3>1. i \in Int /\ j \in Int /\ Asking(i + a) /\ Asking(j + a)
        BY <2>1
      <3>2. i + a = j + a
        BY <3>1 DEF RequestInv, OneRequest
      <3> QED
        BY <3>1, <3>2
    <2>2. ASSUME NEW i, NEW j, Replying(i)', Replying(j)' PROVE i = j
      <3>1. i \in Int /\ j \in Int /\ Replying(i + b) /\ Replying(j + b)
        BY <2>2
      <3>2. i + b = j + b
        BY <3>1 DEF RequestInv, OneRequest
      <3> QED
        BY <3>1, <3>2
    <2>3. \A i, j : ~(Asking(i)' /\ Replying(j)')
      BY DEF RequestInv, OneRequest
    <2>4. (NotAsked \/ Got)' => \A i : ~Asking(i)' /\ ~Replying(i)'
      BY DEF RequestInv, OneRequest
    <2> QED
      BY <2>1, <2>2, <2>3, <2>4 DEF OneRequest
  <1>2. call' # NoCall => UNCHANGED call
    BY DEF CallKept
  <1>3. ASSUME NEW i, Asking(i)' PROVE OfCall(up[i])'
    BY <1>2, <1>3 DEF RequestInv, OfCall
  <1>4. (state = "SENDING_PACKET" /\ buffer.type \in Owned)' => OfCall(buffer)'
    BY <1>2 DEF RequestInv, OfCall
  <1>5. (Got \/ (\E i : Replying(i)))' => Granted'
    <2>1. (Got \/ (\E i : Replying(i)))' => Granted
      BY DEF RequestInv
    <2>2. Granted => Granted'
      BY <1>2 DEF Granted, FactsKept
    <2> QED
      BY <2>1, <2>2
  <1>6. (call.op = "CONNECT" /\ state = "IDLE" /\ net = "ok" => session)'
    BY DEF RequestInv, FactsKept
  <1>7. (Starting /\ call # NoCall => ~answered)'
    BY <1>2 DEF RequestInv
  <1> QED
    BY <1>1, <1>3, <1>4, <1>5, <1>6, <1>7 DEF RequestInv

\* With nothing on the way, only the client's part is left to show.
LEMMA RequestEmpty ==
    ASSUME \A i : ~Asking(i)' /\ ~Replying(i)'
    PROVE  /\ OneRequest'
           /\ \A i : Asking(i)' => OfCall(up[i])'
           /\ (\E i : Replying(i))' <=> FALSE
  BY DEF OneRequest

LEMMA UpKept ==
    ASSUME AppTypeOK,
           \/ UNCHANGED up \/ up' = <<>>
           \/ \E p \in Packets : p.type \notin Owned /\ up' = Append(up, p)
    PROVE  \A i : Asking(i)' => i \in Int /\ Asking(i + 0) /\ up'[i] = up[i + 0]
  <1> USE DEF Asking
  <1>1. up \in Seq(Packets) /\ DOMAIN up = 1 .. Len(up) /\ Len(up) \in Nat
    BY DEF AppTypeOK
  <1>2. CASE UNCHANGED up \/ up' = <<>>
    BY <1>1, <1>2
  <1>3. ASSUME NEW p \in Packets, p.type \notin Owned, up' = Append(up, p)
        PROVE  \A i : Asking(i)' => i \in Int /\ Asking(i + 0) /\ up'[i] = up[i + 0]
    <2> DEFINE t == Append(up, p)
    <2>1. /\ DOMAIN t = 1 .. Len(up) + 1
          /\ \A i \in 1 .. Len(up) : t[i] = up[i]
          /\ t[Len(up) + 1] = p
      BY <1>1, AppendElements
    <2>2. up' = t
      BY <1>3
    <2> HIDE DEF t
    <2>3. ASSUME NEW i, Asking(i)' PROVE i \in 1 .. Len(up)
      <3>1. i \in 1 .. Len(up) + 1 /\ i # Len(up) + 1
        BY <1>3, <2>1, <2>2, <2>3
      <3> QED
        BY <1>1, <3>1
    <2> QED
      BY <1>1, <2>1, <2>2, <2>3
  <1> QED
    BY <1>2, <1>3

LEMMA UpTaken ==
    ASSUME AppTypeOK, up # <<>>, up' = Tail(up)
    PROVE  /\ \A i : Asking(i)' => i \in Int /\ Asking(i + 1) /\ up'[i] = up[i + 1] /\ i + 1 # 1
           /\ Head(up) = up[1] /\ 1 \in DOMAIN up /\ Head(up) \in Packets
  <1>1. /\ Len(up) \in Nat \ {0} /\ DOMAIN up = 1 .. Len(up)
        /\ DOMAIN up' = 1 .. Len(up) - 1
        /\ \A i \in 1 .. Len(up) - 1 : up'[i] = up[i + 1]
        /\ Head(up) = up[1] /\ Head(up) \in Packets
    BY TailElements DEF AppTypeOK
  <1> QED
    BY <1>1 DEF Asking

LEMMA DownKept ==
    ASSUME AppTypeOK,
           \/ UNCHANGED down
           \/ \A i \in DOMAIN down' : i \in DOMAIN down /\ down'[i].pkt = down[i].pkt
           \/ \E d \in Deliveries : d.pkt.type \notin Replies /\ down' = Append(down, d)
    PROVE  \A i : Replying(i)' => i \in Int /\ Replying(i + 0)
  <1> USE DEF Replying
  <1>1. down \in Seq(Deliveries) /\ DOMAIN down = 1 .. Len(down) /\ Len(down) \in Nat
    BY DEF AppTypeOK
  <1>2. CASE UNCHANGED down
    BY <1>1, <1>2
  <1>3. CASE \A i \in DOMAIN down' : i \in DOMAIN down /\ down'[i].pkt = down[i].pkt
    BY <1>1, <1>3
  <1>4. ASSUME NEW d \in Deliveries, d.pkt.type \notin Replies, down' = Append(down, d)
        PROVE  \A i : Replying(i)' => i \in Int /\ Replying(i + 0)
    <2> DEFINE t == Append(down, d)
    <2>1. /\ DOMAIN t = 1 .. Len(down) + 1
          /\ \A i \in 1 .. Len(down) : t[i] = down[i]
          /\ t[Len(down) + 1] = d
      BY <1>1, AppendElements
    <2>2. down' = t
      BY <1>4
    <2> HIDE DEF t
    <2>3. ASSUME NEW i, Replying(i)' PROVE i \in 1 .. Len(down)
      <3>1. i \in 1 .. Len(down) + 1 /\ i # Len(down) + 1
        BY <1>4, <2>1, <2>2, <2>3
      <3> QED
        BY <1>1, <3>1
    <2> QED
      BY <1>1, <2>1, <2>2, <2>3
  <1> QED
    BY <1>2, <1>3, <1>4

LEMMA DownTaken ==
    ASSUME AppTypeOK, down # <<>>, down' = Tail(down)
    PROVE  /\ \A i : Replying(i)' => i \in Int /\ Replying(i + 1) /\ i + 1 # 1
           /\ Head(down) = down[1] /\ 1 \in DOMAIN down
  <1>1. /\ Len(down) \in Nat \ {0} /\ DOMAIN down = 1 .. Len(down)
        /\ DOMAIN down' = 1 .. Len(down) - 1
        /\ \A i \in 1 .. Len(down) - 1 : down'[i] = down[i + 1]
        /\ Head(down) = down[1]
    BY TailElements DEF AppTypeOK
  <1> QED
    BY <1>1 DEF Replying

\* RequestKept for a step that leaves the broker alone and what is on the way.
LEMMA RequestHere ==
    ASSUME AppTypeOK, RequestInv, CallKept, UNCHANGED <<network, broker>>,
           UNCHANGED <<packetType, answered>>,
           NotAsked' => NotAsked, Got' => Got, Starting' => Starting,
           state' = "SENDING_PACKET" /\ buffer'.type \in Owned =>
              state = "SENDING_PACKET" /\ UNCHANGED buffer,
           call'.op = "CONNECT" /\ state' = "IDLE" => call.op = "CONNECT" /\ state = "IDLE"
    PROVE  RequestInv'
  <1>1. \A i : Asking(i)' => i \in Int /\ Asking(i + 0) /\ up'[i] = up[i + 0]
    BY UpKept DEF network
  <1>2. \A i : Replying(i)' => i \in Int /\ Replying(i + 0)
    BY DownKept DEF network
  <1>3. FactsKept
    BY DEF FactsKept, network, broker
  <1> QED
    BY <1>1, <1>2, <1>3, RequestKept

\* A request that is in the buffer is neither on its way nor answered.
LEMMA RequestLocal ==
    ASSUME AppTypeOK, CallInv, PlaceInv, PacketsInv, RequestInv, LocalStep,
           UNCHANGED task
    PROVE  RequestInv'
  <1> USE CallFields DEF PlaceInv
  <1>0. UNCHANGED <<network, broker>> /\ UNCHANGED <<net, up, down, session>>
    BY DEF LocalStep, network, broker
  <1>1. CASE PacketSent
    <2>1. /\ CallKept /\ UNCHANGED <<packetType, answered>>
          /\ (NotAsked' => NotAsked) /\ (Starting' => Starting)
          /\ state' # "SENDING_PACKET"
      BY <1>1, EndOfEventCall
      DEF PacketSent, Resume, NotAsked, Starting, InBuffer, context
    <2>2. ~(call.op = "CONNECT" /\ state' = "IDLE")
      BY <1>1 DEF PacketSent, Resume
    <2>3. (Got' => Got) /\ ~(call'.op = "CONNECT" /\ state' = "IDLE")
      BY <1>1, <2>1, <2>2 DEF CallKept, Got, PacketSent, Resume
    <2> QED
      BY <1>0, <2>1, <2>3, RequestHere
  <1>2. CASE NoEvent
    BY <1>0, <1>2, EndOfEventCall, RequestHere
    DEF NoEvent, NotAsked, Got, Starting, InBuffer, CallKept, Running, context, progress
  <1>3. CASE OpenConnection /\ error' = "NO_ERROR"
    <2>1. state = "CLOSED" /\ state' = "CONNECTING" /\ UNCHANGED <<packetType, answered>> /\ CallKept
      BY <1>3, EndOfEventCall DEF OpenConnection, Status, LocalStep, progress
    <2>2. NotAsked' => NotAsked
      BY <2>1 DEF NotAsked, InBuffer
    <2> QED
      BY <1>0, <2>1, <2>2, RequestHere DEF Got, Starting, InBuffer
  <1>4. CASE SendConnect
    <2>1. /\ call.fits /\ state = "CONNECTED" /\ call # NoCall
      BY <1>4, CallPlaces DEF SendConnect, Running
    <2>2. \A i : ~Asking(i)' /\ ~Replying(i)'
      BY <1>0, <2>1 DEF RequestInv, OneRequest, NotAsked, Asking, Replying
    <2>3. ~answered /\ UNCHANGED answered
      BY <1>4, <2>1 DEF RequestInv, Starting, SendConnect, progress
    <2>4. /\ state' = "SENDING_PACKET" /\ packetType' = "CONNECT" /\ buffer'.type = "CONNECT"
      BY <1>4, <2>1 DEF SendConnect, StartPacket, Packet
    <2>5. ~Got'
      BY <2>3, <2>4 DEF Got
    <2> QED
      BY <2>2, <2>3, <2>4, <2>5, RequestEmpty DEF RequestInv, OfCall
  <1>5. CASE ConnectAccepted
    <2>1. /\ call.op = "CONNECT" /\ state = "PACKET_RECEIVED" /\ packetType = "CONNECT"
          /\ state' = "IDLE" /\ packetType' = "INVALID" /\ UNCHANGED call
      BY <1>5 DEF ConnectAccepted, Running, Status
    <2>2. call # NoCall
      BY <2>1
    <2>3. \A i : ~Asking(i)' /\ ~Replying(i)'
      BY <1>0, <2>1 DEF RequestInv, OneRequest, Got, Asking, Replying
    <2>4. Granted' /\ (net' = "ok" => session')
      BY <1>0, <2>1, <2>2 DEF RequestInv, Granted, Got
    <2>5. ~Starting'
      BY <2>1 DEF Starting, InBuffer
    <2> QED
      BY <2>1, <2>3, <2>4, <2>5, RequestEmpty DEF RequestInv
  <1>6. CASE ConnectDone \/ RequestError
    <2>1. CallKept /\ call' = NoCall /\ UNCHANGED <<context, answered>>
      BY <1>6, EndOfEventCall DEF ConnectDone, RequestError, Return, progress
    <2>2. (NotAsked' => NotAsked) /\ (Got' => Got) /\ (Starting' => Starting)
      BY <2>1 DEF NotAsked, Got, Starting, InBuffer, context
    <2> QED
      BY <1>0, <2>1, <2>2, RequestHere DEF context
  <1>7. CASE StartPublish \/ StartSubscribe
    <2>1. /\ state = "IDLE" /\ packetType = "INVALID" /\ call.op \in {"PUBLISH", "SUBSCRIBE"}
          /\ UNCHANGED answered /\ UNCHANGED call
      BY <1>7 DEF StartPublish, StartSubscribe, StartRequest, Running, Status, progress
    <2>2. ~answered /\ call.fits
      BY <2>1, CallPlaces DEF CallInv, Requests, Ended, Quiet, InRequest
    <2>3. /\ state' = "SENDING_PACKET" /\ packetType' = call.op /\ buffer'.type = call.op
          /\ call.op = "PUBLISH" => buffer'.msg = call.msg
      BY <1>7, <2>1, <2>2
      DEF StartPublish, StartSubscribe, StartRequest, StartPacket, Running, Packet, PublishPacket
    <2>4. \A i : ~Asking(i)' /\ ~Replying(i)'
      BY <1>0, <2>1 DEF RequestInv, OneRequest, NotAsked, Asking, Replying
    <2>5. ~Got'
      BY <2>1, <2>2, <2>3 DEF Got
    <2> QED
      BY <2>1, <2>2, <2>3, <2>4, <2>5, RequestEmpty DEF RequestInv, OfCall
  <1>8. CASE RequestComplete
    <2>1. /\ state = "PACKET_RECEIVED" /\ state' = "IDLE" /\ UNCHANGED <<packetType, answered, call>>
          /\ call.op # "CONNECT"
      BY <1>8, CallPlaces DEF RequestComplete, Requests, Status, progress
    <2>2. (NotAsked' => NotAsked) /\ (Got' => Got) /\ ~Starting'
      BY <2>1 DEF NotAsked, Got, Starting, InBuffer
    <2> QED
      BY <1>0, <2>1, <2>2, RequestHere DEF CallKept
  <1>9. CASE RequestDone
    <2>1. /\ state = "IDLE" /\ UNCHANGED state /\ call' = NoCall /\ UNCHANGED answered
          /\ call.op \in {"PUBLISH", "SUBSCRIBE"} /\ call.wait
          /\ packetType # "INVALID"
      BY <1>9, CallPlaces DEF RequestDone, Requests, Return, progress
    <2>2. answered
      BY <2>1 DEF CallInv, Requests, Ended, Quiet, InRequest
    <2>3. \A i : ~Asking(i)' /\ ~Replying(i)'
      BY <1>0, <2>2 DEF RequestInv, OneRequest, Got, Asking, Replying
    <2> QED
      BY <2>1, <2>3, RequestEmpty DEF RequestInv, Granted
  <1> QED
    BY <1>1, <1>2, <1>3, <1>4, <1>5, <1>6, <1>7, <1>8, <1>9 DEF LocalStep

LEMMA RequestConnect ==
    ASSUME AppTypeOK, PlaceInv, PacketsInv, RequestInv, ConnectStep, UNCHANGED task
    PROVE  RequestInv'
  <1>1. CASE EstablishConnection /\ error' = "NO_ERROR" /\ up' = <<>> /\ down' = <<>>
    <2>1. /\ state = "CONNECTING" /\ state' = "CONNECTED" /\ UNCHANGED <<call, answered>>
          /\ call.op = "CONNECT"
      BY <1>1 DEF EstablishConnection, Status, Running, progress
    <2>2. call # NoCall /\ ~answered
      BY <2>1, CallFields DEF RequestInv, Starting
    <2>3. \A i : ~Asking(i)' /\ ~Replying(i)'
      BY <1>1 DEF Asking, Replying
    <2>4. ~Got'
      BY <2>1, <2>2 DEF Got
    <2> QED
      BY <2>1, <2>2, <2>3, <2>4, RequestEmpty DEF RequestInv
  <1>2. CASE EstablishConnection /\ error' # "NO_ERROR" /\ UNCHANGED <<network, broker>>
    <2>1. /\ UNCHANGED <<call, state, packetType, buffer, packetPos, answered>>
      BY <1>2 DEF EstablishConnection, Status, progress
    <2> QED
      BY <1>2, <2>1, RequestHere DEF CallKept, NotAsked, Got, Starting, InBuffer
  <1>3. CASE ConnectError /\ Disconnected
    <2>1. call' = NoCall /\ state' = "CLOSED"
      BY <1>3 DEF ConnectError, Return
    <2>2. \A i : ~Asking(i)' /\ ~Replying(i)'
      BY <1>3 DEF Disconnected, Asking, Replying
    <2> QED
      BY <2>1, <2>2, CallFields, RequestEmpty DEF RequestInv, Granted
  <1> QED
    BY <1>1, <1>2, <1>3 DEF ConnectStep

LEMMA RequestSend ==
    ASSUME AppTypeOK, AppTypeOK', PlaceInv, PacketsInv, RequestInv, SendStep,
           InProcessEvents, UNCHANGED task
    PROVE  RequestInv'
  <1>1. UNCHANGED <<net, down, broker, packetType, answered>> /\ CallKept
    BY SendEffect
  <1>2. state' = "SENDING_PACKET" /\ buffer' = OutPacket
    BY SendEffect
  <1>3. call # NoCall
    BY CallFields DEF InProcessEvents, Requests
  <1>4. FactsKept
    BY <1>1 DEF FactsKept, broker
  <1>5. CASE OutPacket.type \in Owned
    <2>1. state = "SENDING_PACKET" /\ packetPos < Units /\ OutPacket = buffer
      BY <1>5, SendEffect DEF Packet, Owned
    <2>2. buffer.type = packetType /\ packetType # "INVALID" /\ packetType \in Owned
      BY <1>5, <2>1 DEF RequestInv, OfCall, Owned
    <2>3. InBuffer(packetType) /\ ~answered
      BY <1>3, <2>1, <2>2 DEF RequestInv, Starting, InBuffer
    <2>4. \A i : ~Asking(i) /\ ~Replying(i)
      BY <2>3 DEF RequestInv, OneRequest, NotAsked
    <2>5. \A i : ~Replying(i)'
      BY <1>1, <2>4 DEF Replying
    <2>6. OfCall(buffer)'
      BY <1>1, <1>2, <1>5, <2>1 DEF RequestInv, OfCall, CallKept
    <2>7. ~Got'
      BY <1>1, <1>2, <2>3 DEF Got
    <2>8. CASE UNCHANGED up
      <3>1. \A i : ~Asking(i)'
        BY <2>4, <2>8 DEF Asking
      <3> QED
        BY <1>1, <1>2, <2>3, <2>5, <2>6, <2>7, <3>1, RequestEmpty DEF RequestInv
    <2>9. CASE packetPos' = Units /\ up' = Append(up, OutPacket)
      <3>1. /\ Len(up) \in Nat /\ DOMAIN up = 1 .. Len(up)
            /\ DOMAIN up' = 1 .. Len(up) + 1
            /\ \A i \in 1 .. Len(up) : up'[i] = up[i]
            /\ up'[Len(up) + 1] = OutPacket
        BY <2>9, OutPacketTyped, AppendElements DEF AppTypeOK
      <3>2. \A i : Asking(i)' => i = Len(up) + 1
        BY <2>4, <3>1 DEF Asking
      <3>3. \A i : Asking(i)' => OfCall(up[i])'
        BY <1>2, <2>6, <3>1, <3>2
      <3>4. ~NotAsked'
        BY <1>1, <1>2, <2>2, <2>9, UnitsAssumption DEF NotAsked, InBuffer
      <3>5. OneRequest'
        BY <2>5, <2>7, <3>2, <3>4 DEF OneRequest
      <3> QED
        BY <1>1, <1>2, <2>3, <2>5, <2>6, <2>7, <3>3, <3>5 DEF RequestInv
    <2> QED
      BY <2>8, <2>9, SendEffect
  <1>6. CASE OutPacket.type \notin Owned
    <2>1. \A i : Asking(i)' => i \in Int /\ Asking(i + 0) /\ up'[i] = up[i + 0]
      BY <1>6, SendEffect, OutPacketTyped, UpKept DEF AppTypeOK
    <2>2. \A i : Replying(i)' => i \in Int /\ Replying(i + 0)
      BY <1>1, DownKept
    <2>3. NotAsked' => NotAsked
      BY <1>1, <1>2, <1>6 DEF NotAsked, InBuffer, PlaceInv
    <2>4. (Got' => Got) /\ (Starting' => Starting)
      BY <1>1, <1>2, <1>6 DEF Got, Starting, InBuffer
    <2> QED
      BY <1>1, <1>2, <1>4, <1>6, <2>1, <2>2, <2>3, <2>4, RequestKept
  <1> QED
    BY <1>5, <1>6

LEMMA RequestReceive ==
    ASSUME AppTypeOK, PlaceInv, PacketsInv, RequestInv, UNCHANGED task,
           WaitStep \/ ReceiveStep
    PROVE  RequestInv'
  <1>1. CASE WaitStep
    <2>1. /\ CallKept /\ UNCHANGED <<packetType, answered, network, broker>>
          /\ \/ state' = "RECEIVING_PACKET"
             \/ UNCHANGED <<state, buffer, packetPos>>
      BY <1>1, EndOfEventCall
      DEF WaitStep, WaitForDataReady, WaitForDataTimeout, context, progress
    <2>2. NotAsked' => NotAsked
      BY <2>1 DEF NotAsked, InBuffer
    <2>3. (Got' => Got) /\ (Starting' => Starting)
      BY <2>1, CallFields DEF Got, Starting, InBuffer, CallKept
    <2> QED
      BY <2>1, <2>2, <2>3, CallFields, RequestHere DEF CallKept
  <1>2. CASE \E k \in 0..Units, e \in {"TIMEOUT", "FAILURE"} :
                ReceivePartly(k, e) /\ UNCHANGED <<network, broker>>
    <2>1. /\ CallKept /\ UNCHANGED <<packetType, answered, network, broker, state, buffer>>
          /\ state = "RECEIVING_PACKET"
      BY <1>2, EndOfEventCall DEF ReceivePartly, progress
    <2>2. (NotAsked' => NotAsked) /\ (Got' => Got) /\ (Starting' => Starting)
      BY <2>1 DEF NotAsked, Got, Starting, InBuffer
    <2> QED
      BY <2>1, <2>2, RequestHere
  <1>3. CASE /\ down # <<>> /\ ReceivePacket(Head(down).pkt) /\ down' = Tail(down)
             /\ UNCHANGED <<net, up, broker>>
    <2> DEFINE p == Head(down).pkt
    <2>1. /\ p \in Packets /\ Downward(p) /\ p = down[1].pkt /\ 1 \in DOMAIN down
      BY <1>3, HeadReceived
    <2>2. \A i : Replying(i)' => i \in Int /\ Replying(i + 1) /\ i + 1 # 1
      BY <1>3, DownTaken
    <2>3. \A i : Asking(i)' => i \in Int /\ Asking(i + 0) /\ up'[i] = up[i + 0]
      BY <1>3, UpKept
    <2>4. FactsKept
      BY <1>3 DEF FactsKept, broker
    <2>5. /\ state = "RECEIVING_PACKET" /\ CallKept /\ UNCHANGED packetType
          /\ state' \in {"PACKET_RECEIVED", "IDLE", "PACKET_SENT", "SENDING_PACKET"}
          /\ state' = "IDLE" => packetType = "INVALID"
          /\ state' = "SENDING_PACKET" => buffer'.type \notin Owned
      BY <1>3, <2>1, ReceiveStates DEF Owned
    <2>6. ~(call.op = "CONNECT" /\ state' = "IDLE") /\ ~(call'.op = "CONNECT" /\ state' = "IDLE")
      BY <2>5, CallFields DEF PlaceInv, CallKept
    <2>7. (NotAsked' => NotAsked) /\ ~Starting'
      BY <2>5 DEF NotAsked, Starting, InBuffer, PlaceInv
    <2>8. CASE Completes(p) /\ p.type \in Replies
      <3>1. Replying(1)
        BY <2>1, <2>8 DEF Replying
      <3>2. \A i : ~Asking(i)' /\ ~Replying(i)'
        BY <2>2, <2>3, <3>1 DEF RequestInv, OneRequest
      <3>3. Granted'
        <4>1. Granted
          BY <3>1 DEF RequestInv
        <4> QED
          BY <2>4, <2>5, <4>1 DEF Granted, FactsKept, CallKept
      <3>4. state' = "PACKET_RECEIVED"
        BY <2>8 DEF Completes
      <3> QED
        BY <2>7, <3>2, <3>3, <3>4, RequestEmpty DEF RequestInv
    <2>9. CASE \E e \in Errors : Ignored(p, e)
      <3>1. UNCHANGED answered /\ state' \in {"IDLE", "PACKET_SENT"}
        BY <2>9 DEF Ignored, Resume
      <3>2. Got' => Got
        BY <2>6, <3>1 DEF Got
      <3> QED
        BY <2>2, <2>3, <2>4, <2>5, <2>6, <2>7, <3>1, <3>2, RequestKept
    <2>10. CASE RepliedBy(Packet("PUBACK", p.id))
      <3>1. UNCHANGED answered /\ state' = "SENDING_PACKET"
        BY <2>10 DEF RepliedBy
      <3>2. Got' => Got
        BY <3>1 DEF Got
      <3> QED
        BY <2>2, <2>3, <2>4, <2>5, <2>6, <2>7, <3>1, <3>2, RequestKept
    <2>11. packetType # "PINGREQ"
      BY DEF PlaceInv, Owned
    <2> QED
      BY <1>3, <2>1, <2>8, <2>9, <2>10, <2>11, ReceiveFromBroker
  <1> QED
    BY <1>1, <1>2, <1>3 DEF ReceiveStep

LEMMA RequestTask ==
    ASSUME AppTypeOK, CallInv, PlaceInv, PacketsInv, RequestInv, AppStep
    PROVE  RequestInv'
  <1>1. CASE CloseAndPause
    <2>1. \A i : ~Asking(i)' /\ ~Replying(i)'
      BY <1>1 DEF CloseAndPause, Disconnected, Asking, Replying
    <2>2. call' = NoCall /\ state' = "CLOSED"
      BY <1>1 DEF CloseAndPause, Close
    <2> QED
      BY <2>1, <2>2, CallFields, RequestEmpty DEF RequestInv, Granted
  <1>2. ASSUME NEW c, Call(c), UNCHANGED <<network, broker>>,
               c.op = "CONNECT" => state = "CLOSED"
        PROVE  RequestInv'
    <2>1. call = NoCall /\ (result.error = "NO_ERROR" \/ state = "CLOSED")
      BY <1>2, TaskAssumption DEF Call, MayCall
    <2>2. state = "CLOSED" \/ Quiet
      BY <2>1, CallFields DEF CallInv, Ended, PlaceInv
    <2>3. \A i : ~Asking(i) /\ ~Replying(i)
      <3>1. CASE state = "CLOSED"
        BY <3>1 DEF PacketsInv, Asking, Replying
      <3>2. CASE Quiet
        BY <3>2 DEF Quiet, RequestInv, OneRequest, NotAsked
      <3> QED
        BY <2>2, <3>1, <3>2
    <2>4. \A i : ~Asking(i)' /\ ~Replying(i)'
      BY <1>2, <2>3 DEF Asking, Replying, network
    <2>5. ~answered' /\ UNCHANGED <<state, packetType, buffer>> /\ call' = c
      BY <1>2 DEF Call, context
    <2>6. ~(state = "SENDING_PACKET" /\ buffer.type \in Owned)
      BY <2>2 DEF RequestInv, OfCall, Quiet, Owned
    <2>7. ~Got' /\ ~(call.op = "CONNECT" /\ state = "IDLE")'
      BY <1>2, <2>2, <2>5 DEF Got, Quiet
    <2> QED
      BY <2>4, <2>5, <2>6, <2>7, RequestEmpty DEF RequestInv
  <1>3. CASE UNCHANGED <<vars, network, broker>>
    <2>1. UNCHANGED <<context, call, answered>>
      BY <1>3 DEF vars, caller, progress
    <2> QED
      BY <1>3, <2>1, RequestHere DEF CallKept, NotAsked, Got, Starting, InBuffer, context
  <1>4. CASE TryConnect
    BY <1>2, <1>3, <1>4 DEF TryConnect, CallAt, PlaceInv
  <1>5. CASE Subscribe \/ Announce \/ PollButton \/ ButtonSent
    BY <1>2, <1>5, CallFields DEF Subscribe, Announce, PollButton, ButtonSent, CallAt
  <1>6. CASE Connected \/ DelayOver \/ TaskDone
    BY <1>3, <1>6 DEF Connected, DelayOver, TaskDone
  <1> QED
    BY <1>1, <1>4, <1>5, <1>6 DEF AppStep

LEMMA Answered ==
    ASSUME AppTypeOK, NEW p \in Packets, Answer(p)
    PROVE  /\ Len(down) \in Nat /\ DOMAIN down = 1 .. Len(down)
           /\ DOMAIN down' = 1 .. Len(down) + 1
           /\ \A i \in 1 .. Len(down) : down'[i] = down[i]
           /\ down'[Len(down) + 1].pkt = p
  <1>1. [pkt |-> p, whole |-> TRUE] \in Deliveries
    BY DEF Deliveries
  <1> QED
    BY <1>1, AppendElements DEF Answer, AppTypeOK

\* The broker answers the request at the head of up.
LEMMA RequestAnswered ==
    ASSUME AppTypeOK, RequestInv, up # <<>>, Head(up).type \in Owned,
           \A i : ~Asking(i)',
           NEW r \in Packets, Answer(r),
           UNCHANGED <<context, call, answered>>,
           Granted',
           session => session', net' = "ok" => net = "ok"
    PROVE  RequestInv'
  <1>1. Asking(1)
    BY TailElements DEF AppTypeOK, Asking
  <1>2. ~NotAsked /\ ~Got /\ \A i : ~Replying(i)
    BY <1>1 DEF RequestInv, OneRequest
  <1>3. ~NotAsked' /\ ~Got' /\ (Starting' => Starting)
    BY <1>2 DEF NotAsked, Got, InBuffer, Starting, context
  <1>4. \A i : Replying(i)' => i = Len(down) + 1
    BY <1>2, Answered DEF Replying
  <1>5. OneRequest'
    BY <1>3, <1>4 DEF OneRequest
  <1>6. (state = "SENDING_PACKET" /\ buffer.type \in Owned)' => OfCall(buffer)'
    BY DEF RequestInv, OfCall, context
  <1> QED
    BY <1>3, <1>5, <1>6 DEF RequestInv, context

LEMMA RequestBroker ==
    ASSUME AppTypeOK, RequestInv, BrokerStep
    PROVE  RequestInv'
  <1> DEFINE p == Head(up)
  <1>0. /\ up # <<>> /\ up' = Tail(up) /\ net = "ok" /\ UNCHANGED <<vars, net>>
        /\ UNCHANGED <<context, call, answered>>
    BY DEF BrokerStep, vars, caller, progress
  <1>1. /\ \A i : Asking(i)' => i \in Int /\ Asking(i + 1) /\ up'[i] = up[i + 1] /\ i + 1 # 1
        /\ p = up[1] /\ 1 \in DOMAIN up /\ p \in Packets
    BY <1>0, UpTaken
  <1>2. p.id \in PacketIds
    BY <1>1 DEF Packets
  <1>3. p.type \in Owned => (\A i : ~Asking(i)') /\ OfCall(p)
    <2>1. p.type \in Owned => Asking(1)
      BY <1>1 DEF Asking
    <2> QED
      BY <1>1, <2>1 DEF RequestInv, OneRequest
  <1>4. CASE BrokerConnect(p)
    <2>1. Packet("CONNACK", 0) \in Packets /\ Answer(Packet("CONNACK", 0))
      BY <1>4, PacketTyped, ZeroIsPacketId DEF BrokerConnect, PacketTypes
    <2>2. p.type = "CONNECT" /\ session'
      BY <1>4 DEF BrokerConnect
    <2>3. Granted'
      BY <1>0, <1>3, <2>2 DEF Granted, OfCall, Owned, context
    <2> QED
      BY <1>0, <1>3, <2>1, <2>2, <2>3, RequestAnswered DEF Owned
  <1>5. CASE BrokerSubscribe(p)
    <2>1. PICK granted \in BOOLEAN : Answer([Packet("SUBACK", p.id) EXCEPT !.ok = granted])
      BY <1>5 DEF BrokerSubscribe
    <2>2. [Packet("SUBACK", p.id) EXCEPT !.ok = granted] \in Packets
      BY <1>2, AnswersDownward, IncomingTyped DEF Downward
    <2>3. p.type = "SUBSCRIBE" /\ subscribeSeen' /\ UNCHANGED session
      BY <1>5 DEF BrokerSubscribe
    <2>4. Granted'
      BY <1>0, <1>3, <2>3 DEF Granted, OfCall, Owned, context
    <2> QED
      BY <1>0, <1>3, <2>1, <2>2, <2>3, <2>4, RequestAnswered DEF Owned
  <1>6. CASE BrokerPublish(p)
    <2>1. Packet("PUBACK", p.id) \in Packets /\ Answer(Packet("PUBACK", p.id))
      BY <1>2, <1>6, PacketTyped DEF BrokerPublish, PacketTypes
    <2>2. /\ p.type = "PUBLISH" /\ UNCHANGED session
          /\ p.msg = "online" => announced'
          /\ p.msg \in Buttons => retainedButton' = p.msg
      BY <1>6 DEF BrokerPublish
    <2>3. Granted'
      BY <1>0, <1>3, <2>2 DEF Granted, OfCall, Owned, context
    <2> QED
      BY <1>0, <1>3, <2>1, <2>2, <2>3, RequestAnswered DEF Owned
  <1>7. CASE BrokerPubAck(p) \/ BrokerPing(p)
    <2>1. \A i : Replying(i)' => i \in Int /\ Replying(i + 0)
      <3>1. CASE UNCHANGED down
        BY <3>1, DownKept
      <3>2. CASE Answer(Packet("PINGRESP", 0))
        <4>1. [pkt |-> Packet("PINGRESP", 0), whole |-> TRUE] \in Deliveries
          BY PacketTyped, ZeroIsPacketId DEF PacketTypes, Deliveries
        <4>2. Packet("PINGRESP", 0).type \notin Replies
          BY DEF Packet, Replies
        <4> QED
          BY <3>2, <4>1, <4>2, DownKept DEF Answer
      <3> QED
        BY <1>7, <3>1, <3>2 DEF BrokerPubAck, BrokerPing
    <2>2. FactsKept
      BY <1>0, <1>7 DEF FactsKept, BrokerPubAck, BrokerPing, broker
    <2>3. /\ (NotAsked' => NotAsked) /\ (Got' => Got) /\ (Starting' => Starting)
          /\ CallKept /\ UNCHANGED <<packetType, answered, state, buffer, call>>
      BY <1>0 DEF NotAsked, Got, Starting, InBuffer, CallKept, context
    <2> QED
      BY <1>1, <2>1, <2>2, <2>3, RequestKept
  <1> QED
    BY <1>4, <1>5, <1>6, <1>7 DEF BrokerStep

LEMMA RequestRefused ==
    ASSUME AppTypeOK, RequestInv, BrokerRefuse
    PROVE  RequestInv'
  <1>1. /\ up # <<>> /\ Head(up).type = "CONNECT" /\ up' = <<>> /\ net' = "reset"
        /\ UNCHANGED <<vars, broker>>
        /\ Answer([Packet("CONNACK", 0) EXCEPT !.ok = FALSE])
    BY DEF BrokerRefuse
  <1>2. [Packet("CONNACK", 0) EXCEPT !.ok = FALSE] \in Packets
    BY AnswersDownward, IncomingTyped DEF Downward
  <1>3. UNCHANGED <<context, call, answered, session>>
    BY <1>1 DEF vars, caller, progress, broker
  <1>4. Asking(1)
    BY <1>1, TailElements DEF AppTypeOK, Asking, Owned
  <1>5. packetType = "CONNECT"
    BY <1>1, <1>4, TailElements DEF RequestInv, OfCall, AppTypeOK
  <1>6. Granted' /\ \A i : ~Asking(i)'
    BY <1>1, <1>3, <1>5 DEF Granted, Asking, context
  <1> QED
    BY <1>1, <1>2, <1>3, <1>6, RequestAnswered DEF Owned

LEMMA StepRequest ==
    ASSUME AppTypeOK, AppTypeOK', CallInv, PlaceInv, PacketsInv, RequestInv,
           [AppNext]_appVars
    PROVE  RequestInv'
  <1>1. CASE ClientStep
    <2>1. UNCHANGED task
      BY <1>1 DEF ClientStep
    <2>2. SendStep => InProcessEvents
      BY DEF SendStep, SendData
    <2> QED
      BY <1>1, <2>1, <2>2, RequestLocal, RequestConnect, RequestSend, RequestReceive
      DEF ClientStep
  <1>2. CASE AppStep
    BY <1>2, RequestTask
  <1>3. CASE BrokerStep
    BY <1>3, RequestBroker
  <1>4. CASE BrokerRefuse
    BY <1>4, RequestRefused
  <1>5. ASSUME UNCHANGED <<context, call, answered>>, FactsKept,
               \A i : Asking(i)' => i \in Int /\ Asking(i + 0) /\ up'[i] = up[i + 0],
               \A i : Replying(i)' => i \in Int /\ Replying(i + 0)
        PROVE  RequestInv'
    <2>1. /\ (NotAsked' => NotAsked) /\ (Got' => Got) /\ (Starting' => Starting)
          /\ CallKept /\ UNCHANGED <<packetType, answered, state, buffer, call>>
      BY <1>5 DEF NotAsked, Got, Starting, InBuffer, CallKept, context
    <2> QED
      BY <1>5, <2>1, RequestKept
  <1>6. CASE PressButton \/ LinkUp \/ TcpGiveUp \/ TimePasses \/ UNCHANGED appVars
    <2>1. /\ UNCHANGED <<context, call, answered, up, down>> /\ FactsKept
      BY <1>6 DEF PressButton, LinkUp, TcpGiveUp, TimePasses, KeepAliveExpires, appVars,
                  vars, caller, progress, network, broker, FactsKept
    <2> QED
      BY <1>5, <2>1, UpKept, DownKept
  <1>7. CASE LinkDown \/ SilentLoss \/ Reset
    <2>1. /\ UNCHANGED <<context, call, answered>> /\ FactsKept
          /\ UNCHANGED up \/ up' = <<>>
      BY <1>7 DEF LinkDown, SilentLoss, Reset, LoseTail, EndSession, vars, caller, progress,
                  network, broker, FactsKept
    <2>2. \/ UNCHANGED down
          \/ \A i \in DOMAIN down' : i \in DOMAIN down /\ down'[i].pkt = down[i].pkt
      BY <1>7, LoseTailElements DEF LinkDown, SilentLoss, Reset, network
    <2> QED
      BY <1>5, <2>1, <2>2, UpKept, DownKept
  <1>8. CASE SendLedMessage
    <2>1. /\ UNCHANGED <<context, call, answered, up>> /\ FactsKept
      BY <1>8 DEF SendLedMessage, vars, caller, progress, FactsKept
    <2>2. \E d \in Deliveries : d.pkt.type \notin Replies /\ down' = Append(down, d)
      <3>1. PICK i \in PacketIds, q \in {0, 1} : Answer(PublishPacket(i, q, NoMsg))
        BY <1>8, ZeroIsPacketId DEF SendLedMessage
      <3>2. PublishPacket(i, q, NoMsg) \in Packets
        BY AnswersDownward, IncomingTyped DEF Downward
      <3>3. PublishPacket(i, q, NoMsg).type \notin Replies
        BY DEF PublishPacket, Replies
      <3>4. [pkt |-> PublishPacket(i, q, NoMsg), whole |-> TRUE] \in Deliveries
        BY <3>2 DEF Deliveries
      <3> QED
        BY <3>1, <3>3, <3>4 DEF Answer
    <2> QED
      BY <1>5, <2>1, <2>2, UpKept, DownKept
  <1> QED
    BY <1>1, <1>2, <1>3, <1>4, <1>6, <1>7, <1>8 DEF AppNext

-----------------------------------------------------------------------------
(* The stages of the connection *)

Stages == {"connecting", "subscribing", "announcing", "publishing"}

LEMMA StageKept ==
    ASSUME StageInv, FactsKept, UNCHANGED task,
           \A p \in Stages : Succeeded(p)' => Succeeded(p)
    PROVE  StageInv'
  BY DEF StageInv, FactsKept, task, Stages

\* A call that goes on or that fails is no success, and a run of
\* mqttClientTask concerns none of the stages.
LEMMA NoSuccess ==
    ASSUME CallOfPlace, call # NoCall, UNCHANGED task,
           \/ \E e : EndOfEvent(e) \/ Status(e)
           \/ \E e : e # "NO_ERROR" /\ Return(e)
    PROVE  \A p \in Stages : ~Succeeded(p)'
  <1>1. call.op = "TASK" => at = "task"
    BY CallPlaces
  <1>2. ASSUME NEW e, Return(e), e # "NO_ERROR" PROVE \A p \in Stages : ~Succeeded(p)'
    BY <1>2 DEF Return, Succeeded
  <1>3. ASSUME NEW e, Status(e) PROVE \A p \in Stages : ~Succeeded(p)'
    BY <1>3 DEF Status, Succeeded
  <1>4. ASSUME NEW e, EndOfEvent(e) PROVE \A p \in Stages : ~Succeeded(p)'
    <2>1. CASE call.op = "TASK"
      BY <1>1, <2>1 DEF Stages, Succeeded, task
    <2>2. CASE call.op # "TASK"
      BY <1>3, <1>4, <2>2 DEF EndOfEvent
    <2> QED
      BY <2>1, <2>2
  <1> QED
    BY <1>2, <1>3, <1>4

LEMMA ClientStage ==
    ASSUME AppTypeOK, CallInv, PlaceInv, PacketsInv, RequestInv, StageInv, ClientStep
    PROVE  StageInv'
  <1>0. UNCHANGED task /\ CallOfPlace
    BY DEF ClientStep, PlaceInv
  <1>1. ASSUME UNCHANGED <<net, broker>>, call # NoCall,
               \/ \E e : EndOfEvent(e) \/ Status(e)
               \/ \E e : e # "NO_ERROR" /\ Return(e)
        PROVE  StageInv'
    <2>1. FactsKept
      BY <1>1 DEF FactsKept, broker
    <2> QED
      BY <1>0, <1>1, <2>1, NoSuccess, StageKept
  <1>2. CASE ConnectDone /\ UNCHANGED <<network, broker>>
    <2>1. at = "connecting" /\ state = "IDLE" /\ call.op = "CONNECT" /\ ~connectionState
      BY <1>2, CallPlaces DEF ConnectDone, Running, PlaceInv
    <2>2. net = "ok" => session
      BY <2>1 DEF RequestInv
    <2> QED
      BY <1>0, <1>2, <2>1, <2>2 DEF StageInv, Succeeded, task, network, broker
  <1>3. CASE RequestDone /\ UNCHANGED <<network, broker>>
    <2>1. /\ call.op \in {"PUBLISH", "SUBSCRIBE"} /\ call.wait /\ call # NoCall
          /\ state = "IDLE" /\ packetType # "INVALID"
      BY <1>3, CallPlaces, CallFields DEF RequestDone, Requests, PlaceInv
    <2>2. answered /\ packetType = call.op
      BY <2>1 DEF CallInv, Requests, Ended, Quiet, InRequest
    <2>3. Granted
      BY <2>2 DEF RequestInv, Got
    <2>4. buttonState \in Buttons
      BY DEF AppTypeOK
    <2>5. \/ /\ at = "subscribing" /\ (net = "ok" => subscribeSeen)
          \/ /\ at = "announcing" /\ (net = "ok" => announced)
          \/ /\ at = "publishing" /\ retainedButton = buttonState
      BY <2>1, <2>2, <2>3, <2>4, CallPlaces DEF Granted, PlaceInv
    <2> QED
      BY <1>0, <1>3, <2>5 DEF StageInv, Succeeded, task, network, broker
  <1>4. CASE LocalStep
    <2>1. call # NoCall
      BY <1>4, CallFields
      DEF LocalStep, PacketSent, NoEvent, OpenConnection, SendConnect, ConnectAccepted,
          ConnectDone, StartPublish, StartSubscribe, StartRequest, RequestComplete,
          RequestDone, RequestError, InProcessEvents, Running, Requests
    <2>2. \/ ConnectDone \/ RequestDone
          \/ \E e : EndOfEvent(e) \/ Status(e)
          \/ \E e : e # "NO_ERROR" /\ Return(e)
      BY <1>4
      DEF LocalStep, PacketSent, NoEvent, OpenConnection, SendConnect, ConnectAccepted,
          StartPublish, StartSubscribe, StartRequest, RequestComplete, RequestError
    <2>3. UNCHANGED <<network, broker>> /\ UNCHANGED <<net, broker>>
      BY <1>4 DEF LocalStep, network
    <2> QED
      BY <1>1, <1>2, <1>3, <2>1, <2>2, <2>3
  <1>5. CASE ConnectStep
    <2>1. call.op = "CONNECT" /\ call # NoCall /\ at = "connecting" /\ ~connectionState
      BY <1>5, CallFields, CallPlaces
      DEF ConnectStep, EstablishConnection, ConnectError, Running, PlaceInv
    <2>2. CASE EstablishConnection /\ ~(UNCHANGED <<network, broker>>)
      <3>1. call' = call
        BY <2>2 DEF EstablishConnection, Status
      <3> QED
        BY <1>0, <2>1, <3>1 DEF StageInv, Succeeded, task
    <2>3. CASE EstablishConnection /\ UNCHANGED <<network, broker>>
      <3>1. UNCHANGED <<net, broker>> /\ \E e : EndOfEvent(e) \/ Status(e)
        BY <2>3 DEF EstablishConnection, network
      <3> QED
        BY <1>1, <2>1, <3>1
    <2>4. CASE ConnectError
      <3>1. call' = NoCall /\ result'.error # "NO_ERROR"
        BY <2>4 DEF ConnectError, Return
      <3> QED
        BY <1>0, <2>1, <3>1 DEF StageInv, Succeeded, task
    <2> QED
      BY <1>5, <2>2, <2>3, <2>4 DEF ConnectStep
  <1>6. CASE SendStep \/ WaitStep \/ ReceiveStep
    <2>1. UNCHANGED <<net, broker>>
      BY <1>6 DEF SendStep, WaitStep, ReceiveStep, network
    <2>2. call # NoCall /\ \E e : EndOfEvent(e)
      <3>1. CASE SendStep
        BY <3>1, CallFields DEF SendStep, SendData, InProcessEvents, Requests
      <3>2. CASE WaitStep
        BY <3>2, CallFields
        DEF WaitStep, WaitForDataReady, WaitForDataTimeout, InProcessEvents, Requests
      <3>3. CASE \E k \in 0..Units, e \in {"TIMEOUT", "FAILURE"} : ReceivePartly(k, e)
        BY <3>3, CallFields DEF ReceivePartly, InProcessEvents, Requests
      <3>4. CASE down # <<>> /\ ReceivePacket(Head(down).pkt)
        BY <3>4, HeadReceived, ReceiveFromBroker, CallFields
        DEF Completes, Ignored, RepliedBy, Received, InProcessEvents, Requests
      <3> QED
        BY <1>6, <3>1, <3>2, <3>3, <3>4 DEF ReceiveStep
    <2> QED
      BY <1>1, <2>1, <2>2
  <1> QED
    BY <1>4, <1>5, <1>6 DEF ClientStep

\* While a publication is a success, no other one is on its way.
LEMMA BrokerStage ==
    ASSUME AppTypeOK, CallInv, PlaceInv, PacketsInv, RequestInv, StageInv, BrokerStep
    PROVE  StageInv'
  <1> DEFINE p == Head(up)
  <1>1. /\ net = "ok" /\ up # <<>> /\ UNCHANGED <<call, result, task, net>>
        /\ \/ BrokerConnect(p) \/ BrokerSubscribe(p) \/ BrokerPublish(p)
           \/ BrokerPubAck(p) \/ BrokerPing(p)
    BY DEF BrokerStep, vars, caller
  <1>2. (session => session') /\ (subscribeSeen => subscribeSeen') /\ (announced => announced')
    <2>1. CASE BrokerPublish(p)
      BY <2>1, Zenon DEF BrokerPublish
    <2>2. CASE BrokerConnect(p) \/ BrokerSubscribe(p) \/ BrokerPubAck(p) \/ BrokerPing(p)
      BY <2>2 DEF BrokerConnect, BrokerSubscribe, BrokerPubAck, BrokerPing, broker
    <2> QED
      BY <1>1, <2>1, <2>2
  <1>3. Succeeded("publishing") => UNCHANGED retainedButton
    <2>1. CASE p.type = "PUBLISH" /\ Succeeded("publishing")
      <3>1. Ended \/ Quiet
        BY <2>1, CallFields DEF Succeeded, CallInv
      <3>2. packetType = "INVALID"
        BY <1>1, <3>1 DEF Ended, Quiet, PlaceInv, PacketsInv
      <3>3. Asking(1)
        BY <1>1, <2>1, TailElements DEF AppTypeOK, Asking, Owned
      <3> QED
        BY <3>2, <3>3 DEF RequestInv, OneRequest, NotAsked
    <2>2. CASE p.type # "PUBLISH"
      BY <1>1, <2>2
      DEF BrokerConnect, BrokerSubscribe, BrokerPublish, BrokerPubAck, BrokerPing, broker
    <2> QED
      BY <2>1, <2>2
  <1>4. \A q : Succeeded(q)' <=> Succeeded(q)
    BY <1>1 DEF Succeeded, task
  <1> QED
    BY <1>1, <1>2, <1>3, <1>4 DEF StageInv, task

LEMMA StepStage ==
    ASSUME AppTypeOK, CallInv, PlaceInv, PacketsInv, RequestInv, StageInv,
           [AppNext]_appVars
    PROVE  StageInv'
  <1>1. CASE ClientStep
    BY <1>1, ClientStage
  <1>2. CASE AppStep
    <2> USE CallFields DEF StageInv, Succeeded, PlaceInv, CallAt, Call, network, broker
    <2>1. CASE TryConnect
      BY <2>1 DEF TryConnect, vars, caller
    <2>2. CASE Subscribe \/ Announce
      BY <2>2 DEF Subscribe, Announce
    <2>3. CASE Connected \/ DelayOver \/ TaskDone
      BY <2>3 DEF Connected, DelayOver, TaskDone, vars, caller
    <2>4. CASE CloseAndPause
      BY <2>4 DEF CloseAndPause, Disconnected
    <2>5. CASE PollButton \/ ButtonSent
      BY <2>5 DEF PollButton, ButtonSent
    <2> QED
      BY <1>2, <2>1, <2>2, <2>3, <2>4, <2>5 DEF AppStep
  <1>3. CASE BrokerStep
    BY <1>3, BrokerStage
  <1>4. CASE PressButton \/ LinkUp \/ TcpGiveUp \/ TimePasses \/ UNCHANGED appVars
             \/ LinkDown \/ SilentLoss \/ Reset \/ BrokerRefuse \/ SendLedMessage
    <2>1. UNCHANGED <<call, result, task>> /\ FactsKept
      BY <1>4 DEF PressButton, LinkUp, TcpGiveUp, TimePasses, KeepAliveExpires, appVars,
                  LinkDown, SilentLoss, Reset, LoseTail, EndSession, BrokerRefuse,
                  SendLedMessage, vars, caller, network, broker, FactsKept
    <2>2. \A p \in Stages : Succeeded(p)' => Succeeded(p)
      BY <2>1 DEF Succeeded, task
    <2> QED
      BY <2>1, <2>2, StageKept
  <1> QED
    BY <1>1, <1>2, <1>3, <1>4 DEF AppNext

-----------------------------------------------------------------------------
(* Acknowledgements of the messages for the LED *)

\* p is a message for the LED of level 1 with identifier id.
Carries(p, id) == p.type = "PUBLISH" /\ p.qos = 1 /\ p.id = id

LEMMA PacketFields ==
    /\ \A t, i : Packet(t, i).type = t /\ Packet(t, i).id = i
    /\ \A t, i, j : Packet(t, i) = Packet(t, j) => i = j
    /\ \A i, q, m : /\ PublishPacket(i, q, m).type = "PUBLISH"
                    /\ PublishPacket(i, q, m).qos = q /\ PublishPacket(i, q, m).id = i
    /\ \A i : NoPacket # Packet("PUBACK", i)
  <1>1. \A t, i : Packet(t, i).type = t /\ Packet(t, i).id = i
    BY DEF Packet
  <1>2. NoPacket.type = "NONE"
    BY DEF NoPacket, Packet
  <1>3. \A i, q, m : /\ PublishPacket(i, q, m).type = "PUBLISH"
                     /\ PublishPacket(i, q, m).qos = q /\ PublishPacket(i, q, m).id = i
    BY DEF PublishPacket
  <1>4. \A t, i, j : Packet(t, i) = Packet(t, j) => i = j
    <2> TAKE t, i, j
    <2>1. Packet(t, i).id = i /\ Packet(t, j).id = j
      BY <1>1
    <2> QED
      BY <2>1
  <1>5. ASSUME NEW i PROVE NoPacket # Packet("PUBACK", i)
    <2>1. Packet("PUBACK", i).type = "PUBACK"
      BY <1>1
    <2> QED
      BY <1>2, <2>1
  <1> QED
    BY <1>1, <1>3, <1>4, <1>5

LEMMA LeavingAppend ==
    ASSUME AppTypeOK, NEW p \in Packets, up' = Append(up, p), NEW id
    PROVE  /\ \A i : Leaving(i, id) => i \in 1 .. Len(up)
           /\ Len(up) \in Nat
           /\ \A i : Leaving(i, id)' <=>
                 Leaving(i, id) \/ (i = Len(up) + 1 /\ p = Packet("PUBACK", id))
  <1> DEFINE t == Append(up, p)
  <1>1. /\ Len(up) \in Nat /\ DOMAIN up = 1 .. Len(up)
        /\ DOMAIN t = 1 .. Len(up) + 1
        /\ \A i \in 1 .. Len(up) : t[i] = up[i]
        /\ t[Len(up) + 1] = p
    BY AppendElements DEF AppTypeOK
  <1>2. up' = t
    OBVIOUS
  <1> HIDE DEF t
  <1>3. \A i : i \in 1 .. Len(up) + 1 <=> i \in 1 .. Len(up) \/ i = Len(up) + 1
    BY <1>1
  <1> QED
    BY <1>1, <1>2, <1>3 DEF Leaving

LEMMA LeavingTail ==
    ASSUME AppTypeOK, up # <<>>, up' = Tail(up), NEW id
    PROVE  /\ \A i : Leaving(i, id) => i \in 1 .. Len(up)
           /\ Len(up) \in Nat
           /\ \A i : Leaving(i, id)' <=> i \in 1 .. Len(up) - 1 /\ Leaving(i + 1, id)
           /\ Leaving(1, id) <=> Head(up) = Packet("PUBACK", id)
  <1>1. /\ Len(up) \in Nat \ {0} /\ DOMAIN up = 1 .. Len(up)
        /\ DOMAIN up' = 1 .. Len(up) - 1
        /\ \A i \in 1 .. Len(up) - 1 : up'[i] = up[i + 1]
        /\ Head(up) = up[1]
    BY TailElements DEF AppTypeOK
  <1>2. \A i \in 1 .. Len(up) - 1 : i + 1 \in 1 .. Len(up)
    BY <1>1
  <1> QED
    BY <1>1, <1>2 DEF Leaving

LEMMA ArrivingAppend ==
    ASSUME AppTypeOK, NEW p \in Packets, Answer(p), NEW id
    PROVE  /\ \A i : Arriving(i, id) => i \in 1 .. Len(down)
           /\ Len(down) \in Nat
           /\ \A i : Arriving(i, id)' <=>
                 Arriving(i, id) \/ (i = Len(down) + 1 /\ Carries(p, id))
  <1>1. /\ Len(down) \in Nat /\ DOMAIN down = 1 .. Len(down)
        /\ DOMAIN down' = 1 .. Len(down) + 1
        /\ \A i \in 1 .. Len(down) : down'[i] = down[i]
        /\ down'[Len(down) + 1].pkt = p
    BY Answered
  <1>2. \A i : i \in 1 .. Len(down) + 1 <=> i \in 1 .. Len(down) \/ i = Len(down) + 1
    BY <1>1
  <1> QED
    BY <1>1, <1>2 DEF Arriving, Carries

LEMMA ArrivingTail ==
    ASSUME AppTypeOK, down # <<>>, down' = Tail(down), NEW id
    PROVE  /\ \A i : Arriving(i, id) => i \in 1 .. Len(down)
           /\ Len(down) \in Nat
           /\ \A i : Arriving(i, id)' <=> i \in 1 .. Len(down) - 1 /\ Arriving(i + 1, id)
           /\ Arriving(1, id) <=> Carries(Head(down).pkt, id)
  <1>1. /\ Len(down) \in Nat \ {0} /\ DOMAIN down = 1 .. Len(down)
        /\ DOMAIN down' = 1 .. Len(down) - 1
        /\ \A i \in 1 .. Len(down) - 1 : down'[i] = down[i + 1]
        /\ Head(down) = down[1]
    BY TailElements DEF AppTypeOK
  <1>2. \A i \in 1 .. Len(down) - 1 : i + 1 \in 1 .. Len(down)
    BY <1>1
  <1> QED
    BY <1>1, <1>2 DEF Arriving, Carries

\* A direction carries identifier id as before, but for one packet taken from
\* its head.
LeavingKept(id) ==
    \E a \in {0, 1} :
        /\ \A i : Leaving(i, id)' => i \in Int /\ Leaving(i + a, id)
        /\ \A i : Leaving(i, id) => i \in Int /\ Leaving(i - a, id)'
ArrivingKept(id) ==
    \E a \in {0, 1} :
        /\ \A i : Arriving(i, id)' => i \in Int /\ Arriving(i + a, id)
        /\ \A i : Arriving(i, id) => i \in Int /\ Arriving(i - a, id)'

LEMMA LeavingKeptWhen ==
    ASSUME AppTypeOK, NEW id,
           \/ UNCHANGED up
           \/ \E p \in Packets : p # Packet("PUBACK", id) /\ up' = Append(up, p)
           \/ up # <<>> /\ Head(up) # Packet("PUBACK", id) /\ up' = Tail(up)
    PROVE  LeavingKept(id)
  <1>0. Len(up) \in Nat /\ \A i : Leaving(i, id) => i \in 1 .. Len(up)
    BY DEF AppTypeOK, Leaving
  <1>1. CASE UNCHANGED up
    <2>1. \A i : Leaving(i, id)' <=> Leaving(i, id)
      BY <1>1 DEF Leaving
    <2>2. \A i : Leaving(i, id) => i \in Int /\ i + 0 = i /\ i - 0 = i
      BY <1>0
    <2> QED
      BY <2>1, <2>2 DEF LeavingKept
  <1>2. ASSUME NEW p \in Packets, p # Packet("PUBACK", id), up' = Append(up, p)
        PROVE  LeavingKept(id)
    <2>1. \A i : Leaving(i, id)' <=> Leaving(i, id)
      BY <1>2, LeavingAppend
    <2>2. \A i : Leaving(i, id) => i \in Int /\ i + 0 = i /\ i - 0 = i
      BY <1>0
    <2> QED
      BY <2>1, <2>2 DEF LeavingKept
  <1>3. CASE up # <<>> /\ Head(up) # Packet("PUBACK", id) /\ up' = Tail(up)
    <2>1. /\ \A i : Leaving(i, id)' <=> i \in 1 .. Len(up) - 1 /\ Leaving(i + 1, id)
          /\ ~Leaving(1, id)
      BY <1>3, LeavingTail
    <2>2. \A i : Leaving(i, id)' => i \in Int /\ Leaving(i + 1, id)
      BY <2>1, <1>0
    <2>3. ASSUME NEW i, Leaving(i, id) PROVE i \in Int /\ Leaving(i - 1, id)'
      <3>1. i \in 2 .. Len(up)
        BY <1>0, <2>1, <2>3
      <3>2. i - 1 \in 1 .. Len(up) - 1 /\ (i - 1) + 1 = i
        BY <1>0, <3>1
      <3> QED
        BY <2>1, <2>3, <3>1, <3>2
    <2> QED
      BY <2>2, <2>3 DEF LeavingKept
  <1> QED
    BY <1>1, <1>2, <1>3

LEMMA ArrivingKeptWhen ==
    ASSUME AppTypeOK, NEW id,
           \/ UNCHANGED down
           \/ \E p \in Packets : ~Carries(p, id) /\ Answer(p)
           \/ down # <<>> /\ ~Carries(Head(down).pkt, id) /\ down' = Tail(down)
    PROVE  ArrivingKept(id)
  <1>0. Len(down) \in Nat /\ \A i : Arriving(i, id) => i \in 1 .. Len(down)
    BY DEF AppTypeOK, Arriving
  <1>1. CASE UNCHANGED down
    <2>1. \A i : Arriving(i, id)' <=> Arriving(i, id)
      BY <1>1 DEF Arriving
    <2>2. \A i : Arriving(i, id) => i \in Int /\ i + 0 = i /\ i - 0 = i
      BY <1>0
    <2> QED
      BY <2>1, <2>2 DEF ArrivingKept
  <1>2. ASSUME NEW p \in Packets, ~Carries(p, id), Answer(p)
        PROVE  ArrivingKept(id)
    <2>1. \A i : Arriving(i, id)' <=> Arriving(i, id)
      BY <1>2, ArrivingAppend
    <2>2. \A i : Arriving(i, id) => i \in Int /\ i + 0 = i /\ i - 0 = i
      BY <1>0
    <2> QED
      BY <2>1, <2>2 DEF ArrivingKept
  <1>3. CASE down # <<>> /\ ~Carries(Head(down).pkt, id) /\ down' = Tail(down)
    <2>1. /\ \A i : Arriving(i, id)' <=> i \in 1 .. Len(down) - 1 /\ Arriving(i + 1, id)
          /\ ~Arriving(1, id)
      BY <1>3, ArrivingTail
    <2>2. \A i : Arriving(i, id)' => i \in Int /\ Arriving(i + 1, id)
      BY <2>1, <1>0
    <2>3. ASSUME NEW i, Arriving(i, id) PROVE i \in Int /\ Arriving(i - 1, id)'
      <3>1. i \in 2 .. Len(down)
        BY <1>0, <2>1, <2>3
      <3>2. i - 1 \in 1 .. Len(down) - 1 /\ (i - 1) + 1 = i
        BY <1>0, <3>1
      <3> QED
        BY <2>1, <2>3, <3>1, <3>2
    <2> QED
      BY <2>2, <2>3 DEF ArrivingKept
  <1> QED
    BY <1>1, <1>2, <1>3

LEMMA OnePlaceKept ==
    ASSUME NEW id, OnePlace(id), LeavingKept(id), ArrivingKept(id),
           InHand(id)' <=> InHand(id),
           id \in ledInFlight' <=> id \in ledInFlight
    PROVE  OnePlace(id)'
  <1>1. PICK a \in {0, 1} :
           /\ \A i : Leaving(i, id)' => i \in Int /\ Leaving(i + a, id)
           /\ \A i : Leaving(i, id) => i \in Int /\ Leaving(i - a, id)'
    BY DEF LeavingKept
  <1>2. PICK b \in {0, 1} :
           /\ \A i : Arriving(i, id)' => i \in Int /\ Arriving(i + b, id)
           /\ \A i : Arriving(i, id) => i \in Int /\ Arriving(i - b, id)'
    BY DEF ArrivingKept
  <1>3. ASSUME NEW i, NEW j, Leaving(i, id)', Leaving(j, id)' PROVE i = j
    <2>1. i \in Int /\ j \in Int /\ i + a = j + a
      BY <1>1, <1>3 DEF OnePlace
    <2> QED
      BY <2>1
  <1>4. ASSUME NEW i, NEW j, Arriving(i, id)', Arriving(j, id)' PROVE i = j
    <2>1. i \in Int /\ j \in Int /\ i + b = j + b
      BY <1>2, <1>4 DEF OnePlace
    <2> QED
      BY <2>1
  <1>5. /\ (\E i : Leaving(i, id)') <=> (\E i : Leaving(i, id))
        /\ (\E i : Arriving(i, id)') <=> (\E i : Arriving(i, id))
    BY <1>1, <1>2
  <1> QED
    BY <1>3, <1>4, <1>5 DEF OnePlace

\* The step moves no message for the LED and no acknowledgement.
LedStill ==
    /\ net' = "ok" => net = "ok" /\ UNCHANGED <<up, down, ledInFlight>>
    /\ owed' \in {owed, NoPacket}
    /\ net' = "ok" => UNCHANGED owed
    /\ InBuffer("PUBACK")' => InBuffer("PUBACK") /\ UNCHANGED <<buffer, owed>>

LEMMA LedKept ==
    ASSUME AppTypeOK, LedInv, LedStill
    PROVE  LedInv'
  <1>1. (owed = NoPacket \/ \E id \in PacketIds : InHand(id))'
    BY DEF LedInv, LedStill, InHand
  <1>2. InBuffer("PUBACK")' => owed' = buffer'
    BY DEF LedInv, LedStill
  <1>3. ASSUME net' = "ok", NEW id \in PacketIds PROVE OnePlace(id)'
    <2>1. OnePlace(id) /\ LeavingKept(id) /\ ArrivingKept(id)
      BY <1>3, LeavingKeptWhen, ArrivingKeptWhen DEF LedInv, LedStill
    <2> QED
      BY <1>3, <2>1, OnePlaceKept DEF LedStill, InHand
  <1> QED
    BY <1>1, <1>2, <1>3 DEF LedInv

\* The acknowledgement leaves the buffer for the network.
LEMMA LedSend ==
    ASSUME AppTypeOK, PacketsInv, LedInv, SendStep
    PROVE  LedInv'
  <1>1. /\ UNCHANGED <<net, down, broker>> /\ UNCHANGED ledInFlight
        /\ state' = "SENDING_PACKET" /\ buffer' = OutPacket
        /\ OutPacket \in Packets
    BY SendEffect, OutPacketTyped DEF broker, AppTypeOK
  <1>2. CASE OutPacket.type # "PUBACK"
    <2>1. \A id : OutPacket # Packet("PUBACK", id)
      BY <1>2, PacketFields
    <2>2. owed' = owed \/ (owed = OutPacket /\ owed' = NoPacket)
      BY SendEffect
    <2>3. \A id : InHand(id)' <=> InHand(id)
      BY <2>1, <2>2, PacketFields DEF InHand
    <2>4. \A id : LeavingKept(id) /\ ArrivingKept(id)
      BY <1>1, <2>1, SendEffect, LeavingKeptWhen, ArrivingKeptWhen
    <2>5. \A id \in PacketIds : OnePlace(id) => OnePlace(id)'
      BY <1>1, <2>3, <2>4, OnePlaceKept
    <2>6. ~InBuffer("PUBACK")'
      BY <1>1, <1>2 DEF InBuffer
    <2> QED
      BY <1>1, <2>2, <2>3, <2>5, <2>6 DEF LedInv
  <1>3. CASE OutPacket.type = "PUBACK"
    <2>1. state = "SENDING_PACKET" /\ packetPos < Units /\ OutPacket = buffer
      BY <1>3, SendEffect, PacketFields
    <2>2. owed = buffer /\ InBuffer("PUBACK")
      BY <1>3, <2>1 DEF InBuffer, LedInv
    <2>3. PICK n \in PacketIds : owed = Packet("PUBACK", n)
      BY <1>3, <2>1, <2>2, PacketFields DEF LedInv, InHand, NoPacket
    <2>4. CASE packetPos' < Units
      <3>1. UNCHANGED <<up, owed>>
        BY <2>4, SendEffect, UnitsAssumption
      <3> QED
        BY <1>1, <2>1, <2>2, <3>1, LedKept DEF LedStill
    <2>5. CASE packetPos' = Units
      <3>1. owed' = NoPacket /\ ~InBuffer("PUBACK")'
        BY <1>1, <2>1, <2>2, <2>5, SendEffect, UnitsAssumption DEF InBuffer
      <3>2. \A id : ~InHand(id)'
        BY <3>1, PacketFields DEF InHand
      <3>3. ASSUME net = "ok", NEW id \in PacketIds PROVE OnePlace(id)'
        <4>1. up' = Append(up, OutPacket) /\ OnePlace(id)
          BY <2>5, <3>3, SendEffect, UnitsAssumption DEF LedInv
        <4>2. ArrivingKept(id)
          BY <1>1, ArrivingKeptWhen
        <4>3. CASE id = n
          <5>1. InHand(id) /\ id \in ledInFlight /\ \A i : ~Arriving(i, id) /\ ~Leaving(i, id)
            BY <2>3, <4>1, <4>3 DEF InHand, OnePlace
          <5>2. \A i : Leaving(i, id)' <=> i = Len(up) + 1
            <6>1. OutPacket = Packet("PUBACK", id)
              BY <2>1, <2>2, <2>3, <4>3
            <6> HIDE DEF OutPacket
            <6>2. \A i : Leaving(i, id)' <=> Leaving(i, id) \/ i = Len(up) + 1
              BY <1>1, <4>1, <6>1, LeavingAppend
            <6> QED
              BY <5>1, <6>2
          <5>3. \A i : ~Arriving(i, id)'
            BY <4>2, <5>1 DEF ArrivingKept
          <5> QED
            BY <1>1, <3>2, <5>1, <5>2, <5>3 DEF OnePlace
        <4>4. CASE id # n
          <5>1. OutPacket # Packet("PUBACK", id) /\ ~InHand(id)
            BY <2>1, <2>2, <2>3, <4>4, PacketFields DEF InHand
          <5>2. LeavingKept(id)
            BY <1>1, <4>1, <5>1, LeavingKeptWhen
          <5> QED
            BY <1>1, <3>2, <4>1, <4>2, <5>1, <5>2, OnePlaceKept
        <4> QED
          BY <4>3, <4>4
      <3> QED
        BY <1>1, <3>1, <3>3 DEF LedInv
    <2>6. packetPos' < Units \/ packetPos' = Units
      BY SendEffect
    <2> QED
      BY <2>4, <2>5, <2>6
  <1> QED
    BY <1>2, <1>3

\* A message leaves the network, and if it is of level 1 its acknowledgement
\* takes the buffer.
LEMMA LedReceive ==
    ASSUME AppTypeOK, AcksKept, PacketsInv, LedInv, ReceiveStep
    PROVE  LedInv'
  <1>1. CASE /\ \E k \in 0..Units, e \in {"TIMEOUT", "FAILURE"} : ReceivePartly(k, e)
             /\ UNCHANGED <<network, broker>>
    <2>1. LedStill
      BY <1>1 DEF ReceivePartly, LedStill, InBuffer, network, broker
    <2> QED
      BY <2>1, LedKept
  <1>2. CASE /\ down # <<>> /\ ReceivePacket(Head(down).pkt) /\ down' = Tail(down)
             /\ UNCHANGED <<net, up, broker>>
    <2> DEFINE p == Head(down).pkt
    <2>1. /\ p \in Packets /\ Downward(p) /\ UNCHANGED ledInFlight
          /\ state = "RECEIVING_PACKET"
      BY <1>2, HeadReceived, ReceiveStates DEF broker
    <2>2. owed = NoPacket
      BY <2>1 DEF AcksKept
    <2>3. \A id : LeavingKept(id)
      BY <1>2, LeavingKeptWhen
    <2>4. CASE UNCHANGED owed /\ ~(p.type = "PUBLISH" /\ p.qos = 1) /\ state' # "SENDING_PACKET"
      <3>1. \A id : ArrivingKept(id)
        BY <1>2, <2>4, ArrivingKeptWhen DEF Carries
      <3>2. ~InBuffer("PUBACK")'
        BY <2>4 DEF InBuffer
      <3>3. \A id \in PacketIds : OnePlace(id) => OnePlace(id)'
        BY <2>1, <2>3, <2>4, <3>1, OnePlaceKept DEF InHand
      <3> QED
        BY <1>2, <2>2, <2>4, <3>2, <3>3 DEF LedInv
    <2>5. CASE /\ p.type = "PUBLISH" /\ p.qos = 1
               /\ RepliedBy(Packet("PUBACK", p.id)) /\ owed' = Packet("PUBACK", p.id)
      <3>1. buffer' = owed' /\ p.id \in PacketIds
        BY <2>1, <2>5 DEF RepliedBy, Packets
      <3>2. \A id : ~InHand(id) /\ (InHand(id)' <=> id = p.id)
        BY <2>2, <2>5, PacketFields DEF InHand
      <3>3. ASSUME net = "ok", NEW id \in PacketIds PROVE OnePlace(id)'
        <4>1. OnePlace(id)
          BY <3>3 DEF LedInv
        <4>2. CASE id = p.id
          <5>1. Arriving(1, id)
            BY <1>2, <2>5, <4>2, ArrivingTail DEF Carries
          <5>2. /\ id \in ledInFlight /\ \A i : Arriving(i, id) => i = 1
                /\ \A i : ~Leaving(i, id)
            BY <4>1, <5>1 DEF OnePlace
          <5>3. \A i : ~Leaving(i, id)'
            BY <2>3, <5>2 DEF LeavingKept
          <5>4. \A i : ~Arriving(i, id)'
            <6>1. \A i : Arriving(i, id)' => i \in 1 .. Len(down) - 1 /\ Arriving(i + 1, id)
              BY <1>2, ArrivingTail
            <6> QED
              BY <5>2, <6>1, ArrivingTail
          <5> QED
            BY <2>1, <3>2, <4>2, <5>2, <5>3, <5>4 DEF OnePlace
        <4>3. CASE id # p.id
          <5>1. ArrivingKept(id)
            BY <1>2, <4>3, ArrivingKeptWhen DEF Carries
          <5> QED
            BY <2>1, <2>3, <3>2, <4>1, <4>3, <5>1, OnePlaceKept
        <4> QED
          BY <4>2, <4>3
      <3>4. (\E id \in PacketIds : InHand(id))'
        BY <3>1, <3>2
      <3> QED
        BY <1>2, <3>1, <3>3, <3>4 DEF LedInv
    <2>6. CASE Completes(p) /\ p.type # "PUBLISH"
      BY <2>4, <2>6 DEF Completes
    <2>7. CASE (\E e \in Errors : Ignored(p, e)) /\ ~(p.type = "PUBLISH" /\ p.qos = 1)
      BY <2>4, <2>7 DEF Ignored, Resume
    <2> QED
      BY <1>2, <2>1, <2>5, <2>6, <2>7, ReceiveFromBroker
  <1> QED
    BY <1>1, <1>2 DEF ReceiveStep

LEMMA LedClient ==
    ASSUME AppTypeOK, AcksKept, PacketsInv, LedInv, ClientStep
    PROVE  LedInv'
  <1> USE DEF ClientStep
  <1>1. CASE LocalStep
    <2>1. LedStill
      <3> USE DEF LedStill, InBuffer, network, broker, streams, context
      <3>1. CASE OpenConnection /\ error' = "NO_ERROR"
        BY <1>1, <3>1 DEF LocalStep, OpenConnection, Status
      <3>2. CASE PacketSent
        BY <1>1, <3>2 DEF LocalStep, PacketSent, Resume
      <3>3. CASE NoEvent \/ ConnectAccepted \/ ConnectDone
        BY <1>1, <3>3 DEF LocalStep, NoEvent, ConnectAccepted, ConnectDone
      <3>4. CASE RequestComplete \/ RequestDone \/ RequestError
        BY <1>1, <3>4 DEF LocalStep, RequestComplete, RequestDone, RequestError
      <3>5. CASE SendConnect \/ StartPublish \/ StartSubscribe
        <4>1. /\ UNCHANGED <<network, broker, owed>>
              /\ \/ state' = "SENDING_PACKET" /\ buffer'.type \in Owned
                 \/ UNCHANGED <<state, buffer, packetPos>>
          BY <1>1, <3>5
          DEF LocalStep, SendConnect, StartPublish, StartSubscribe, StartRequest,
              StartPacket, Packet, PublishPacket, Owned
        <4> QED
          BY <4>1 DEF Owned
      <3> QED
        BY <1>1, <3>1, <3>2, <3>3, <3>4, <3>5 DEF LocalStep
    <2> QED
      BY <2>1, LedKept
  <1>2. CASE ConnectStep
    <2>1. CASE /\ EstablishConnection /\ error' = "NO_ERROR"
               /\ up' = <<>> /\ down' = <<>> /\ EndSession
      <3>1. owed = NoPacket /\ UNCHANGED owed
        BY <2>1 DEF EstablishConnection, AcksKept
      <3>2. state' = "CONNECTED" /\ ledInFlight' = {}
        BY <2>1 DEF EstablishConnection, Status, EndSession
      <3>3. ASSUME NEW id PROVE OnePlace(id)'
        BY <2>1, <3>1, <3>2, PacketFields DEF OnePlace, Arriving, Leaving, InHand
      <3> QED
        BY <3>1, <3>2, <3>3 DEF LedInv, InBuffer
    <2>2. CASE EstablishConnection /\ UNCHANGED <<network, broker>>
      <3>1. LedStill
        BY <2>2 DEF EstablishConnection, LedStill, InBuffer, network, broker
      <3> QED
        BY <3>1, LedKept
    <2>3. CASE ConnectError /\ Disconnected
      <3>1. LedStill
        BY <2>3 DEF ConnectError, CloseConnection, Disconnected, LedStill, InBuffer
      <3> QED
        BY <3>1, LedKept
    <2> QED
      BY <1>2, <2>1, <2>2, <2>3 DEF ConnectStep
  <1>3. CASE WaitStep
    <2>1. LedStill
      BY <1>3 DEF WaitStep, WaitForDataReady, WaitForDataTimeout, LedStill, InBuffer,
                  network, broker, context
    <2> QED
      BY <2>1, LedKept
  <1> QED
    BY <1>1, <1>2, <1>3, LedSend, LedReceive

LEMMA LedBroker ==
    ASSUME AppTypeOK, PacketsInv, LedInv, BrokerStep
    PROVE  LedInv'
  <1> DEFINE p == Head(up)
  <1>1. /\ net = "ok" /\ up # <<>> /\ up' = Tail(up) /\ UNCHANGED <<net, owed, buffer>>
        /\ InBuffer("PUBACK")' <=> InBuffer("PUBACK")
        /\ \A id : InHand(id)' <=> InHand(id)
    BY DEF BrokerStep, vars, context, InBuffer, InHand
  <1>2. p \in Packets /\ Upward(p) /\ p.id \in PacketIds
    <2>1. p \in Packets /\ Upward(p)
      BY <1>1, TailElements DEF AppTypeOK, PacketsInv
    <2> QED
      BY <2>1 DEF Packets
  <1>3. CASE BrokerPubAck(p)
    <2>1. /\ p = Packet("PUBACK", p.id) /\ UNCHANGED down
          /\ ledInFlight' = ledInFlight \ {p.id}
      BY <1>2, <1>3 DEF BrokerPubAck, Upward
    <2>2. ASSUME NEW id \in PacketIds PROVE OnePlace(id)'
      <3>1. OnePlace(id) /\ ArrivingKept(id)
        BY <1>1, <2>1, ArrivingKeptWhen DEF LedInv
      <3>2. CASE id = p.id
        <4>1. Leaving(1, id)
          BY <1>1, <2>1, <3>2, LeavingTail
        <4>2. ~InHand(id) /\ (\A i : ~Arriving(i, id)) /\ (\A i : Leaving(i, id) => i = 1)
          BY <3>1, <4>1 DEF OnePlace
        <4>3. \A i : ~Arriving(i, id)'
          BY <3>1, <4>2 DEF ArrivingKept
        <4>4. \A i : ~Leaving(i, id)'
          <5>1. \A i : Leaving(i, id)' => i \in 1 .. Len(up) - 1 /\ Leaving(i + 1, id)
            BY <1>1, LeavingTail
          <5> QED
            BY <4>2, <5>1, LeavingTail
        <4> QED
          BY <1>1, <2>1, <3>2, <4>2, <4>3, <4>4 DEF OnePlace
      <3>3. CASE id # p.id
        <4>1. p # Packet("PUBACK", id)
          BY <2>1, <3>3, PacketFields
        <4>2. LeavingKept(id)
          BY <1>1, <4>1, LeavingKeptWhen
        <4> QED
          BY <1>1, <2>1, <3>1, <3>3, <4>2, OnePlaceKept
      <3> QED
        BY <3>2, <3>3
    <2> QED
      BY <1>1, <2>2 DEF LedInv, InHand
  <1>4. CASE BrokerConnect(p) \/ BrokerSubscribe(p) \/ BrokerPublish(p) \/ BrokerPing(p)
    <2>1. p.type # "PUBACK" /\ UNCHANGED ledInFlight
      BY <1>4 DEF BrokerConnect, BrokerSubscribe, BrokerPublish, BrokerPing, broker
    <2>2. \E r \in Packets : r.type # "PUBLISH" /\ Answer(r)
      <3>1. \A t \in {"CONNACK", "SUBACK", "PUBACK", "PINGRESP"}, i \in {0, p.id}, b \in BOOLEAN :
               /\ Packet(t, i) \in Packets /\ [Packet(t, i) EXCEPT !.ok = b] \in Packets
               /\ Packet(t, i).type = t /\ [Packet(t, i) EXCEPT !.ok = b].type = t
        BY <1>2, ZeroIsPacketId DEF Packet, Packets, PacketTypes, QoS
      <3>2. \/ Answer(Packet("CONNACK", 0)) \/ Answer(Packet("PUBACK", p.id))
            \/ Answer(Packet("PINGRESP", 0))
            \/ \E b \in BOOLEAN : Answer([Packet("SUBACK", p.id) EXCEPT !.ok = b])
        BY <1>4 DEF BrokerConnect, BrokerSubscribe, BrokerPublish, BrokerPing
      <3> QED
        BY <3>1, <3>2
    <2>3. \A id : LeavingKept(id) /\ ArrivingKept(id)
      <3>1. \A id : p # Packet("PUBACK", id)
        BY <2>1, PacketFields
      <3> QED
        BY <1>1, <2>2, <3>1, LeavingKeptWhen, ArrivingKeptWhen DEF Carries
    <2>4. \A id \in PacketIds : OnePlace(id) => OnePlace(id)'
      BY <1>1, <2>1, <2>3, OnePlaceKept
    <2> QED
      BY <1>1, <2>4 DEF LedInv, InHand
  <1> QED
    BY <1>3, <1>4 DEF BrokerStep

\* A new message of level 1 has an identifier that is nowhere yet.
LEMMA LedMessage ==
    ASSUME AppTypeOK, LedInv, SendLedMessage
    PROVE  LedInv'
  <1>1. /\ UNCHANGED <<net, up, owed, buffer>> /\ net = "ok"
        /\ InBuffer("PUBACK")' <=> InBuffer("PUBACK")
        /\ \A id : InHand(id)' <=> InHand(id)
    BY DEF SendLedMessage, vars, context, InBuffer, InHand
  <1>2. \A id : LeavingKept(id)
    BY <1>1, LeavingKeptWhen
  <1>3. ASSUME NEW n \in PacketIds, NEW q \in {0, 1}, Answer(PublishPacket(n, q, NoMsg)),
               IF q = 0 THEN UNCHANGED ledInFlight
               ELSE n \notin ledInFlight /\ ledInFlight' = ledInFlight \cup {n},
               NEW id \in PacketIds
        PROVE  OnePlace(id)'
    <2> DEFINE p == PublishPacket(n, q, NoMsg)
    <2>1. /\ p \in Packets /\ OnePlace(id)
          /\ Carries(p, id) <=> q = 1 /\ n = id
      BY <1>1, AnswersDownward, IncomingTyped, PacketFields DEF Downward, Carries, LedInv
    <2> HIDE DEF p
    <2>2. CASE q = 1 /\ n = id
      <3>1. ~InHand(id) /\ \A i : ~Arriving(i, id) /\ ~Leaving(i, id)
        BY <1>3, <2>1, <2>2 DEF OnePlace
      <3>2. \A i : Arriving(i, id)' <=> i = Len(down) + 1
        BY <1>3, <2>1, <2>2, <3>1, ArrivingAppend DEF p
      <3>3. \A i : ~Leaving(i, id)'
        BY <1>2, <3>1 DEF LeavingKept
      <3> QED
        BY <1>1, <1>3, <2>2, <3>1, <3>2, <3>3 DEF OnePlace
    <2>3. CASE ~(q = 1 /\ n = id)
      <3>1. ArrivingKept(id)
        BY <1>3, <2>1, <2>3, ArrivingKeptWhen DEF p
      <3> QED
        BY <1>1, <1>2, <1>3, <2>1, <2>3, <3>1, OnePlaceKept
    <2> QED
      BY <2>2, <2>3
  <1>4. \A id \in PacketIds : OnePlace(id)'
    <2>1. \/ Answer(PublishPacket(0, 0, NoMsg)) /\ UNCHANGED ledInFlight
          \/ \E n \in PacketIds : /\ n \notin ledInFlight
                                  /\ Answer(PublishPacket(n, 1, NoMsg))
                                  /\ ledInFlight' = ledInFlight \cup {n}
      BY DEF SendLedMessage
    <2> QED
      BY <1>3, <2>1, ZeroIsPacketId
  <1> QED
    BY <1>1, <1>4 DEF LedInv, InHand

LEMMA StepLed ==
    ASSUME AppTypeOK, AcksKept, PacketsInv, LedInv, [AppNext]_appVars
    PROVE  LedInv'
  <1>1. CASE AppStep
    <2>1. LedStill
      <3> USE DEF LedStill, InBuffer, network, broker, context
      <3>1. CASE CloseAndPause
        BY <3>1 DEF CloseAndPause, Close, CloseConnection, Disconnected
      <3>2. CASE TryConnect \/ Subscribe \/ Announce \/ Connected \/ DelayOver
                 \/ PollButton \/ ButtonSent \/ TaskDone
        BY <3>2 DEF TryConnect, Subscribe, Announce, Connected, DelayOver, PollButton,
                    ButtonSent, TaskDone, CallAt, Call, vars
      <3> QED
        BY <1>1, <3>1, <3>2 DEF AppStep
    <2> QED
      BY <2>1, LedKept
  <1>2. CASE PressButton \/ LinkUp \/ LinkDown \/ SilentLoss \/ Reset \/ TcpGiveUp
             \/ BrokerRefuse \/ TimePasses \/ UNCHANGED appVars
    <2>1. UNCHANGED <<state, buffer, packetPos, owed>>
      BY <1>2 DEF PressButton, LinkUp, LinkDown, SilentLoss, Reset, TcpGiveUp, BrokerRefuse,
                  TimePasses, KeepAliveExpires, appVars, vars, context
    <2>2. net' = "ok" => net = "ok" /\ UNCHANGED <<up, down, ledInFlight>>
      BY <1>2 DEF PressButton, LinkUp, LinkDown, SilentLoss, Reset, TcpGiveUp, BrokerRefuse,
                  TimePasses, appVars, network, broker
    <2>3. LedStill
      BY <2>1, <2>2 DEF LedStill, InBuffer
    <2> QED
      BY <2>3, LedKept
  <1> QED
    BY <1>1, <1>2, LedClient, LedBroker, LedMessage DEF AppNext

-----------------------------------------------------------------------------
(* The invariant and what follows from it *)

LEMMA InitInv == AppInit => AppInv
  <1> SUFFICES ASSUME AppInit PROVE AppInv
    OBVIOUS
  <1>1. Init /\ TypeOK /\ Framing
    BY InitTyped, InitFramed DEF AppInit
  <1>2. EnvTypeOK
    <2>1. 0 \in 0..MaxFaults /\ 0 \in 0..MaxPresses /\ 0 \in 0..MaxLedMsgs
      BY BoundsAssumption
    <2>2. up \in Seq(Packets) /\ down \in Seq(Deliveries)
      BY EmptyTyped DEF AppInit
    <2> QED
      BY <2>1, <2>2 DEF AppInit, EnvTypeOK, Places, Buttons
  <1>3. /\ state = "CLOSED" /\ packetType = "INVALID" /\ call = NoCall /\ owed = NoPacket
        /\ ~answered
    BY <1>1 DEF Init
  <1>4. net = "none" /\ up = <<>> /\ down = <<>> /\ at = "loop" /\ connectionState = FALSE
    BY DEF AppInit
  <1>5. \A i : ~Asking(i) /\ ~Replying(i)
    BY <1>4 DEF Asking, Replying
  <1>6. ~(\E p \in {"connecting", "subscribing", "announcing", "publishing"} : Succeeded(p))
    BY <1>4 DEF Succeeded
  <1>7. CallInv /\ AcksKept
    BY <1>3, CallFields DEF CallInv, Ended, AcksKept, Requests
  <1>8. PlaceInv /\ PacketsInv
    BY <1>3, <1>4, CallFields DEF PlaceInv, CallOfPlace, PacketsInv
  <1>9. RequestInv
    BY <1>3, <1>5, CallFields DEF RequestInv, OneRequest, Got, Granted
  <1>10. SessionInv /\ StageInv /\ LedInv
    BY <1>3, <1>4, <1>6 DEF SessionInv, StageInv, LedInv, InBuffer
  <1> QED
    BY <1>1, <1>2, <1>7, <1>8, <1>9, <1>10, AppTypes DEF AppInv

LEMMA StepInv == AppInv /\ [AppNext]_appVars => AppInv'
  <1> SUFFICES ASSUME AppInv, [AppNext]_appVars PROVE AppInv'
    OBVIOUS
  <1>0. /\ AppTypeOK /\ Framing /\ CallInv /\ AcksKept
        /\ PlaceInv /\ PacketsInv /\ RequestInv /\ SessionInv /\ StageInv /\ LedInv
    BY DEF AppInv
  <1>1. TypeOK /\ CloseOnError /\ [Next]_vars
    BY <1>0, StepAllowed, AppTypes, TaskAssumption
  <1>2. AppTypeOK'
    BY <1>0, StepAppTyped
  <1>3. Framing' /\ CallInv' /\ AcksKept'
    BY <1>0, <1>1, StepFramed, StepCall, StepKeepsAcks
  <1>4. PlaceInv' /\ PacketsInv'
    BY <1>0, StepPlace, StepPackets
  <1>5. RequestInv'
    BY <1>0, <1>2, StepRequest
  <1>6. SessionInv' /\ StageInv' /\ LedInv'
    BY <1>0, StepSession, StepStage, StepLed
  <1> QED
    BY <1>2, <1>3, <1>4, <1>5, <1>6 DEF AppInv

LEMMA AppInvariant == AppSpec => []AppInv
  BY InitInv, StepInv, PTL DEF AppSpec

\* The task, its broker and its network use the client as the open model
\* admits, so that every theorem about the client holds of it here.
THEOREM AppIsClient == AppSpec => Spec
  <1>1. AppInit => Init
    BY DEF AppInit
  <1>2. AppInv /\ [AppNext]_appVars => [Next]_vars
    BY StepAllowed DEF AppInv
  <1> QED
    BY <1>1, <1>2, AppInvariant, PTL DEF AppSpec, Spec

\* Every variable of the composition keeps its type.
THEOREM AppTyped == AppSpec => []AppTypeOK
  <1>1. AppInv => AppTypeOK
    BY DEF AppInv
  <1> QED
    BY <1>1, AppInvariant, PTL

\* While the task believes it is connected (connectionState, main.c) and the
\* connection stands, the broker has the session, has processed the
\* subscription and has the announcement of this very connection.
THEOREM ConnectedMeansReal == AppSpec => []ConnectedIsReal
  <1>1. AppInv => ConnectedIsReal
    BY DEF AppInv, StageInv, ConnectedIsReal
  <1> QED
    BY <1>1, AppInvariant, PTL

\* A publication of the button that mqttClientPublish reports as done is what
\* the broker retains.
THEOREM ButtonsArrive == AppSpec => []ButtonDelivered
  <1>1. AppInv => ButtonDelivered
    BY DEF AppInv, StageInv, ButtonDelivered
  <1> QED
    BY <1>1, AppInvariant, PTL

\* The broker never finds a packet it must refuse at the head of the stream.
THEOREM BrokerRespected == AppSpec => []ProtocolRespected
  <1>1. ASSUME AppInv, net = "ok", up # <<>> PROVE Accepts(Head(up))
    <2> DEFINE p == Head(up)
    <2>1. up \in Seq(Packets)
      BY <1>1 DEF AppInv, AppTypeOK
    <2>2. p = up[1] /\ 1 \in DOMAIN up /\ p \in Packets
      BY <1>1, <2>1, TailElements
    <2>3. Upward(p) /\ p.id \in PacketIds
      BY <1>1, <2>2 DEF AppInv, PacketsInv, Packets
    <2>4. (p.type = "CONNECT" => ~session) /\ (p.type # "CONNECT" => session)
      BY <1>1, <2>2 DEF AppInv, SessionInv
    <2>5. CASE p.type = "PUBACK"
      <3>1. Leaving(1, p.id)
        BY <2>2, <2>3, <2>5 DEF Leaving, Upward
      <3>2. p.id \in ledInFlight
        BY <1>1, <2>3, <3>1 DEF AppInv, LedInv, OnePlace
      <3> QED
        BY <2>4, <2>5, <3>2 DEF Accepts
    <2>6. CASE p.type # "PUBACK"
      BY <2>3, <2>4, <2>6 DEF Accepts, Upward, Owned
    <2> QED
      BY <2>5, <2>6
  <1>2. AppInv => ProtocolRespected
    BY <1>1 DEF ProtocolRespected
  <1> QED
    BY <1>2, AppInvariant, PTL

\* A set with at most one member has as many members as it seems.
LEMMA CountOne ==
    ASSUME NEW S, \A i, j \in S : i = j
    PROVE  Cardinality(S) = IF S = {} THEN 0 ELSE 1
  <1>1. CASE S = {}
    BY <1>1, FS_EmptySet
  <1>2. CASE S # {}
    <2>1. PICK i : S = {i}
      BY <1>2
    <2> QED
      BY <1>2, <2>1, FS_Singleton
  <1> QED
    BY <1>1, <1>2

LEMMA PlaceCounted ==
    ASSUME AppTypeOK, NEW id \in PacketIds, OnePlace(id)
    PROVE  Occurrences(id) = IF id \in ledInFlight THEN 1 ELSE 0
  <1> DEFINE D == {i \in DOMAIN down : down[i].pkt.type = "PUBLISH" /\ down[i].pkt.qos = 1
                                       /\ down[i].pkt.id = id}
             U == {i \in DOMAIN up : up[i] = Packet("PUBACK", id)}
             h == IF owed = Packet("PUBACK", id) THEN 1 ELSE 0
  <1>1. (\A i : i \in D <=> Arriving(i, id)) /\ (\A i : i \in U <=> Leaving(i, id))
    BY DEF Arriving, Leaving
  <1>2. h = IF InHand(id) THEN 1 ELSE 0
    BY DEF InHand
  <1>3. Occurrences(id) = Cardinality(D) + Cardinality(U) + h
    BY DEF Occurrences
  <1> HIDE DEF D, U, h
  <1>4. /\ Cardinality(D) = IF D = {} THEN 0 ELSE 1
        /\ Cardinality(U) = IF U = {} THEN 0 ELSE 1
    BY <1>1, CountOne DEF OnePlace
  <1>5. /\ D = {} \/ U = {}
        /\ InHand(id) => D = {} /\ U = {}
        /\ id \in ledInFlight <=> InHand(id) \/ D # {} \/ U # {}
    <2>1. (D = {} <=> \A i : ~Arriving(i, id)) /\ (U = {} <=> \A i : ~Leaving(i, id))
      BY <1>1
    <2> QED
      BY <2>1 DEF OnePlace
  <1> QED
    BY <1>2, <1>3, <1>4, <1>5

\* On a standing connection an identifier the broker waits for is exactly once
\* on its way to the client, in its hands (owed) or on its way back: no
\* acknowledgement is lost and none is sent twice.
THEOREM LedAcksKept == AppSpec => []LedAcksConserved
  <1>1. AppInv => LedAcksConserved
    BY PlaceCounted DEF AppInv, LedInv, LedAcksConserved
  <1> QED
    BY <1>1, AppInvariant, PTL

=============================================================================
