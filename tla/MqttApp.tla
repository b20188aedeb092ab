------------------------------- MODULE MqttApp -------------------------------
(***************************************************************************)
(* mqttTestTask and mqttTestConnect of main.c: the task that keeps the     *)
(* board connected to its MQTT server, publishes the state of button SW0   *)
(* and serves the messages that drive the LED.  It is composed with the    *)
(* client of MqttClient, a conforming broker (external) and a TLS byte     *)
(* stream that may be reset, fall silent, or lose its link (external).     *)
(*                                                                         *)
(* A fault is anything the environment may do but need not: a DNS failure, *)
(* a refusal, a timeout, a reset, a silent loss, a link failure.  MaxFaults*)
(* bounds them, so that "eventually" has a meaning: the board must recover *)
(* once the faults are over.                                               *)
(***************************************************************************)
EXTENDS MqttClient, Sequences, FiniteSets

CONSTANTS
    MaxFaults,      \* number of faults of the environment
    MaxPresses,     \* number of changes of the button
    MaxLedMsgs      \* number of messages the broker sends to the board

ASSUME BoundsAssumption ==
    /\ MaxFaults \in Nat /\ MaxPresses \in Nat /\ MaxLedMsgs \in Nat

VARIABLES
    at,               \* where mqttTestTask is
    connectionState,  \* its local variable
    buttonState,      \* the sample of the button it works on
    prevButtonState,  \* its local variable
    button,           \* level of the SW0 pin
    link,             \* netGetLinkState
    net,              \* the connection: none, ok, dead (silent), reset
    unacked,          \* data was given to a dead connection
    up,               \* packets on their way to the broker
    down,             \* packets on their way to the client
    session,          \* broker: the MQTT session of this connection is open
    subscribed,       \* broker: SUBSCRIBE of board/leds/+ was granted
    subscribeSeen,    \* broker: SUBSCRIBE was processed in this session
    announced,        \* broker: "online" was published in this session
    retainedButton,   \* broker: retained message of board/buttons/1
    ledInFlight,      \* broker: QoS 1 messages it has no PUBACK for
    faults, presses, ledMsgs   \* bounded counters

task == <<at, connectionState, buttonState, prevButtonState>>
network == <<net, unacked, up, down>>
broker == <<session, subscribed, subscribeSeen, announced, retainedButton, ledInFlight>>
counters == <<faults, presses, ledMsgs>>
appVars == <<vars, task, button, link, network, broker, counters>>

Buttons == {"released", "pressed"}

\* What the task publishes, and that it closes the client after an error.
ASSUME TaskAssumption == {"online"} \cup Buttons \subseteq Msgs /\ CloseOnError

Places == {"loop", "connecting", "subscribing", "announcing", "publishing",
           "task", "delay"}

\* whole is FALSE for a packet whose end was lost.
Deliveries == [pkt: Packets, whole: BOOLEAN]

AppTypeOK ==
    /\ TypeOK
    /\ at \in Places
    /\ connectionState \in BOOLEAN
    /\ {buttonState, prevButtonState, button, retainedButton} \subseteq Buttons
    /\ link \in BOOLEAN
    /\ net \in {"none", "ok", "dead", "reset"}
    /\ unacked \in BOOLEAN
    /\ up \in Seq(Packets)
    /\ down \in Seq(Deliveries)
    /\ {session, subscribed, subscribeSeen, announced} \subseteq BOOLEAN
    /\ ledInFlight \subseteq PacketIds
    /\ faults \in 0..MaxFaults /\ presses \in 0..MaxPresses /\ ledMsgs \in 0..MaxLedMsgs

AppInit ==
    /\ Init
    /\ at = "loop" /\ connectionState = FALSE
    /\ buttonState = "released" /\ prevButtonState = "released"
    /\ button = "released"
    /\ link = FALSE
    /\ net = "none" /\ unacked = FALSE /\ up = <<>> /\ down = <<>>
    /\ session = FALSE /\ subscribed = FALSE /\ subscribeSeen = FALSE
    /\ announced = FALSE /\ retainedButton = "released" /\ ledInFlight = {}
    /\ faults = 0 /\ presses = 0 /\ ledMsgs = 0

Fault == faults < MaxFaults /\ faults' = faults + 1
NoFault == UNCHANGED faults

-----------------------------------------------------------------------------
(* The client's steps on this network *)

\* The broker forgets a session that ends, its messages included.
EndSession ==
    /\ session' = FALSE /\ subscribed' = FALSE /\ subscribeSeen' = FALSE
    /\ announced' = FALSE /\ ledInFlight' = {}
    /\ UNCHANGED retainedButton

\* Closing the socket drops what is in flight both ways.
Disconnected ==
    /\ net' = "none" /\ unacked' = FALSE /\ up' = <<>> /\ down' = <<>>
    /\ EndSession

\* Steps of the client that neither use the network nor depend on it.
LocalStep ==
    /\ \/ PacketSent \/ NoEvent
       \/ OpenConnection /\ error' = "NO_ERROR"
       \/ SendConnect \/ ConnectAccepted \/ ConnectDone
       \/ StartPublish \/ StartSubscribe
       \/ RequestComplete \/ RequestDone \/ RequestError
    /\ NoFault
    /\ UNCHANGED <<network, broker>>

ConnectStep ==
    \/ /\ EstablishConnection /\ error' = "NO_ERROR"
       /\ link
       /\ net' = "ok" /\ unacked' = FALSE /\ up' = <<>> /\ down' = <<>>
       /\ EndSession
       /\ NoFault
    \/ /\ EstablishConnection /\ error' # "NO_ERROR"
       /\ IF link THEN Fault ELSE NoFault
       /\ UNCHANGED <<network, broker>>
    \/ /\ ConnectError
       /\ Disconnected
       /\ NoFault

\* A dead connection takes data until its buffer is full; TCP will find out.
SendStep ==
    \E k \in 0..Units, e \in Errors :
        /\ SendData(k, e)
        /\ \/ /\ net = "ok" /\ e # "FAILURE"
              /\ up' = IF e = "NO_ERROR" THEN Append(up, OutPacket) ELSE up
              /\ IF e = "TIMEOUT" THEN Fault ELSE NoFault
              /\ UNCHANGED unacked
           \/ /\ net = "dead" /\ e # "FAILURE"
              /\ unacked' = TRUE
              /\ NoFault /\ UNCHANGED up
           \/ /\ net = "reset" /\ e = "FAILURE" /\ k = 0
              /\ NoFault /\ UNCHANGED <<up, unacked>>
        /\ UNCHANGED <<net, down, broker>>

\* A reset is reported as SOCKET_EVENT_RX_READY.  The 100 ms of mqttClientTask
\* may well pass without data, the 20 s of the other calls only by a fault.
WaitStep ==
    \/ /\ WaitForDataReady
       /\ down # <<>> \/ net = "reset"
       /\ NoFault /\ UNCHANGED <<network, broker>>
    \/ /\ WaitForDataTimeout
       /\ down = <<>> /\ net # "reset"
       /\ IF call.op = "TASK" \/ net = "dead" THEN NoFault ELSE Fault
       /\ UNCHANGED <<network, broker>>

\* The rest of the packet at the head of down will never come.
HeadCut == down # <<>> /\ ~Head(down).whole

ReceiveStep ==
    \/ /\ down # <<>> /\ Head(down).whole
       /\ ReceivePacket(Head(down).pkt)
       /\ down' = Tail(down)
       /\ NoFault /\ UNCHANGED <<net, unacked, up, broker>>
    \/ \E k \in 0..Units :
       /\ \/ /\ net = "ok" /\ ReceivePartly(k, "TIMEOUT") /\ Fault
          \/ /\ net = "dead" /\ HeadCut
             /\ ReceivePartly(k, "TIMEOUT") /\ NoFault
          \/ /\ net = "reset" /\ k = 0 /\ (down = <<>> \/ HeadCut)
             /\ ReceivePartly(k, "FAILURE") /\ NoFault
       /\ UNCHANGED <<network, broker>>

ClientStep ==
    /\ LocalStep \/ ConnectStep \/ SendStep \/ WaitStep \/ ReceiveStep
    /\ UNCHANGED <<task, button, link, presses, ledMsgs>>

-----------------------------------------------------------------------------
(* mqttTestConnect and mqttTestTask *)

ConnectCall == [NoCall EXCEPT !.op = "CONNECT"]
TaskCall == [NoCall EXCEPT !.op = "TASK"]
\* The level it asks for, 1, concerns the broker only.
SubscribeCall == [NoCall EXCEPT !.op = "SUBSCRIBE", !.wait = TRUE]

\* Mutant: mqttClientPublish does not wait for PUBACK.
PublishCallNoWait(m) ==
    [op |-> "PUBLISH", qos |-> 1, wait |-> FALSE, fits |-> TRUE, msg |-> m]

PublishCall(m) ==
    [op |-> "PUBLISH", qos |-> 1, wait |-> TRUE, fits |-> TRUE, msg |-> m]

\* Calls c and waits for it at place p.
CallAt(c, p) == Call(c) /\ at' = p

Succeeded(p) == at = p /\ call = NoCall /\ result.error = "NO_ERROR"
Failed(p) == at = p /\ call = NoCall /\ result.error # "NO_ERROR"

\* The server name is resolved first; a failure only costs the delay.
TryConnect ==
    /\ at = "loop" /\ ~connectionState /\ link
    /\ \/ CallAt(ConnectCall, "connecting") /\ NoFault
       \/ at' = "delay" /\ Fault /\ UNCHANGED vars
    /\ UNCHANGED <<connectionState, buttonState, prevButtonState, network, broker>>

Subscribe ==
    /\ Succeeded("connecting")
    /\ CallAt(SubscribeCall, "subscribing")
    /\ NoFault
    /\ UNCHANGED <<connectionState, buttonState, prevButtonState, network, broker>>

Announce ==
    /\ Succeeded("subscribing")
    /\ CallAt(PublishCall("online"), "announcing")
    /\ NoFault
    /\ UNCHANGED <<connectionState, buttonState, prevButtonState, network, broker>>

Connected ==
    /\ Succeeded("announcing")
    /\ connectionState' = TRUE
    /\ at' = "loop"
    /\ NoFault
    /\ UNCHANGED <<vars, buttonState, prevButtonState, network, broker>>

\* Mutant: connectionState survives the error.
CloseAndPauseConnected ==
    /\ \E p \in {"connecting", "subscribing", "announcing", "publishing", "task"} :
          Failed(p)
    /\ Close
    /\ prevButtonState' = IF at = "publishing" THEN buttonState ELSE prevButtonState
    /\ at' = "delay"
    /\ Disconnected
    /\ NoFault
    /\ UNCHANGED <<connectionState, buttonState>>

\* The error path of mqttTestConnect and of mqttTestTask: close and pause.
CloseAndPause ==
    /\ \E p \in {"connecting", "subscribing", "announcing", "publishing", "task"} :
          Failed(p)
    /\ Close
    /\ prevButtonState' = IF at = "publishing" THEN buttonState ELSE prevButtonState
    /\ connectionState' = FALSE
    /\ at' = "delay"
    /\ Disconnected
    /\ NoFault
    /\ UNCHANGED buttonState

\* osDelayTask(2000)
DelayOver ==
    /\ at = "delay"
    /\ at' = "loop"
    /\ NoFault
    /\ UNCHANGED <<vars, connectionState, buttonState, prevButtonState, network, broker>>

PollButton ==
    /\ at = "loop" /\ connectionState
    /\ buttonState' = button
    /\ IF button # prevButtonState
       THEN CallAt(PublishCall(button), "publishing")
       ELSE CallAt(TaskCall, "task")
    /\ NoFault
    /\ UNCHANGED <<connectionState, prevButtonState, network, broker>>

ButtonSent ==
    /\ Succeeded("publishing")
    /\ prevButtonState' = buttonState
    /\ CallAt(TaskCall, "task")
    /\ NoFault
    /\ UNCHANGED <<connectionState, buttonState, network, broker>>

TaskDone ==
    /\ Succeeded("task")
    /\ at' = "loop"
    /\ NoFault
    /\ UNCHANGED <<vars, connectionState, buttonState, prevButtonState, network, broker>>

AppStep ==
    /\ \/ TryConnect \/ Subscribe \/ Announce \/ Connected \/ CloseAndPause
       \/ DelayOver \/ PollButton \/ ButtonSent \/ TaskDone
    /\ UNCHANGED <<button, link, presses, ledMsgs>>

-----------------------------------------------------------------------------
(* The environment *)

PressButton ==
    /\ presses < MaxPresses
    /\ presses' = presses + 1
    /\ button' \in Buttons \ {button}
    /\ UNCHANGED <<vars, task, link, network, broker, faults, ledMsgs>>

LinkUp ==
    /\ ~link
    /\ link' = TRUE
    /\ UNCHANGED <<vars, task, button, network, broker, counters>>

\* What has reached the client stays readable: at least the first unit of a
\* packet it is reading.  The last packet that stays may have been cut.
LoseTail ==
    /\ unacked' = (up # <<>>)
    /\ up' = <<>>
    /\ \E n \in 0..Len(down) :
          /\ n = 0 => state # "RECEIVING_PACKET"
          /\ \/ down' = SubSeq(down, 1, n)
             \/ /\ n > 0
                /\ down' = [SubSeq(down, 1, n) EXCEPT ![n].whole = FALSE]

\* The broker is gone and nothing tells.
SilentLoss ==
    /\ net = "ok" /\ Fault
    /\ net' = "dead" /\ LoseTail /\ EndSession
    /\ UNCHANGED <<vars, task, button, link, presses, ledMsgs>>

LinkDown ==
    /\ link /\ Fault
    /\ link' = FALSE
    /\ IF net = "ok" THEN net' = "dead" /\ LoseTail /\ EndSession
       ELSE UNCHANGED <<network, broker>>
    /\ UNCHANGED <<vars, task, button, presses, ledMsgs>>

\* The peer resets the connection; unread data may be dropped.
Reset ==
    /\ net = "ok" /\ Fault
    /\ net' = "reset" /\ unacked' = FALSE /\ up' = <<>>
    /\ down' \in {down, <<>>}
    /\ EndSession
    /\ UNCHANGED <<vars, task, button, link, presses, ledMsgs>>

\* TCP gives up retransmitting (TCP_MAX_RETRIES) and aborts the connection.
TcpGiveUp ==
    /\ net = "dead" /\ unacked
    /\ net' = "reset"
    /\ UNCHANGED <<vars, task, button, link, unacked, up, down, broker, counters>>

Answer(p) == down' = Append(down, [pkt |-> p, whole |-> TRUE])

BrokerConnect(p) ==
    /\ p.type = "CONNECT"
    /\ Answer(Packet("CONNACK", 0))
    /\ session' = TRUE
    /\ NoFault
    /\ UNCHANGED <<subscribed, subscribeSeen, announced, retainedButton, ledInFlight>>

\* A refused subscription is a SUBACK whose return code is 0x80.
BrokerSubscribe(p) ==
    /\ p.type = "SUBSCRIBE" /\ session
    /\ \E granted \in BOOLEAN :
          /\ Answer([Packet("SUBACK", p.id) EXCEPT !.ok = granted])
          /\ subscribed' = granted
          /\ IF granted THEN NoFault ELSE Fault
    /\ subscribeSeen' = TRUE
    /\ UNCHANGED <<session, announced, retainedButton, ledInFlight>>

BrokerPublish(p) ==
    /\ p.type = "PUBLISH" /\ session
    /\ Answer(Packet("PUBACK", p.id))
    /\ announced' = (announced \/ p.msg = "online")
    /\ retainedButton' = IF p.msg \in Buttons THEN p.msg ELSE retainedButton
    /\ NoFault
    /\ UNCHANGED <<session, subscribed, subscribeSeen, ledInFlight>>

BrokerPubAck(p) ==
    /\ p.type = "PUBACK" /\ session /\ p.id \in ledInFlight
    /\ ledInFlight' = ledInFlight \ {p.id}
    /\ NoFault
    /\ UNCHANGED <<down, session, subscribed, subscribeSeen, announced, retainedButton>>

BrokerPing(p) ==
    /\ p.type = "PINGREQ" /\ session
    /\ Answer(Packet("PINGRESP", 0))
    /\ NoFault
    /\ UNCHANGED broker

\* What a conforming broker accepts from this client.
Accepts(p) ==
    \/ p.type = "CONNECT" /\ ~session
    \/ p.type \in {"SUBSCRIBE", "PUBLISH", "PINGREQ"} /\ session
    \/ p.type = "PUBACK" /\ session /\ p.id \in ledInFlight

BrokerStep ==
    /\ net = "ok" /\ up # <<>>
    /\ LET p == Head(up) IN
          \/ BrokerConnect(p) \/ BrokerSubscribe(p) \/ BrokerPublish(p)
          \/ BrokerPubAck(p) \/ BrokerPing(p)
    /\ up' = Tail(up)
    /\ UNCHANGED <<vars, task, button, link, net, unacked, presses, ledMsgs>>

\* A refused CONNECT is answered, then the broker closes the connection.
BrokerRefuse ==
    /\ net = "ok" /\ up # <<>> /\ Head(up).type = "CONNECT" /\ Fault
    /\ Answer([Packet("CONNACK", 0) EXCEPT !.ok = FALSE])
    /\ net' = "reset" /\ up' = <<>>
    /\ UNCHANGED <<vars, task, button, link, unacked, broker, presses, ledMsgs>>

\* A message for board/leds/1, of level 0 or of level 1 with a fresh identifier.
SendLedMessage ==
    /\ net = "ok" /\ session /\ subscribed /\ ledMsgs < MaxLedMsgs
    /\ ledMsgs' = ledMsgs + 1
    /\ \/ /\ Answer(PublishPacket(0, 0, NoMsg))
          /\ UNCHANGED ledInFlight
       \/ \E id \in PacketIds \ (ledInFlight \cup {0}) :
             /\ Answer(PublishPacket(id, 1, NoMsg))
             /\ ledInFlight' = ledInFlight \cup {id}
    /\ UNCHANGED <<vars, task, button, link, net, unacked, up, session, subscribed,
                   subscribeSeen, announced, retainedButton, faults, presses>>

\* The keep-alive interval, an hour, exceeds a round trip to the broker.
TimePasses ==
    /\ KeepAliveExpires
    /\ \A i \in DOMAIN up : up[i].type # "PINGREQ"
    /\ \A i \in DOMAIN down : down[i].pkt.type # "PINGRESP"
    /\ UNCHANGED <<task, button, link, network, broker, counters>>

AppNext ==
    \/ ClientStep
    \/ AppStep
    \/ PressButton
    \/ LinkUp
    \/ LinkDown
    \/ SilentLoss
    \/ Reset
    \/ TcpGiveUp
    \/ BrokerStep
    \/ BrokerRefuse
    \/ SendLedMessage
    \/ TimePasses

AppSpec == AppInit /\ [][AppNext]_appVars

\* The task can go on unless it waits for the link or for the broker; its steps
\* then are enabled, whatever the bounds on the faults.
WaitsForLink == at = "loop" /\ ~connectionState /\ ~link

WaitsForBroker ==
    /\ InProcessEvents /\ state \in {"IDLE", "PACKET_SENT"} /\ ~PingDue
    /\ net = "ok" /\ down = <<>> /\ call.op # "TASK"

TaskCanGoOn == ~WaitsForLink /\ ~WaitsForBroker

\* What its steps, and no others, change.
ofTask == <<context, transport, caller, streams, owed, progress, task>>

\* The task is scheduled, time passes, the broker answers, TCP retransmission
\* is bounded and a link comes back; nothing else is assumed.  The second
\* conjunct is WF_appVars(ClientStep \/ AppStep), spelt out for the sake of TLC.
FairAppSpec ==
    /\ AppSpec
    /\ <>[]TaskCanGoOn => []<><<TRUE>>_ofTask
    /\ WF_appVars(BrokerStep) /\ WF_appVars(TcpGiveUp)
    /\ WF_appVars(LinkUp) /\ WF_appVars(TimePasses)

-----------------------------------------------------------------------------
(* Properties *)

\* The broker never receives a packet a conforming broker must refuse: no
\* second CONNECT, nothing before CONNECT, no PUBACK it does not wait for.
ProtocolRespected == net = "ok" /\ up # <<>> => Accepts(Head(up))

\* connectionState means that on this very connection the broker has accepted
\* the session, processed the subscription and taken "online".
ConnectedIsReal ==
    connectionState /\ net = "ok" => session /\ subscribeSeen /\ announced

\* A publication of the button that succeeds has reached the broker.
ButtonDelivered == Succeeded("publishing") => retainedButton = buttonState

\* The identifiers the broker waits for are in flight towards the client, in
\* the client's hands or on their way back: no acknowledgement is ever lost
\* on a healthy connection, and none is sent twice.
Occurrences(id) ==
    Cardinality({i \in DOMAIN down : down[i].pkt.type = "PUBLISH" /\ down[i].pkt.qos = 1
                                     /\ down[i].pkt.id = id})
    + Cardinality({i \in DOMAIN up : up[i] = Packet("PUBACK", id)})
    + (IF owed = Packet("PUBACK", id) THEN 1 ELSE 0)

LedAcksConserved ==
    net = "ok" => \A id \in PacketIds :
        Occurrences(id) = IF id \in ledInFlight THEN 1 ELSE 0

\* However the faults fall, once they are over the board ends up connected to
\* the broker for good, with its session and its announcement in place.  The
\* one exception is a connection that died silently in the middle of a packet
\* the client is reading, see KeepAliveServed.
Recovers ==
    \/ <>[](connectionState /\ net = "ok" /\ session /\ announced)
    \/ <>[](net = "dead" /\ HeadCut /\ state = "RECEIVING_PACKET")

\* A message of level 1 for the LED is acknowledged or its connection is lost.
LedMessagesAcked == \A id \in PacketIds : id \in ledInFlight ~> id \notin ledInFlight

\* "It is the responsibility of the client to ensure that the interval between
\* control packets being sent does not exceed the keep-alive value"
\* (mqtt_client_misc.c:71-72): when it expires something is sent or the
\* connection is given up.
KeepAliveServed == (keepAliveDue /\ connectionState) ~> (~keepAliveDue \/ ~connectionState)

=============================================================================
