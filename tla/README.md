# SAME54 / ATECC608 IoT node: specification and proofs

The repository is the firmware of a SAM E54 Xplained board: Oryx CycloneTCP,
CycloneSSL and CycloneCrypto 1.9, Microchip CryptoAuthLib, FreeRTOS, and an
application (`main.c`) that keeps an MQTT session over TLS with a server,
publishes a button and drives a LED, with its private key inside an ATECC608
secure element.  This directory holds TLA+ models of that firmware, the TLC
runs that check them and the TLAPS proofs about them.

All paths below are relative to `src/SAME54_Oryx_ATECC608/`.

## Inventory

| Part | State it keeps | Operations | Interacts with | What is hard |
|---|---|---|---|---|
| MQTT task (`main.c` `mqttTestTask`, `mqttTestConnect`) | `connectionState`, `prevButtonState` | connect, subscribe, announce, poll the button, run the client, close and retry | MQTT client (calls), DNS client, link state of the driver | loss of the connection at any step, retries, what it believes against what the broker knows |
| LED task, `main` (`main.c`) | none | blink; bring up peripherals, ATECC, RNG, stack, DHCP, mDNS, then start the scheduler | shares the LED pin with the MQTT callback | two writers of one pin |
| MQTT client (`cyclone_tcp/mqtt`) | `MqttClientContext`: state, packet type and identifier, one buffer with a position, keep-alive time stamp, socket, TLS context | Connect, Publish, Subscribe, Unsubscribe, Ping, Task, Disconnect, Close, Deinit | TLS or sockets (calls), application callbacks | one buffer for both directions, timeouts in mid packet, replies interleaved with requests, keep-alive |
| TLS client (`cyclone_ssl`: handshake, record layer, session cache) | `TlsContext`: state, record buffers and positions, cipher state, session | `tlsConnect`, `tlsWrite`, `tlsRead`, `tlsShutdown` | socket callbacks, crypto, ATECC callbacks of `main.c` | resumable partial records, alerts, resumption, message order |
| ATECC608 driver (`lib`: `atca_execution.c`, `atca_iface.c`, `hal/hal_i2c_start.c`, `tls/atcatls.c`) | bus reference count, interface configuration; in the device: power state, TempKey, output buffer | wake, send, receive with polling, idle, sleep; sign, ECDH, random | I2C bus, device watchdog | a command is several bus transfers, each can fail; device state survives between commands |
| TCP (`cyclone_tcp/core/tcp*.c`, `socket.c`) | socket table, per socket: state, sequence variables, buffers, retransmission queue, timers, event masks | open, connect, listen, accept, send, receive, shutdown, close, abort; segment input; timers | IP layer, OS events, `netMutex` | loss, reordering, duplication, retransmission, timers against arrivals, close in all states |
| UDP, raw sockets, packet buffers (`udp.c`, `raw_socket.c`, `net_mem.c`) | receive queues | send, receive | sockets, NIC | queues at their limit |
| NIC, driver and net task (`nic.c`, `net.c`, `drivers/mac/same54_eth_driver.c`, `drivers/phy`) | descriptor rings, `nicEvent`, `netEvent`, link state | send, receive, interrupt, link change, periodic timers | interrupt handler, net task, senders | interrupt against task, rings full, events lost |
| IPv4, ARP, ICMP, IGMP (`ipv4`, `arp`) | ARP cache with pending queues, fragment queue, groups | resolve, input, ticks | NIC, upper layers | entry life cycle, pending packets, timers |
| DHCP client (`dhcp/dhcp_client.c`) | state, lease, timers, retransmission | tick, offer/ack/nak input, link change | UDP callback, IP configuration | lost and late answers, lease expiry, link changes |
| DNS client and cache, mDNS responder (`dns`, `mdns`) | shared cache, entries' state and retransmissions; responder state | resolve, tick, response input; probe, announce | UDP callbacks, application tasks polling the cache | entry reused while a task polls it |
| OS port (`common/os_port_freertos.c`) | FreeRTOS objects | events, semaphores, mutexes, tasks | everything | interrupt-safe variants |
| Random generator (`cyclone_crypto/rng/yarrow.c`) | pools, cipher | seed, add entropy, read | `main`, TLS | |
| Cryptography, X.509 (`cyclone_crypto`) | none across calls | pure algorithms | TLS | |
| HAL, HPL, start-up, generated drivers | registers | vendor code | | |

### What makes each part correct

* **MQTT client**: the byte stream carries whole packets whatever times out; an
  acknowledgement is never overwritten; success means sent and answered;
  nothing leaks on an error; nothing follows DISCONNECT.
* **MQTT task**: connected means connected, subscribed and announced on this
  very connection; a published state has arrived; every message of level 1 is
  acknowledged once; the board recovers from any bounded series of faults.
* **TLS**: records are written and read whole and in order across timeouts;
  the handshake only completes after both Finished messages; no application
  data before that and none after close_notify or a fatal alert.
* **ATECC driver**: a command that succeeds returns the answer to that command;
  the device is idled after every command; the digest that is signed is the
  one of this call.
* **TCP**: what is read is a prefix of what was sent; sockets always reach
  CLOSED or are reusable; a blocked caller is woken.
* **Driver and net task**: no received frame and no request to send is left
  waiting without an event pending.
* **ARP, DNS, DHCP**: entries and leases always move on; a lost answer costs a
  retry, never the entry.

## Modules

| Module | Contents |
|---|---|
| `MqttClient`, `MCMqttClient` | the MQTT client, with any caller, any peer and any transport outcome; its instance for TLC |
| `MqttApp`, `MCMqttApp` | `mqttTestTask` and `mqttTestConnect` over `MqttClient`, with a conforming broker and a failing network |
| `MqttAppProofs` | theorems about `MqttClient`, and about `MqttApp` |
| `TcpSocket` | the TCP control block: `tcp_misc.c`, `tcp_fsm.c` and `tcp_timer.c` as operators from a socket to a socket; no variables |
| `TcpConnection`, `MCTcpConnection` | two hosts that run `tcp.c` over `TcpSocket`: a task and the net task on each, and a network that loses, repeats and delays |
| `TcpService` | what a connection promises to the two programs: two reliable streams |
| `TcpConnectionProofs` | theorems about `TcpConnection`: wake-ups, types, the retransmission queue |
| `TcpStreamProofs` | theorems about its streams, and that it implements `TcpService`; extends `TcpConnectionProofs` |
| `TlsClient` | the TLS 1.2 client as the MQTT transport calls it: record layer and handshake, over a stream that times out, with a server |
| `TlsTypeProofs` | lemmas about `TlsClient`: its types, and what each of its steps changes |
| `TlsClientProofs` | theorems about `TlsClient`; extends `TlsTypeProofs` |
| `DhcpClient`, `MCDhcpClient` | the DHCP client with the ARP probe it rests on, servers and a network that loses, repeats and delays |
| `DhcpClientProofs` | theorems about `DhcpClient` |
| `NicDriver`, `MCNicDriver` | the Ethernet driver, PHY driver, `nic.c` and `netTask`, with controller, link and an application task that sends |
| `NicService` | what `NicDriver` promises to the stack: two reliable queues of frames |
| `NicDriverProofs` | theorems about `NicDriver`: its invariants, and that it implements `NicService` |
| `AteccDriver`, `MCAteccDriver` | CryptoAuthLib as the TLS callbacks use it, over a bus that fails, with the secure element |
| `AteccDriverProofs` | theorems about `AteccDriver` |

The models compose where the code's own interfaces do: `MqttApp` extends
`MqttClient`, `TcpConnection` extends `TcpSocket`, and `TcpConnection` and
`NicDriver` are shown to implement the abstract services `TcpService` and
`NicService`.  `MqttClient` and `TlsClient` see below them what `TcpService`
promises, a stream in order that may end or time out anywhere.

### MqttClient

The variables `state`, `packetType`, `packetId`, `packetPos`, `socket` and
`tlsContext` are the fields of the same name of `MqttClientContext`; `buffer`
is the outgoing packet in `context->buffer`; `keepAliveDue` is the outcome of
the comparison of `mqttClientCheckKeepAlive`.  `call` and `error` are the
parameters and the local variable of the API function that is running.
`result`, `wire`, `taken`, `owed`, `asked` and `answered` are history
variables: they say how the last call returned, which outgoing packet the
stream is inside of, how much of the incoming one is read, which
acknowledgement the peer is owed, and what became of the call's request.

Every API function is a loop whose iteration looks at `state` and makes at most
one blocking transport call, so one iteration is one action.  `SendData`,
`PacketSent`, `WaitForData...`, `ReceivePartly` and `ReceivePacket` are the
branches of `mqttClientProcessEvents`, which most loops run; `ReceivePacket(p)`
is one action per `mqttClientProcessXxx`, with the reply it formats in the same
step.  `PingDue` is the test that `mqttClientProcessEvents` makes first.
`StartPublish`, `RequestComplete`, `RequestDone`, ... are the branches of the
request functions, `ConnectError` the tail of `mqttClientConnect`, and a status
of the loop that is not NO_ERROR leaves it through `RequestError`.

A packet is `Units` units long, so that sending and receiving can stop anywhere
in it.  Its encoding, topics and payloads are abstracted; `fits` is the choice
of a packet that does not fit the buffer.  `INVALID` is every packet that
`mqttClientProcessPacket` refuses.

`CloseOnError` says whether the caller closes the client after a failed call,
as `main.c` does.  `Framing`, `AcksKept` and `NoLeak` hold for any caller.
`SuccessIsEarned` and `SilentAfterDisconnect` need such a caller: a call after
an error finds the packet type and the state of the failed one.

### MqttApp

`at` is the place of `mqttTestTask` between two calls, and the other task
variables are its locals.  `TryConnect`, `Subscribe`, `Announce` and `Connected`
are `mqttTestConnect` and the branch that calls it; `PollButton`, `ButtonSent`,
`TaskDone` and `CloseAndPause` are the other branch.  `ClientStep` is an action
of `MqttClient` with the network's part: `up` and `down` hold the packets on
their way, `net` says whether the connection is healthy, dead without a sign, or
reset.  The broker answers as MQTT 3.1.1 asks, may refuse, and sends messages of
level 0 or 1 for the LED.  Broker, network, link and button are external.

`Incoming` contains SUBACKs of both return codes, since the client treats them
alike.  `TaskAssumption` says of the constants what `main.c` fixes: the task
publishes messages of `Msgs`, and closes the client after an error.

### TcpSocket and TcpConnection

A record of `sock` is a `Socket`; its fields have the names of the code's.  Two
more belong to a step: `out`, the segments handed to the IP layer, and `nic`,
what becomes of them, so that the code's behaviour when `tcpSendSegment` fails
(no memory, or a refusing interface) is modelled where it happens.  `synQueue`
is that of the listener.  Sequence numbers wrap at `SeqSpace`; a unit of data is
one of a byte, and the k-th unit of a stream is the number k, so that a misplaced
unit is seen.

A step is what a task does between two waits of `tcpWaitForEvents` (it holds
`netMutex` meanwhile), the processing of one segment by the net task, or one
timer.  `Connect`, `Accept`, `Send`, `Receive`, `Shutdown` and `Close` begin a
call; `ConnectReturns`, `AcceptTurn`, `SendTurn`, `ReceiveTurn`, `FlushTurn`,
`DrainTurn`, `FinTurn` and `EndTurn` are what follows each wait, and loop where
the code does.  `ProcessSegment` is `tcpProcessSegment` with the state's handler
(`StateEstablished`, ...), which is an operator composed of the helpers the code
calls, in their order.  The client's program connects, and the listener's accepts
one connection; then each program writes, reads, shuts down and closes as it
likes, and only closes after an error.

`written`, `shut`, `read`, `ended` and `gaveUp` are history variables: what each
program gave to `socketSend`, whether its FIN is behind it, what `socketReceive`
returned, whether it returned the end of the stream, and which host gave up.
`faults` counts, each by its `Weight`, segments lost, repeated or delayed,
timers that elapse early ("hurry"), waits that time out, a program that aborts,
and failures to send.  Timers are long compared to the network: they elapse when
no segment is under way, the retransmission timer only at the host that has
retransmitted less often (its time-out is the shorter one), otherwise as a
fault; the override timer is short and elapses at any time.

Not modelled of TCP: the flags WAIT_ACK, WAIT_ALL and BREAK_CHAR, link events,
`socketPoll`, `tcpKillOldestConnection`, the measurement of round trips,
`ssthresh` (never below the send buffer here), options and checksums.  When
`tcpStateListen` cannot allocate an item of the SYN queue (`tcp_fsm.c:456`, `474`)
it drops the SYN, which is to the client as if the network had lost it: that is a
fault of the model, and the allocation has none of its own.  Half-close
with SD_SEND, simultaneous open and data in both directions are modelled, but no
run exercises them.

### DhcpClient

Every handler runs under `netMutex` and is one action: `Tick` is
`dhcpClientTick` with the function of the state, `ParseOffer`, `ParseAck` and
`ParseNak` (in the actions named after what arrives) the handlers of messages,
`ArpConflict` what `arpProcessReply` tells about the probed address.  Time is
counted in units of one tick: `wait` is `timestamp + timeout` less the present,
`age` the time since `leaseStartTime`.  The network is a set of messages with
their remaining life: they are lost, late, repeated and reordered, and a tick
comes before, between or after the messages of its unit.

The servers are external.  They lease disjoint addresses and keep a binding for
the lease and the life of a message.  A host that already has an offered address
answers probes within `PROBE_DELAY` (`TimeAssumption`).  A lease has T1 < T2 <
its length (`LeaseAssumption`).  A transaction identifier drawn at random is not
one still on its way.

Not exercised: `dhcpClientStop`, rapid commit (off in `main.c`), infinite leases,
the contents of options, callbacks.

### TlsClient

A step is what the client does up to the return of a socket callback, or one
message of the handshake.  A record crosses the transport in two halves, so that
`tlsWriteProtocolData` and `tlsReadProtocolData` can stop inside one.
`txBuffer`, `rxBuffer`, `rxRecord` and the engines are the fields of
`TlsContext`.  A key is what it was computed from, a session is the number of the
connection that established it, the transcript is the sequence of messages
hashed, so that two ends agree exactly when they computed from the same.

The server is external: full and resumed handshakes, with or without a request
for a certificate, messages packed into records or cut, HelloRequest, alerts.
Faults are a reset, damage to a record, a stall that ends the attempt, the secure
element failing a signature or a key agreement, and a server that refuses.  A
timeout is not a fault: the transport may time out at any half.  Time-outs in
`tlsSendClientKeyExchange` and `tlsSendChangeCipherSpec` are hidden by the result
of the next step of the code, and in the model too.

`Alerted` forms the alert as if `txBuffer` were empty.  With a record pending,
`tlsWriteProtocolData` would finish that record and send no alert.  The order of
calls rules this out: `Listening => context.tx = <<>>` holds in every state of the
run, and only a client that listens or that has nothing pending sends a fatal
alert.

Not modelled: TLS 1.3, DTLS, the server side, tickets, renegotiation (off), PSK,
the division of long data over records, allocation failures, the contents of
certificates and extensions.  Nor three things that an honest server does not do:
warning alerts other than close_notify and the limit on their number
(`tls_common.c:1765-1790`), empty records and their limit
(`tls_record.c:723-739`), and a ServerHello that resumes a session with
another cipher suite, which ends the handshake with ERROR_ILLEGAL_PARAMETER
(`tls_client_misc.c:1475-1488`).

### NicDriver

`txBufferDesc`, `txBufferIndex`, `rxBufferDesc` and `rxBufferIndex` are the
variables of `same54_eth_driver.c`; of a descriptor the model keeps the flags
and what is in its buffer.  `nicTxEvent`, `nicEvent`, `phyEvent`, `linkState` are
fields of `NetInterface`, `netEvent` and `netMutex` the globals of `net.c`.
`isr`, `tsr`, `rsr`, `bmsr` and `icsr` are device registers, reduced to what the
code looks at: whether an enabled cause is pending, the flags TXCOMP, REC and BNA
(TXGO is computed), the link bit that latches low, the link change flag.
`incoming`, `hwTx` and `hwRx` belong to the controller.  `accepted`, `wire`,
`stored`, `delivered` and `unnoticed` are history variables.

Every access of the software to state it shares with the hardware or with the
handler is a step of its own: `GMAC_Handler` is `IsrEnter`, `IsrClear`,
`IsrNotify`; `nicSendPacket` is `WaitTxEvent`, then the descriptor
(`SendTooLong`, `SendRefused`, `SendFrame`), then the look at the next one
(`SendTail`); `netTask` goes through `NetWait`, `NetLock`, `CheckNicEvent`,
`ReadReceiveStatus`, `ClearReceiveStatus`, `ReceivePacket` and `Reply` or
`ProcessDone` in a loop, `CheckPhyEvent`, `NetUnlock`, and `NicTick` with the
timers that may send.  `ReceivePacket` is the whole scan and copy of
`same54EthReceivePacket`: the descriptors it reads belong to the software, so
nobody changes them meanwhile; one that the controller fills later is as if
filled after the scan.  An interrupt preempts the tasks (`Run`), and may be
delayed.  The application task stands for any that sends through a socket: they
exclude each other by `netMutex`.

`CheckPhyEvent` is one step although it reads several registers over the
management bus, which takes microseconds while a link takes milliseconds to
change.  A tick of the model is one in which the NIC is polled (one per second);
the others differ only in that they do not read the PHY.  A frame is known by the
number of the event that caused it, and an incoming one is `len` buffers long.

`NicService` is two queues: accepted frames are sent, stored frames are
delivered, whole and in order.  A frame is lost only before, when the driver
refuses it or the controller finds no buffer.

### AteccDriver

The driver is one thread: `job` and `step` say which call of a TLS callback runs
and which of its commands, `at` is the I2C transfer or the delay that
`atca_execute_command` is at, and `retries`, `polls`, `status`, `packet`, `out`
are the locals and output parameters of the functions on the stack.  A step is one
transfer with what follows it: `WakePulse` and `WakeReply...` are `hal_i2c_wake`
inside `atwake`, which tries a failed wake again (`Woken`); `Send` is
`hal_i2c_send`; `Count...` and `Rest...` are the two transfers of
`hal_i2c_receive` inside the polling loop (`PollAgain`), `Checked` is `atCheckCrc`
and `isATCAError`; `Idle` is `atidle`; `NextCommand` and `CallReturns` are the
`atcab_xxx` functions, which copy from the packet (`CopyOutput`) and go on or
break.  `WakeReplyUnread` is the case in which `hal_check_wake` is given memory that
was never written: its outcome is a choice, since the stack may hold the answer to
an earlier wake (`Residues`).  A report that the self test failed is not tried again,
unlike the other failures of a wake (`Woken`).

The element is external: `power`, what it is `running` and for how many delays of
the driver, its output buffer `reply` of which `sent` parts have been read, the
Message Digest Buffer and the key of the ECDHE slot.  It listens only while awake
and not executing.  Waking from idle keeps its memory; sleep, where the watchdog
puts it, loses all but the keys, and waking from sleep may begin with a self test.
Whether the digest survives its use is left open.  A frame says what it was
computed from; a checksum is right for whole undamaged frames only.  Time is what
`Elapse` does in the three delays that matter to an execution: between two polls,
before a second wake and after `atidle`.

A fault is a transfer that fails although the element listens (a command may have
arrived all the same, a read may have advanced the output buffer), a damaged
command or reply, a self test that fails, a pulse that is not seen, an execution longer than the polling,
or the watchdog.  Mutual exclusion of callers is not modelled: `main` uses the
element before the scheduler starts, then only the MQTT task does.

## Runs

| Run | Question | Instance | Result |
|---|---|---|---|
| `mqtt_client` | does the client keep its promises to any caller that closes after an error, whatever peer and transport do? | 3 identifiers, 2 units, 1 message | 1.4 million states |
| `mqtt_app` | do task and client agree with the broker, and does the board recover and acknowledge? | 2 faults, 1 press, 1 LED message | 283 thousand states |
| `mqtt_keep_alive_mid_packet` | is a dead peer always noticed? | 1 fault, 1 LED message | violated |
| `tcp` | does a connection implement `TcpService`, with the invariants of its sequence variables? | send buffer 2, receive buffer 3, MSS 1, 3 units in one call, two losses or one delayed or refused segment, 2 retries, numbers that wrap | 391 thousand states |
| `tcp_live` | does every call return? | buffers of 1, 2 units, one fault of any kind but a refusal, shutdown of reception or both | 125 thousand states |
| `tcp_shutdown_truncates` | is the FIN behind all data? | send buffer 2, receive buffer 1, no fault | violated |
| `tls` | do both ends agree on what is protected by what, are data kept across time-outs, does a handshake end? | 2 connections, 2 units each way in the first, 1 fault | 623 thousand states |
| `dhcp` | is a lease held, unique and obtained? | 2 servers with one address each, another host that may have one of them | 307 thousand states |
| `nic_driver` | is no wake-up lost? | 2 TX and 2 RX buffers, frames of 1, 4 events | 869 thousand states |
| `nic_driver_live` | does the driver implement `NicService`; are frames and link changes always dealt with, and do senders return? | 2 TX and 3 RX buffers, frames of 1 or 2, 3 events | 192 thousand states |
| `atecc_driver` | does a call that succeeds return what belongs to it, does every call return, and do faults leave nothing behind? | 2 digests, keys, peers, reads per wake and polls, 2 faults | 697 thousand states |
| `atecc_post` | does an element that was asleep fail no call on a good bus? | no fault | violated |

The type invariants of `NicDriver`, `AteccDriver` and `DhcpClient` are proved,
and are therefore not repeated in the runs.  Deadlock is not checked where the
system stops by design: the connections of `TcpConnection` end, and those of
`TlsClient` are bounded in number.

Bounds.  Two units are enough to have a packet not begun, half done and done.
Three identifiers allow the current one, an earlier one and the wrap.  One
message suffices where messages are not compared.  Two faults allow a fault
during the recovery from another.  Queues need no bound: the client has one
request outstanding and the broker `MaxLedMsgs` messages.

In `tcp` the client's numbers start one below the wrap of `SeqSpace`.  Three units
in one call fill a send buffer of two, so that the call waits, and two segments
are in flight, which is what reordering, holes, selective acknowledgment and
retransmission of the queue need.  The receive buffer holds all three: with a
smaller one the defect of `tcp_shutdown_truncates` breaks the invariants of the
data too.  `tcp_live` has buffers of one, which makes the window close and the
persist timer run.  Two retries and two losses are one more loss than is
survived when both hit the same segment.

In `tls` the second connection resumes, or cannot resume, the session of the
first; two units of data are two records, so that one may be pending when the next
is written.  The second connection is bounded to one unit and one fault (`Bound`).
In `dhcp` the lease times are the shortest that keep T1, T2 and the end of the
lease apart from each other and from the life of a message.

An event of `NicDriver` is a frame sent, a frame arriving or a link change.  Two
TX buffers have a next one that is free or busy; one more event than buffers
fills either ring and wraps.  Three RX buffers with frames of two let a frame
span the wrap and be cut by a full ring.

`AteccDriver` has two digests, keys and peers, so that those of another call can
be told apart; calls are not bounded.  A retry and a second poll are one more than
none, and an execution of three delays outlives the two polls and the return.

Fairness of `AteccDriver` (`FairSpec`).  Weak fairness of the driver in the middle of a
call: it waits only in loops that count.  Nothing is assumed of calls; `Recovers`
speaks of runs in which they go on.

Fairness of `NicDriver` (`FairSpec`).  Weak fairness of the transmission of a
descriptor given to the controller, of the handler, and of each of the two tasks.
The handler is enabled only while the interrupt is; nothing is assumed of
arriving frames or of the link.  The application task gets to run because the
net task blocks between events.

Fairness (`FairAppSpec`).  Weak fairness of the task and the client in it (one
FreeRTOS task that never blocks without a timeout), of the broker, of TCP giving
up on unacknowledged data (`TCP_MAX_RETRIES`), of the link coming back and of
time.  Data given to a silent connection is what makes TCP find out; nothing is
assumed of a connection on which nothing is sent, since the client sends no
TCP keep-alive.  The first conjunct is the weak fairness of task and client with
its enabling condition spelt out (`TaskCanGoOn`), which TLC evaluates faster.

Fairness of `TcpConnection` (`FairSpec`).  As long as a task that is signalled, the
net task with a segment, or a timer can go on, one of them does (one weak
fairness, its enabling condition `CanGoOn` spelt out), and the server's program
accepts.  Nothing is assumed of the network: its faults are bounded by
`MaxFaults`.

Fairness of `DhcpClient` (`FairSpec`).  Weak fairness of the tick, of time and of
the answer to a probe.  Strong fairness of messages that arrive in time: a
network that is fast enough now and then.

Fairness of `TlsClient` (`FairSpec`).  Weak fairness of the client's own steps and
of the server's answers.

### Findings

* `KeepAliveServed`: `mqttClientCheckKeepAlive` acts in IDLE and PACKET_SENT
  only.  A peer that falls silent in the middle of a packet leaves the client in
  RECEIVING_PACKET, where every timeout is hidden by `mqttClientTask` and
  nothing is sent.  TCP, with nothing to retransmit, does not find out by itself, and
  the board stays deaf until something else breaks the connection.  `Recovers` therefore
  names this case as its exception.
* `GoodBusSucceeds`: when no read of `hal_i2c_wake` succeeds, as during a self
  test, it judges four bytes of uninitialised stack.  They may well be the answer to
  the last wake; then the wait for the self test is skipped and the call fails, and
  the bus stays at 100 kHz.  A failed command, nothing worse: the checks after it
  hold, and `Recovers` holds with this behaviour.
* `FinBehindData`: `socketShutdown` makes sure, says its comment (`tcp.c:748`),
  that all data have been sent before the FIN.  It waits for TX_DONE, but TX_DONE also
  means that the connection is being closed: when the peer's window stays closed for
  `TCP_MAX_RETRIES` probes, `tcpTick` (`tcp_timer.c:169`) enters CLOSED and raises the
  event, and `tcpShutdown` sends the FIN at `sndNxt`, the sequence number of the first
  byte that was never sent.

Met while modelling, without a run of their own:

* `main.c:679` saves the new button state although its publication failed, and
  does not publish it after the reconnection.
* `mqttClientProcessSubAck` does not look at the return codes: a refused
  subscription counts as done.  `mqtt_client_packet.c:985`: an identifier that
  wraps becomes 0, which MQTT forbids.
* `tcp_fsm.c:921`: in LAST_ACK the acknowledgment of a part of the data is
  ignored.  `tcp_misc.c:1296`: blocks are merged by MIN and MAX of the numbers as
  they are, which is wrong where they wrap.  `tcp_fsm.c:1000`: TIME_WAIT releases
  a receive buffer whose data may be unread after a half-close.
* `tcp.c:749`: when the FIN of the peer arrives while `tcpShutdown` waits for TX_DONE,
  the connection is in CLOSE_WAIT, but the code goes on as in ESTABLISHED and enters
  FIN_WAIT_1, not LAST_ACK.  After `SOCKET_SD_SEND` the program may go on reading, and
  `tcpReceive` then takes the number of the FIN for one of the data and reads one
  unit off: `AckedIsKept` fails on TLC with `Hows = {"SEND"}`, one unit each way and
  no fault.  With `SOCKET_SD_BOTH`, which MQTT uses, nothing is read any more.
* `GMAC_Handler` sets `nicTxEvent` also when a sender has just taken the event for
  the same buffer.  A later sender then takes a stale event, finds the buffer busy
  and its frame is dropped with ERROR_FAILURE, where `nicSendPacket` says it waits
  for the transmitter.  The service is kept: such a frame was never accepted.
* `dhcp_client.c:809` cuts the first delay to its maximum, and the comment at `:750`
  speaks of ten seconds where the delay is 0.
* `tls_handshake.c:812` hashes a HelloRequest that arrives in mid handshake, which
  the comment at `tls_handshake.c:641` excludes and `tls_client.c:843` means to
  ignore; the check of Finished then fails (`HandshakeCompletes` counts it as
  trouble).  An alert whose write times out is lost though `fatalAlertSent` is
  set.  The session saved for MQTT survives a fatal alert.  A retried `tlsWrite`
  that only completes the pending record reports the new data as written.

## Proofs

`MqttAppProofs` proves of the client, for every `IdSpace`, `Units`, `Msgs`, peer, transport
and interleaving:

| Theorem | Property | Assumption |
|---|---|---|
| `Typed` | `TypeOK` | none |
| `Framed` | `Framing` | none |
| `AcksAreKept` | `AcksKept` | none |
| `NothingLeaks` | `NoLeak` | none |
| `SuccessEarned` | `SuccessIsEarned` | `CloseOnError` |
| `DisconnectIsLast` | `SilentAfterDisconnect` | `CloseOnError` |

The assumptions on constants are those of the module: at least one identifier
and one unit.  `TypeOK` is not inductive alone: that `taken` stays within a
packet follows from `Framing`, so the two are proved together.  `Framing`,
`AcksKept` and `NoLeak` are then inductive as they stand.

`SuccessIsEarned` needs to know what a call may find in the context.  `CallInv`
says it: between calls the client is either at an end (CLOSED, DISCONNECTED) or
`Quiet` (no request in progress), and during a call it is also possibly inside
that call's own request, for which `InRequest` relates the buffer, `packetType`,
`packetId` and the history.  It is inductive only when a failed call is followed
by a close, which is where `CloseOnError` enters.  `ByeInv` says that once a
DISCONNECT has left, the client is on its way to DISCONNECTED or to a close; it
rests on `CallInv`.  TLC checked both on the instance of `mqtt_client` before
they were proved.

`NicDriverProofs` proves for rings of any size, frames of any length the ring
holds, any number of events and any interleaving:

| Theorem | Property | Assumption |
|---|---|---|
| `Typed` | `TypeOK` | none |
| `SendersWoken` | `TxWakeup` | none |
| `FramesNoticed` | `RxWakeup` | none |

The assumptions on constants are the static checks of the driver: at least one
buffer of each kind, and a receive ring that holds the longest frame.  `TypeOK`
needs that an arriving part belongs to its frame.  `TxWakeup` is inductive with
it.  `RxWakeup` needs two more facts.  `RingInv`: from `rxBufferIndex` on, some
number of descriptors are the driver's, and the controller is at the next one;
with it, a stored buffer is added at the end (`StoreAppends`) and a receive
removes a front (`ReceiveShifts`), so that only the last buffer of a frame
completes one, and a scan that finds none leaves none.  `TickInv`: the net task is
not in the handler of NIC events while it is in `netTick`.  What
`same54EthReceivePacket` releases is shown to be an initial interval of the ring
by the lemma `NoGap`.

`AteccDriverProofs` proves for any digests, keys and peers, any limits of retries,
polls and execution times, and any number of faults:

| Theorem | Property | Assumption |
|---|---|---|
| `Typed` | `TypeOK` | none |
| `SignatureRight` | `SignatureIsOfDigest` | none |
| `SecretRight` | `SecretIsOfKey` | none |
| `VerdictRight` | `VerdictIsOfDigest` | none |

The assumptions on constants: `None` is no digest, key or peer, and at least one
read is tried.  The three properties speak of the moment a call has returned; `Inv`
says how they come about.  `RunInv`: once a command has been accepted in a call, the
element executes nothing older, because it accepts only while it executes nothing.
From it follow `DigestInv` and `KeyInv`, what the nonce and genkey commands have
established and only a current command could take away, and `ReplyInv`, that a reply
in the output buffer is right for the current command.  `PacketInv` carries this
past the checksum into the packet, and says that a command that succeeded left
nothing running.  `ExecuteRight` and `ElapseRight` are the lemmas about the element
that most steps rest on.  TLC checked `Inv` on the instance of `atecc_driver`.

`TcpConnectionProofs` proves for windows, buffers and sequence numbers of any
size and any number of segments, faults and ticks:

| Theorem | Property | Assumption |
|---|---|---|
| `WaitersAreTold` | `NoLostWakeup` | none |
| `TypesKept` | `TypeOK` | none |
| `FlightAlwaysQueued` | `InFlightIsQueued` | none |

The assumptions on constants are those of the two modules: the send buffer holds one
or two segments, the receive buffer at least one, and both together are less
than a quarter of the sequence space.

For `NoLostWakeup` the inductive invariant is `AllTold`: it says of all three sockets,
the listening one included, what `NoLostWakeup` says of the two whose tasks
wait, and that they have the fields the events depend on.  The proof goes along the
operators of `TcpSocket`: one lemma for each of them says that it ends in
`tcpUpdateEvents`, or leaves every field the events depend on as it is
(`SameEvents`), or leaves only a socket of that shape (`IsSocket`), of which the
operator that calls it then makes one that has told its task.

`TypeOK` is not inductive, because what a step does to the windows depends on what was
received out of order before.  `HostsFit` is what the steps keep.  A socket is `Fit`:
the window offered and the data not yet read together never exceed the receive
buffer, and the blocks received out of order lie in the window, beyond `rcvNxt`,
and do not touch each other (`BlocksOK`).  Without the last, merging them with what
arrives (`MergeBlocksOf`) could move `rcvNxt` past the window and make `rcvWnd`
negative.  A task about to send its FIN has a socket that is `Draining`, because
`tcpShutdown` enters the next state whatever the state has become meanwhile; a
listener is in no other state and waits for requests only; the client's socket has
no blocks before it connects.  The lemmas go along the operators again and say what
each keeps: the receiver when it works on the sender and the other way round
(`SameReceiver`, `SameSender`), the state and what it knows of the blocks (`Goes`,
`Keeps`, `Ends`).  `MinusOf`, `PlusOf` and `OrderOf` are the lemmas about arithmetic
modulo `SeqSpace` all of this rests on: within half of the space, the order of
`TCP_CMP_SEQ` is that of the offsets.  What is defined by recursion over the
retransmission queue or the blocks is proved by induction on its length with
`UpTo` and `RecursionOf`, which are proved from the well-foundedness of the natural
numbers.  TLC checked `HostsFit` on the constants of `tcp`.

`InFlightIsQueued` needs `QueuesFit` besides `HostsFit`: what is in flight is covered by
the headers of the queue, and is no more than the send buffer holds, or one more in
the states after the FIN.  The bound is what makes it inductive.  The queue is emptied
by the signed comparison of the end of a segment with `sndUna` (`Pending`), which
tells old from new only within half of the sequence space; with the bound, a segment that
covers a number still in flight always compares as pending (`CoversPending`), for
any sequence numbers.  `StillQueued` says of an operation that it leaves `sndUna`, `sndNxt`
and the queued segments as they are, `Progress` that what was in flight and queued
before is so after: when `sndUna` advances (`CheckAckProgress`), when data are cut into
segments (`SendDataProgress`), when the FIN or the SYN takes a number of its own
(`SendFinQueued`, `OpensQueued`).  `Moves` adds the states a step of the net task
may go to.  `HostQueued` keeps the bound for a call that waits in "drain" even when the
connection closes under it, because `tcpShutdown` then sends the FIN all the same; only
in `CLOSED` otherwise and in `TIME_WAIT`, whose queue `tcpDeleteControlBlock` has
freed, nothing is required.  TLC checked `QueuesFit` on the constants of
`tcp`, and on larger ones.

`TcpStreamProofs` proves for windows, buffers, segments and sequence numbers of any
size, any number of segments and any fault of the network, the timers or memory:

| Theorem | Property | Hypotheses |
|---|---|---|
| `AcknowledgedIsKept` | `AckedIsKept` | `ShortStreams`, `NoHalfClose`, `[]FinBehindData` |
| `StreamsAreServed` | `ImplementsService` | the same |
| `MissingIsResent` | `ResendsWhatIsMissing` | the same |

Each hypothesis excludes something the first two theorems do not survive.

* `ShortStreams`: the longest stream, the receive buffer and the two numbers of
  SYN and FIN are together less than half of the sequence space.  The history
  variables count on where sequence numbers come around, and a segment of the last
  round cannot be told from one of this: `TCP_CMP_SEQ` compares within half of the
  space.  In the code, with 32 bits, it is a connection of less than 2 GB each way.
* `NoHalfClose`: no program calls `socketShutdown` with `SOCKET_SD_SEND`.
  `mqtt_client_transport.c` uses `SOCKET_SD_BOTH`; the Modbus server and the
  WebSocket, which do not, are not part of this application.  With `SOCKET_SD_SEND`
  TLC finds a counterexample to `AckedIsKept` (see the end of "Runs").
* `[]FinBehindData` is what `tcp_shutdown_truncates` shows the code does not always
  keep.  The theorem says that nothing else goes wrong: a behaviour in which no
  FIN is sent before the data is one of `TcpService`.

The inductive invariant is `Streams`, that is `HostsFit` and `StreamInv`.  Everything is
measured from the initial sequence number of the stream it belongs to, where unit j
has distance j.  `Speaks` says what a socket sends: `sndUna`, `sndNxt` and `sndUser`
add up to what its program has written (`Placed`), the send buffer holds the last
units at their places (`Stored`), and every queued header and segment is for units
written or for the FIN behind them, and acknowledges no more than has been received.
`Hears` says what it receives, as long as its program may read: `rcvNxt` and `rcvUser`
add up to what has been read, and the buffer holds the rest and the blocks
received out of order.  `Wire` says it of the segments on their way, however
old.  `Stage` relates the task to the socket.  `Begins` is for the handshake: as
long as a host has heard nothing, nothing on the wire acknowledges anything, so
that its peer cannot be established.

A segment carries unit j at distance j, or any value where the peer has
acknowledged more than that (`Low`): data that were acknowledged may be overwritten in the
send buffer while an older header still refers to them.  The receiver cuts
such a part off before it looks at the data (`TrimmedIsRight`), which is why the
limit is the receiver's `rcvNxt` and not the sender's `sndUna`, and why the invariant is
one of both hosts.  The proof keeps them apart all the same: `Env` is all that a
socket needs to know of the rest, the lemmas about the operators of `TcpSocket` speak
of one socket in a fixed `Env`, and a step of one host changes the `Env` of the other
only by raising `written`, `shut` and `low` (`Stepped`), which `Right` survives.
`ReadAt` and `WriteAt` are the lemmas about circular buffers, `MinusAdds`, `StreamOrder`
and `ModDiff` those about positions: that within `ShortStreams` the order of the sequence
numbers is that of the distances, and that places in a buffer that are less than
its size apart are different.

`StreamsAreServed` then takes each step to a step of `TcpService` or to none:
`SendTurn` to `Write`, `ReceiveTurn` to `Read` or `End`, `DrainTurn` to `Shut`.  TLC
checked the invariant on the complete state space of a connection in which both
hosts write and read, and on parts of larger ones with faults.

`TlsClientProofs` proves for any number of connections, faults and units of data,
any division of the handshake messages into records, and any interleaving:

| Theorem | Property | Assumption |
|---|---|---|
| `Typed` | `TlsTypeOK` | none |
| `Invariance` | `Inv` | none |
| `StreamKept` | `DataKept` | none |
| `EndsAgree` | `SecretsAgree` | none |

The assumption on constants is that the bounds are natural numbers.  `Inv` has ten
parts.  `TypeInv` is stronger than `TlsTypeOK`: no record is empty, and data carry
the number of their unit.  `CallInv`: the state in which each call finds and leaves
the context, and when a record may be pending.  `EngineInv`: the engine that protects
what the client sends counts its records, so that its sequence number is what
`tlsWrite` has counted.  `ContextInv`, `ServerInv` and `CacheInv`: what each end
knows of the session at each stage.  `UpInv` and `DownInv`: what the messages on their way carry,
wherever they are: in `txBuffer`, on the connection, in `rxBuffer`, or still with
the server.  `AgreedInv`: what the check of Finished has established.  It is here that
the transcript is needed: a Finished that verifies was computed by this server, over
the messages this client has seen, from the same secret.  `StreamInv`: the data on
their way are in order (`OrderInv`), without a gap from what `tlsRead` returned on
(`GapInv`), and none is behind a close_notify (`CloseInv`).  `DataKept` is not
inductive without all of them, since a truncated stream is told from a whole one
only by where the close_notify is.  Of a record only the second half counts, which
is what completes it (`Carried`), and `ShapeInv` says that the halves alternate.

The server and the client each take their data in their own way, so the two
directions rest on different facts.  Towards the server
a record opens only if it is the next one, because its sequence number is its unit and
that of the server's engine the number of units taken (`UpInv`, `ServerInv`); towards the
client the proof follows the units through four queues: `StreamStep` classifies
all actions by what they do to them, and one lemma for each class (`Passing...`) shows
that order, gaps and close_notify survive.  TLC checked `Inv` and each of its parts
on the instance of `tls` before they were proved.  `TlsTypeProofs` holds the parts
that say what fits into what (`TypeInv`, `CallInv`, `ShapeInv`), the lemmas that the
first two are kept, and one lemma for each step of the client and of the server that
says field by field what it changes: the other parts are proved from these alone.

Of the composition `MqttAppProofs` proves, for every number of faults, presses and messages, and any
interleaving of task, broker and network:

| Theorem | Property | Assumption |
|---|---|---|
| `AppIsClient` | `AppSpec` implies `MqttClient!Spec` | `TaskAssumption` |
| `AppTyped` | `AppTypeOK` | `TaskAssumption` |
| `ConnectedMeansReal` | `ConnectedIsReal` | `TaskAssumption` |
| `ButtonsArrive` | `ButtonDelivered` | `TaskAssumption` |
| `BrokerRespected` | `ProtocolRespected` | `TaskAssumption` |
| `LedAcksKept` | `LedAcksConserved` | `TaskAssumption` |

`AppIsClient` says that every step of the composition is a step of the client or
leaves it alone, so that the theorems about the client hold here too;
`Framing`, `CallInv` and `AcksKept` are taken from there.  `AppInv` adds what
relates the task to the client and both to the broker.  `PlaceInv`: the call and
the state of the client at each place of the task.  `PacketsInv`: what kind of
packet travels in which direction.  `RequestInv`: at most one request is under
way, or its answer is, or the answer has been received, and then the broker's
state is what the answer says.  `SessionInv`: a CONNECT is at the head of what
travels up before there is a session.  `StageInv`: how far the broker has come at
each place of the task.  `LedInv`: every identifier of an LED message is at exactly
one place: on its way down, being received, owed, on its way up, or done.
`ConnectedIsReal` is not inductive without all but the last: the task believes
what an acknowledgement tells it, so one has to know that it answers this very
request, on this connection.  `LedAcksConserved` counts identifiers in two
sequences; the `Leaving` and `Arriving` lemmas say what one step adds and removes.
TLC checked `AppInv` on the instance of `mqtt_app`.

`NicDriverProofs` also proves for rings of any size, frames of any length the ring
holds and any number of events:

| Theorem | Property | Assumption |
|---|---|---|
| `ServiceImplemented` | `ImplementsService` | none |

`ServiceInv` says where the two queues of `NicService` are in the rings.  `TxInv`:
from the controller's position on, the next descriptors hold, in order, what is
accepted and not yet sent.  `SenderInv`: a task about to fill a descriptor has a
frame.  `RxInv`: every stored buffer belongs to a frame that starts in the ring
with no end before it, the buffer before the next to be filled has the part
before, and the ends in the ring are, in order, the frames stored and not
delivered.  With it each step maps to a step of `NicService` or to none.  TLC
checked it on the instance of `nic_driver_live`.

`DhcpClientProofs` proves for any servers, addresses, times and number of
messages:

| Theorem | Property | Assumption |
|---|---|---|
| `TypesKept` | `DhcpTypeOK` | none |
| `AddressAlwaysUnique` | `AddressIsUnique` | none |
| `LeaseAlwaysHeld` | `LeaseHeld` | none |

The assumptions on constants are `AddressAssumption`, `TimeAssumption` and
`LeaseAssumption` of the module.  `DhcpInv` adds `XidInv` (an identifier drawn
for a DISCOVER is never that of a REQUEST, and requests and answers of the
current transaction are for the requested address), `ProbeInv` (the timer of a
probe not yet answered still runs), `AgeInv` (how the age of the lease keeps
within its deadlines) and `BindingInv` (a server counts at least as much time as
the client).  TLC checked it on the instance of `dhcp`.

Only model-checked, and why:

* all liveness (`Recovers`, `CallsReturn`, `HandshakeCompletes` and the like), which the
  proof system does not handle;
* `ResendsWhatWasWritten`, beyond what `MissingIsResent` says.  It speaks of all the
  data of a queued segment, also of a part that is acknowledged already, which the
  receiver does not look at.  That the whole is intact too rests on acknowledgments that end
  where a segment does, and so on windows whose right edge never moves back, an
  invariant of both hosts and of every acknowledgment on the wire, old ones included;
* `GivenUpOnlyAfterLosses`, which counts the losses that each retransmission has cost,
  over the past of a connection;
* the three theorems of `TcpStreamProofs` without their hypotheses, as explained there.

## Plan

1. (done) MQTT client and application; all their invariants are proved.
2. (done) Driver, NIC and net task: interrupt, events and rings; invariants and
   the implementation of `NicService` are proved.
3. (done) TCP: a connection between two sockets over a lossy network, refining
   two reliable streams.  That no wake-up is lost, that the state keeps its types,
   that what is in flight is queued, that what is acknowledged is kept and that the
   service is implemented is proved.
4. (done) ATECC driver, with proof that a success carries the answer to its
   command.
5. (done) TLS: record layer (resumable writes and reads) and client handshake.
   All its invariants are proved.
6. (done) DHCP client, with proofs of its invariants.

## Not modelled

Cryptography, certificates and parsers are pure functions whose correctness is
not a matter of states.  HAL, HPL, start-up code and generated drivers are vendor
code that touches registers.  Protocols of CycloneTCP that this configuration
does not build or start (CoAP, Modbus, SNMP, SMTP, PPP, IPv6 and others) are
left out.  The DNS client with its cache, the mDNS responder, ARP beyond the
probe of the DHCP client, IP, UDP, raw sockets and packet buffers are left out:
the node resolves one name before each connection, and a failure there is a failed
connection to `MqttApp`.  Of CryptoAuthLib: the commands `main` uses before the scheduler starts
(reading, SHA, certificates), and `atcab_init`.  In the Ethernet driver: transmit errors, after which the controller restarts at
the base of its ring, the MAC filter, and start-up.  Most of the repository's
lines are generated headers of device registers and vendor drivers, so that the
modelled lines are few in proportion.  Scheduling priorities are not modelled: a task that spins, such as
`mqttTestTask` while the link is down, starves nobody here.
