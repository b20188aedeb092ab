---------------------------- MODULE DhcpClient ----------------------------
(***************************************************************************)
(* The DHCP client that configures the interface of the board              *)
(* (cyclone_tcp/dhcp/dhcp_client.c), with the servers, the network and a   *)
(* host that may already use an address the servers lease.                 *)
(*                                                                         *)
(* Every handler of the client runs under netMutex from end to end, so     *)
(* each is one action: dhcpClientTick, the three handlers of messages and  *)
(* dhcpClientLinkChangeEvent.  Time passes in units of one period of       *)
(* dhcpClientTick, and the tick of a unit may come before, between or      *)
(* after the messages of that unit.  Times are kept as distances: `wait'   *)
(* is what is left of timestamp + timeout, `age' is the time since         *)
(* leaseStartTime, and a message carries what is left of its life.         *)
(***************************************************************************)
EXTENDS Naturals

CONSTANTS
    Servers,        \* DHCP servers
    Addrs,          \* the addresses they lease
    Owner,          \* the server an address belongs to
    TakenSets,      \* what another host may have taken: a set of sets of addresses
    Xids,           \* transaction identifiers
    Nobody,         \* neither a server nor an address
    InitDelays,     \* netGetRandRange(0, DHCP_CLIENT_INIT_DELAY)
    RetryDelays,    \* retransmitTimeout with its random part
    RequestMaxRc,   \* DHCP_CLIENT_REQUEST_MAX_RC
    ProbeNum,       \* DHCP_CLIENT_PROBE_NUM
    ProbeDelay,     \* DHCP_CLIENT_PROBE_DELAY
    MinDelay,       \* DHCP_CLIENT_REQUEST_MIN_DELAY
    T1, T2,         \* the times of renewal and of rebinding a server sends
    LeaseTime,      \* the lease time a server sends
    MaxDelay,       \* MAX_DELAY, where the client cuts the three
    MessageLife     \* the time a message may stay in the network

Lesser(m, n) == IF m <= n THEN m ELSE n

ASSUME AddressAssumption ==
    /\ 0 \in Xids /\ Xids \subseteq Nat
    /\ Owner \in [Addrs -> Servers]
    /\ TakenSets \subseteq SUBSET Addrs
    /\ Nobody \notin Addrs \cup Servers

ASSUME TimeAssumption ==
    /\ InitDelays \subseteq Nat /\ RetryDelays \subseteq Nat \ {0}
    /\ RequestMaxRc \in Nat \ {0} /\ ProbeNum \in 1 .. RequestMaxRc
    /\ {ProbeDelay, MinDelay, T1, T2, LeaseTime, MaxDelay, MessageLife} \subseteq Nat \ {0}

\* A lease is long enough for the ticks that take the client from its ACK through
\* the probe, and from each deadline to the next state.
ASSUME LeaseAssumption ==
    /\ Lesser(T1, MaxDelay) + 2 <= LeaseTime
    /\ Lesser(T2, MaxDelay) + 1 <= LeaseTime
    /\ ProbeNum * ProbeDelay + 4 <= LeaseTime

VARIABLES
    state,            \* context->state
    transactionId,
    serverIpAddr,
    requestedIpAddr,
    retransmitCount,
    wait,             \* timestamp + timeout - now, zero when it is past
    age,              \* now - leaseStartTime, kept where the client reads it
    addr,             \* addrList[i].addr
    addrState,        \* addrList[i].state
    conflict,         \* addrList[i].conflict
    linkState,
    ticked,           \* the tick of this unit of time has been served
    net,              \* messages that may still arrive, each any number of times
    bindings,         \* external: how long the server of an address keeps it for the client
    declined,         \* external: addresses a server knows another host has
    taken             \* external: addresses another host has

lease == <<transactionId, serverIpAddr, requestedIpAddr>>
timing == <<retransmitCount, wait>>
entry == <<addr, addrState, conflict>>
client == <<state, lease, timing, age, entry, linkState>>
world == <<net, bindings, declined, taken>>
vars == <<client, ticked, world>>

States == {"INIT", "SELECTING", "REQUESTING", "INIT-REBOOT", "REBOOTING",
           "PROBING", "BOUND", "RENEWING", "REBINDING"}

\* The states from which an enumeration compares as DHCP_STATE_INIT_REBOOT or later.
LeasedStates == {"INIT-REBOOT", "REBOOTING", "PROBING", "BOUND", "RENEWING", "REBINDING"}

\* A server is named by the option that holds its address, or by the address the
\* message is sent to; a broadcast without the option is for every server.
Messages ==
    [kind : {"DISCOVER", "OFFER", "REQUEST", "DECLINE", "ACK", "NAK"}, xid : Xids,
     server : Servers \cup {Nobody}, addr : Addrs \cup {Nobody}, life : 1 .. MessageLife]

Message(kind, xid, server, a) ==
    [kind |-> kind, xid |-> xid, server |-> server, addr |-> a, life |-> MessageLife]

\* A copy that is sent later outlives the earlier ones.
Send(message) ==
    net' = {m \in net : [m EXCEPT !.life = MessageLife] # message} \cup {message}

\* netGetRand() does not repeat a value that is still about.
FreshXids == Xids \ ({transactionId} \cup {m.xid : m \in net})

\* dhcpClientInit and dhcpClientStart have run.
Init ==
    /\ state = "INIT"
    /\ transactionId = 0
    /\ serverIpAddr = Nobody /\ requestedIpAddr = Nobody
    /\ retransmitCount = 0 /\ wait = 0 /\ age = 0
    /\ addr = Nobody /\ addrState = "INVALID" /\ conflict = FALSE
    /\ linkState = FALSE
    /\ ticked = FALSE
    /\ net = {}
    /\ bindings = [a \in Addrs |-> 0]
    /\ declined = {}
    /\ taken \in TakenSets

-----------------------------------------------------------------------------
(* dhcpClientTick *)

\* mutant: the count of the state that ends is kept
ChangeStateKeepsCount(s, delay) ==
    /\ state' = s
    /\ wait' = delay
    /\ UNCHANGED retransmitCount

ChangeState(s, delay) ==
    /\ state' = s
    /\ wait' = delay
    /\ retransmitCount' = 0

\* The timer is started again after a transmission. The count is read up to RequestMaxRc only.
Retransmitted(delay) ==
    /\ wait' = delay
    /\ retransmitCount' = Lesser(retransmitCount + 1, RequestMaxRc)
    /\ UNCHANGED state

\* A state draws an identifier at its first transmission.
DrawXid ==
    IF retransmitCount = 0
    THEN \E x \in FreshXids : transactionId' = x /\ \A y \in FreshXids : x <= y
    ELSE UNCHANGED transactionId

\* The server option is added in REQUESTING, a request is sent to the server in
\* RENEWING; the address is the one requested, or the one of the interface (ciaddr).
SendRequest ==
    Send(Message("REQUEST", transactionId',
        IF state \in {"REQUESTING", "RENEWING"} THEN serverIpAddr ELSE Nobody,
        IF state \in {"REQUESTING", "REBOOTING"} THEN requestedIpAddr ELSE addr))

InvalidateAddr ==
    /\ addr' = Nobody
    /\ addrState' = "INVALID"

\* INIT and INIT-REBOOT wait for the link.
StateInit(from, to) ==
    /\ state = from /\ linkState
    /\ \E delay \in InitDelays : ChangeState(to, delay)
    /\ UNCHANGED <<lease, entry, net>>

StateSelecting ==
    /\ state = "SELECTING" /\ wait = 0
    /\ DrawXid
    /\ Send(Message("DISCOVER", transactionId', Nobody, Nobody))
    /\ \E delay \in RetryDelays : Retransmitted(delay)
    /\ UNCHANGED <<serverIpAddr, requestedIpAddr, entry>>

\* REQUESTING and REBOOTING
StateRequesting ==
    /\ state \in {"REQUESTING", "REBOOTING"} /\ wait = 0
    /\ retransmitCount < RequestMaxRc
    /\ DrawXid
    /\ SendRequest
    /\ \E delay \in RetryDelays : Retransmitted(delay)
    /\ UNCHANGED <<serverIpAddr, requestedIpAddr, entry>>

RequestUnanswered ==
    /\ state \in {"REQUESTING", "REBOOTING"} /\ wait = 0
    /\ retransmitCount >= RequestMaxRc
    /\ ChangeState("INIT", 0)
    /\ UNCHANGED <<lease, entry, net>>

\* mutant: the server is not told
ProbeConflictSilent ==
    /\ state = "PROBING" /\ wait = 0 /\ conflict
    /\ ChangeState("INIT", 0)
    /\ UNCHANGED <<lease, entry, net>>

ProbeConflict ==
    /\ state = "PROBING" /\ wait = 0 /\ conflict
    /\ Send(Message("DECLINE", transactionId, serverIpAddr, requestedIpAddr))
    /\ ChangeState("INIT", 0)
    /\ UNCHANGED <<lease, entry>>

\* arpSendProbe
SendProbe ==
    /\ state = "PROBING" /\ wait = 0 /\ ~conflict
    /\ retransmitCount < ProbeNum
    /\ Retransmitted(ProbeDelay)
    /\ UNCHANGED <<lease, entry, net>>

ProbeDone ==
    /\ state = "PROBING" /\ wait = 0 /\ ~conflict
    /\ retransmitCount >= ProbeNum
    /\ addrState' = "VALID"
    /\ ChangeState("BOUND", 0)
    /\ UNCHANGED <<lease, addr, conflict, net>>

StateBound ==
    /\ state = "BOUND" /\ age >= Lesser(T1, MaxDelay)
    /\ ChangeState("RENEWING", 0)
    /\ UNCHANGED <<lease, entry, net>>

\* mutant: the minimum delay comes before the deadline
RenewalDelayAtLeast(deadline) ==
    IF deadline - age > 2 * MinDelay THEN (deadline - age) \div 2 ELSE 2 * MinDelay

\* Half of what is left before the deadline, or all of it when it is short.
RenewalDelay(deadline) ==
    IF deadline - age > 2 * MinDelay THEN (deadline - age) \div 2 ELSE deadline - age

\* RENEWING until T2, REBINDING until the end of the lease
Renew(from, deadline) ==
    /\ state = from /\ wait = 0 /\ age < deadline
    /\ DrawXid
    /\ SendRequest
    /\ Retransmitted(RenewalDelay(deadline))
    /\ UNCHANGED <<serverIpAddr, requestedIpAddr, entry>>

StateRenewing == Renew("RENEWING", Lesser(T2, MaxDelay))

RenewalUnanswered ==
    /\ state = "RENEWING" /\ wait = 0 /\ age >= Lesser(T2, MaxDelay)
    /\ ChangeState("REBINDING", 0)
    /\ UNCHANGED <<lease, entry, net>>

StateRebinding == Renew("REBINDING", Lesser(LeaseTime, MaxDelay))

LeaseExpired ==
    /\ state = "REBINDING" /\ wait = 0 /\ age >= Lesser(LeaseTime, MaxDelay)
    /\ InvalidateAddr
    /\ ChangeState("INIT", 0)
    /\ UNCHANGED <<lease, conflict, net>>

Handler ==
    \/ StateInit("INIT", "SELECTING") \/ StateInit("INIT-REBOOT", "REBOOTING")
    \/ StateSelecting \/ StateRequesting \/ RequestUnanswered
    \/ ProbeConflict \/ SendProbe \/ ProbeDone
    \/ StateBound \/ StateRenewing \/ RenewalUnanswered \/ StateRebinding \/ LeaseExpired

\* The timer of the state has not elapsed, or the link is down.
NothingDue ==
    \/ state \in {"INIT", "INIT-REBOOT"} /\ ~linkState
    \/ state = "BOUND" /\ age < Lesser(T1, MaxDelay)
    \/ state \notin {"INIT", "INIT-REBOOT", "BOUND"} /\ wait > 0

Tick ==
    /\ ~ticked
    /\ ticked' = TRUE
    /\ \/ Handler
       \/ NothingDue /\ UNCHANGED <<state, lease, timing, entry, net>>
    /\ UNCHANGED <<age, linkState, bindings, declined, taken>>

-----------------------------------------------------------------------------
(* dhcpClientProcessMessage and dhcpClientLinkChangeEvent *)

\* rapidCommit is FALSE: an ACK means nothing in SELECTING. In REQUESTING and
\* RENEWING the answer must come from the server the request was for.
AnswersRequest(m) ==
    /\ m.xid = transactionId
    /\ \/ state \in {"REQUESTING", "RENEWING"} /\ m.server = serverIpAddr
       \/ state \in {"REBOOTING", "REBINDING"}

ParseOffer(m) ==
    /\ m.kind = "OFFER" /\ m.xid = transactionId
    /\ state = "SELECTING"
    /\ serverIpAddr' = m.server
    /\ requestedIpAddr' = m.addr
    /\ ChangeState("REQUESTING", 0)
    /\ UNCHANGED <<transactionId, age, entry>>

\* The lease starts when its ACK arrives. A new address is probed, a renewed one is valid.
ParseAck(m) ==
    /\ m.kind = "ACK" /\ AnswersRequest(m)
    /\ serverIpAddr' = m.server
    /\ requestedIpAddr' = m.addr
    /\ age' = 0
    /\ addr' = m.addr
    /\ \/ /\ state \in {"REQUESTING", "REBOOTING"}
          /\ addrState' = "TENTATIVE"
          /\ conflict' = FALSE
          /\ ChangeState("PROBING", 0)
       \/ /\ state \in {"RENEWING", "REBINDING"}
          /\ addrState' = "VALID"
          /\ ChangeState("BOUND", 0)
          /\ UNCHANGED conflict
    /\ UNCHANGED transactionId

ParseNak(m) ==
    /\ m.kind = "NAK" /\ AnswersRequest(m)
    /\ InvalidateAddr
    /\ ChangeState("INIT", 0)
    /\ UNCHANGED <<lease, age, conflict>>

\* A message stays in the network until its life is over: it may be lost, late,
\* repeated or overtaken.
Receive(m) ==
    /\ ParseOffer(m) \/ ParseAck(m) \/ ParseNak(m)
    /\ UNCHANGED <<linkState, ticked, world>>

\* nicNotifyLinkChange sets linkState and calls the handler in one hold of netMutex.
LinkChangeEvent ==
    /\ linkState' = ~linkState
    /\ InvalidateAddr
    /\ state' = IF state \in LeasedStates THEN "INIT-REBOOT" ELSE "INIT"
    /\ UNCHANGED <<lease, timing, age, conflict, ticked, world>>

-----------------------------------------------------------------------------
(* Time, the servers and the other host *)

\* The host that has an address answers a probe before PROBE_DELAY is over.
ProbeUnanswered ==
    /\ state = "PROBING" /\ retransmitCount > 0 /\ wait = 1
    /\ addr \in taken /\ ~conflict

\* netTask serves the tick of a unit of time before the next unit begins.
Elapse ==
    /\ ticked
    /\ ~ProbeUnanswered
    /\ ticked' = FALSE
    /\ wait' = IF wait > 0 THEN wait - 1 ELSE 0
    /\ age' = IF state \in {"PROBING", "BOUND", "RENEWING", "REBINDING"} THEN age + 1 ELSE 0
    /\ net' = {[m EXCEPT !.life = @ - 1] : m \in {n \in net : n.life > 1}}
    /\ bindings' = [a \in Addrs |-> IF bindings[a] > 0 THEN bindings[a] - 1 ELSE 0]
    /\ UNCHANGED <<state, lease, retransmitCount, entry, linkState, declined, taken>>

\* arpProcessPacket: an ARP packet whose sender has the address of the entry.
ArpConflict ==
    /\ addrState # "INVALID" /\ addr \in taken
    /\ conflict' = TRUE
    /\ UNCHANGED <<state, lease, timing, age, addr, addrState, linkState, ticked, world>>

ServerOffer(s, m) ==
    /\ m.kind = "DISCOVER"
    /\ \E a \in Addrs \ declined :
           Owner[a] = s /\ Send(Message("OFFER", m.xid, s, a))
    /\ UNCHANGED <<bindings, declined>>

Asked(s, m) == m.kind = "REQUEST" /\ m.server \in {s, Nobody}

\* The server keeps the address until the lease is over for a client that the
\* ACK reaches at the end of its life.
ServerAck(s, m) ==
    /\ Asked(s, m) /\ m.addr \in Addrs \ declined /\ Owner[m.addr] = s
    /\ Send(Message("ACK", m.xid, s, m.addr))
    /\ bindings' = [bindings EXCEPT ![m.addr] = LeaseTime + MessageLife]
    /\ UNCHANGED declined

\* The address is not, or no longer, one the server may lease.
ServerNak(s, m) ==
    /\ Asked(s, m)
    /\ m.addr \in Addrs \ declined => Owner[m.addr] # s
    /\ Send(Message("NAK", m.xid, s, Nobody))
    /\ UNCHANGED <<bindings, declined>>

ServerDecline(s, m) ==
    /\ m.kind = "DECLINE" /\ m.server = s
    /\ declined' = declined \cup {m.addr}
    /\ bindings' = [bindings EXCEPT ![m.addr] = 0]
    /\ UNCHANGED net

Serve(s, m) ==
    /\ ServerOffer(s, m) \/ ServerAck(s, m) \/ ServerNak(s, m) \/ ServerDecline(s, m)
    /\ UNCHANGED <<client, ticked, taken>>

Next ==
    \/ Tick
    \/ \E m \in net : Receive(m)
    \/ LinkChangeEvent
    \/ Elapse
    \/ ArpConflict
    \/ \E s \in Servers, m \in net : Serve(s, m)

Spec == Init /\ [][Next]_vars

\* Now and then an answer to what the client has sent is made, and one arrives,
\* while the client waits for it.
OfferInTime == state = "SELECTING" /\ \E s \in Servers, m \in net :
    m.xid = transactionId /\ ServerOffer(s, m) /\ Serve(s, m)

AckInTime == state = "REQUESTING" /\ \E s \in Servers, m \in net :
    m.xid = transactionId /\ ServerAck(s, m) /\ Serve(s, m)

OfferArrives == \E m \in net : ParseOffer(m) /\ Receive(m)

AckArrives == \E m \in net : ParseAck(m) /\ Receive(m)

DeclineArrives == \E s \in Servers, m \in net : ServerDecline(s, m) /\ Serve(s, m)

\* netTask serves its timers, time passes, the host that is probed answers.
FairSpec ==
    /\ Spec
    /\ WF_vars(Tick) /\ WF_vars(Elapse) /\ WF_vars(ArpConflict)
    /\ SF_vars(OfferInTime) /\ SF_vars(AckInTime) /\ SF_vars(DeclineArrives)
    /\ SF_vars(OfferArrives) /\ SF_vars(AckArrives)

-----------------------------------------------------------------------------
(* Properties *)

\* Every variable has its type, and the address entry agrees with the state.
DhcpTypeOK ==
    /\ state \in States
    /\ transactionId \in Xids
    /\ serverIpAddr \in Servers \cup {Nobody}
    /\ requestedIpAddr \in Addrs \cup {Nobody}
    /\ retransmitCount \in 0 .. RequestMaxRc
    /\ wait \in Nat /\ age \in Nat
    /\ addr \in Addrs \cup {Nobody}
    /\ addrState \in {"INVALID", "TENTATIVE", "VALID"}
    /\ conflict \in BOOLEAN /\ linkState \in BOOLEAN /\ ticked \in BOOLEAN
    /\ net \subseteq Messages
    /\ \A m \in net : m.kind \in {"OFFER", "ACK", "DECLINE"} => m.addr \in Addrs
    /\ bindings \in [Addrs -> Nat]
    /\ declined \subseteq Addrs /\ taken \subseteq Addrs
    /\ addrState = "INVALID" <=> addr = Nobody
    /\ addrState = "VALID" <=> state \in {"BOUND", "RENEWING", "REBINDING"}
    /\ state = "PROBING" => addrState = "TENTATIVE"
    /\ state \in {"PROBING", "BOUND", "RENEWING", "REBINDING"} => addr = requestedIpAddr

\* An address the stack uses is one a server keeps for this client now, however
\* late the ACK that leased or renewed it came and however often it came.
LeaseHeld == addrState = "VALID" => addr \in Addrs /\ bindings[addr] > 0

\* An address the stack uses is not that of a host that answers probes: no path
\* to VALID goes round the probe, and a late ACK does not bring another address.
AddressIsUnique == addrState = "VALID" => addr \notin taken

\* With a link that stays up, an address is in use again and again, although
\* messages are lost and a server leases an address another host has.
AddressObtained == <>[]linkState => []<>(addrState = "VALID")
=============================================================================
