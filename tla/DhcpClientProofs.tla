-------------------------- MODULE DhcpClientProofs --------------------------
(***************************************************************************)
(* For any number of servers and addresses, any delays and any life of     *)
(* messages: an address the stack uses is leased, and is not one that a    *)
(* host that answers probes has.                                           *)
(***************************************************************************)
EXTENDS DhcpClient, TLAPS

Leased == {"PROBING", "BOUND", "RENEWING", "REBINDING"}

\* An identifier that was drawn for a DISCOVER is not one of a REQUEST, and the
\* requests of the current transaction, with their ACKs, are for requestedIpAddr.
Solicits(m) == m.kind \in {"DISCOVER", "OFFER"} /\ m.xid = transactionId

Requests(m) == m.kind \in {"REQUEST", "ACK"} /\ m.xid = transactionId

XidInv ==
    /\ \A m \in net : Requests(m) => m.addr = requestedIpAddr
    /\ \A m, n \in net : ~(Solicits(m) /\ Requests(n))
    /\ state = "SELECTING" /\ retransmitCount > 0 => \A m \in net : ~Requests(m)
    /\ state \in {"REQUESTING", "REBOOTING", "RENEWING", "REBINDING"} /\ retransmitCount > 0
           => \A m \in net : ~Solicits(m)

\* Only addresses another host has are found in conflict and declined; while the
\* probe of one of them is not answered, its timer runs.
ProbeInv ==
    /\ declined \subseteq taken
    /\ \A m \in net : m.kind = "DECLINE" => m.addr \in taken
    /\ state = "PROBING" /\ conflict => addr \in taken
    /\ state = "PROBING" /\ retransmitCount > 0 /\ addr \in taken /\ ~conflict => wait > 0
    /\ AddressIsUnique

\* The age of the lease at the tick that follows.
NextAge == IF ticked THEN age + 1 ELSE age

Timed(deadline) == age + wait <= deadline /\ (wait = 0 => ~ticked)

\* A client that has left BOUND or RENEWING late reaches REBINDING before the lease is over.
AgeInv ==
    /\ state = "PROBING" /\ retransmitCount = 0 => wait = 0 /\ NextAge <= 1
    /\ state = "PROBING" /\ retransmitCount > 0 =>
           /\ retransmitCount <= ProbeNum
           /\ Timed(1 + retransmitCount * ProbeDelay)
    /\ state = "BOUND" => NextAge + 2 <= LeaseTime
    /\ state = "RENEWING" =>
           \/ retransmitCount = 0 /\ wait = 0 /\ NextAge + 1 <= LeaseTime
           \/ retransmitCount > 0 /\ Timed(Lesser(T2, MaxDelay))
    /\ state = "REBINDING" =>
           \/ retransmitCount = 0 /\ wait = 0 /\ NextAge <= LeaseTime
           \/ retransmitCount > 0 /\ Timed(LeaseTime)

\* The server keeps an address longer than any ACK, and any client that took one, believes.
BindingInv ==
    /\ \A m \in net : m.kind = "ACK" =>
           m.addr \in taken \/ bindings[m.addr] >= LeaseTime + m.life
    /\ state \in Leased => addr \in taken \/ bindings[addr] + age > LeaseTime

DhcpInv == DhcpTypeOK /\ XidInv /\ ProbeInv /\ AgeInv /\ BindingInv

-----------------------------------------------------------------------------
USE DEF vars, client, world, lease, timing, entry, ChangeState

\* The next request of a renewal is sent before the deadline or at it, and not at once.
LEMMA Delay ==
    ASSUME NEW deadline \in Nat, age \in Nat, age < deadline
    PROVE  RenewalDelay(deadline) \in Nat \ {0} /\ age + RenewalDelay(deadline) <= deadline
BY TimeAssumption DEF RenewalDelay

\* Every step keeps the types.
LEMMA TypeStep ==
    ASSUME DhcpTypeOK, [Next]_vars
    PROVE  DhcpTypeOK'
<1>. USE AddressAssumption, TimeAssumption
   DEF DhcpTypeOK, States, LeasedStates, Messages
<1>1. CASE Tick
  <2>. ~ticked /\ ticked' /\ UNCHANGED <<age, linkState, bindings, declined, taken>>
    BY <1>1 DEF Tick
  <2>1. CASE StateInit("INIT", "SELECTING")
    BY <2>1 DEF StateInit
  <2>2. CASE StateInit("INIT-REBOOT", "REBOOTING")
    BY <2>2 DEF StateInit
  <2>3. CASE StateSelecting
    BY <2>3 DEF StateSelecting, DrawXid, FreshXids, Send, Message, Retransmitted, Lesser
  <2>4. CASE StateRequesting
    BY <2>4 DEF StateRequesting, DrawXid, FreshXids, SendRequest, Send, Message,
       Retransmitted, Lesser
  <2>5. CASE RequestUnanswered
    BY <2>5 DEF RequestUnanswered
  <2>6. CASE ProbeConflict
    BY <2>6 DEF ProbeConflict, Send, Message
  <2>7. CASE SendProbe
    BY <2>7 DEF SendProbe, Retransmitted, Lesser
  <2>8. CASE ProbeDone
    BY <2>8 DEF ProbeDone
  <2>9. CASE StateBound
    BY <2>9 DEF StateBound
  <2>10. CASE StateRenewing
    BY <2>10 DEF StateRenewing, Renew, DrawXid, FreshXids, SendRequest, Send,
       Message, Retransmitted, RenewalDelay, Lesser
  <2>11. CASE RenewalUnanswered
    BY <2>11 DEF RenewalUnanswered
  <2>12. CASE StateRebinding
    BY <2>12 DEF StateRebinding, Renew, DrawXid, FreshXids, SendRequest, Send,
       Message, Retransmitted, RenewalDelay, Lesser
  <2>13. CASE LeaseExpired
    BY <2>13 DEF LeaseExpired, InvalidateAddr
  <2>14. CASE NothingDue /\ UNCHANGED <<state, lease, timing, entry, net>>
    BY <2>14 DEF NothingDue
  <2>. QED BY <1>1, <2>1, <2>2, <2>3, <2>4, <2>5, <2>6, <2>7, <2>8, <2>9, <2>10,
     <2>11, <2>12, <2>13, <2>14 DEF Tick, Handler
<1>2. CASE \E m \in net : Receive(m)
  <2>. PICK m \in net : Receive(m)  BY <1>2
  <2>. UNCHANGED <<linkState, ticked, world>>  BY DEF Receive
  <2>1. CASE ParseOffer(m)
    BY <2>1 DEF ParseOffer
  <2>2. CASE ParseAck(m)
    <3>1. m.addr \in Addrs /\ m.addr # Nobody /\ m.server \in Servers \cup {Nobody}
      BY <2>2 DEF ParseAck
    <3>2. \/ state' = "PROBING" /\ addrState' = "TENTATIVE" /\ conflict' = FALSE
          \/ state' = "BOUND" /\ addrState' = "VALID" /\ conflict' = conflict
      BY <2>2 DEF ParseAck
    <3>3. /\ serverIpAddr' = m.server /\ requestedIpAddr' = m.addr /\ addr' = m.addr
          /\ age' = 0 /\ wait' = 0 /\ retransmitCount' = 0 /\ UNCHANGED transactionId
      BY <2>2 DEF ParseAck
    <3>4. conflict' \in BOOLEAN
      BY <3>2
    <3>. QED
      BY <3>1, <3>2, <3>3, <3>4
  <2>3. CASE ParseNak(m)
    BY <2>3 DEF ParseNak, InvalidateAddr
  <2>. QED BY <2>1, <2>2, <2>3 DEF Receive
<1>3. CASE LinkChangeEvent
  BY <1>3 DEF LinkChangeEvent, InvalidateAddr
<1>4. CASE Elapse
  <2>1. net' \subseteq Messages
    BY <1>4 DEF Elapse
  <2>2. \A m \in net' : m.kind \in {"OFFER", "ACK", "DECLINE"} => m.addr \in Addrs
    BY <1>4 DEF Elapse
  <2>3. bindings' \in [Addrs -> Nat] /\ wait' \in Nat /\ age' \in Nat
    BY <1>4 DEF Elapse
  <2>. QED
    BY <1>4, <2>1, <2>2, <2>3 DEF Elapse
<1>5. CASE ArpConflict
  BY <1>5 DEF ArpConflict
<1>6. CASE \E s \in Servers, m \in net : Serve(s, m)
  <2>. PICK s \in Servers, m \in net : Serve(s, m)  BY <1>6
  <2>. UNCHANGED <<client, ticked, taken>>  BY DEF Serve
  <2>1. CASE ServerOffer(s, m)
    BY <2>1 DEF ServerOffer, Send, Message
  <2>2. CASE ServerAck(s, m)
    BY <2>2 DEF ServerAck, Asked, Send, Message
  <2>3. CASE ServerNak(s, m)
    BY <2>3 DEF ServerNak, Asked, Send, Message
  <2>4. CASE ServerDecline(s, m)
    BY <2>4 DEF ServerDecline
  <2>. QED BY <2>1, <2>2, <2>3, <2>4 DEF Serve
<1>7. CASE UNCHANGED vars
  BY <1>7
<1>. QED BY <1>1, <1>2, <1>3, <1>4, <1>5, <1>6, <1>7 DEF Next

\* A step never mixes the messages of two transactions.
LEMMA XidStep ==
    ASSUME DhcpTypeOK, XidInv, [Next]_vars
    PROVE  XidInv'
<1>. USE DEF DhcpTypeOK, XidInv, Solicits, Requests, LeasedStates, Leased, Messages
<1>1. CASE Tick
  <2>. ~ticked /\ ticked' /\ UNCHANGED <<age, linkState, bindings, declined, taken>>
    BY <1>1 DEF Tick
  <2>1. CASE StateInit("INIT", "SELECTING")
    BY <2>1 DEF StateInit
  <2>2. CASE StateInit("INIT-REBOOT", "REBOOTING")
    BY <2>2 DEF StateInit
  <2>3. CASE StateSelecting
    BY <2>3 DEF StateSelecting, DrawXid, FreshXids, Send, Message, Retransmitted, Lesser
  <2>4. CASE StateRequesting
    BY <2>4 DEF StateRequesting, DrawXid, FreshXids, SendRequest, Send, Message,
       Retransmitted, Lesser
  <2>5. CASE RequestUnanswered
    BY <2>5 DEF RequestUnanswered
  <2>6. CASE ProbeConflict
    BY <2>6 DEF ProbeConflict, Send, Message
  <2>7. CASE SendProbe
    BY <2>7 DEF SendProbe, Retransmitted, Lesser
  <2>8. CASE ProbeDone
    BY <2>8 DEF ProbeDone
  <2>9. CASE StateBound
    BY <2>9 DEF StateBound
  <2>10. CASE StateRenewing
    BY <2>10 DEF StateRenewing, Renew, DrawXid, FreshXids, SendRequest, Send,
       Message, Retransmitted, RenewalDelay, Lesser
  <2>11. CASE RenewalUnanswered
    BY <2>11 DEF RenewalUnanswered
  <2>12. CASE StateRebinding
    BY <2>12 DEF StateRebinding, Renew, DrawXid, FreshXids, SendRequest, Send,
       Message, Retransmitted, RenewalDelay, Lesser
  <2>13. CASE LeaseExpired
    BY <2>13 DEF LeaseExpired, InvalidateAddr
  <2>14. CASE NothingDue /\ UNCHANGED <<state, lease, timing, entry, net>>
    BY <2>14 DEF NothingDue
  <2>. QED BY <1>1, <2>1, <2>2, <2>3, <2>4, <2>5, <2>6, <2>7, <2>8, <2>9, <2>10,
     <2>11, <2>12, <2>13, <2>14 DEF Tick, Handler
<1>2. CASE \E m \in net : Receive(m)
  <2>. PICK m \in net : Receive(m)  BY <1>2
  <2>. UNCHANGED <<linkState, ticked, world>>  BY DEF Receive
  <2>1. CASE ParseOffer(m)
    BY <2>1 DEF ParseOffer
  <2>2. CASE ParseAck(m)
    BY <2>2 DEF ParseAck, AnswersRequest
  <2>3. CASE ParseNak(m)
    BY <2>3 DEF ParseNak, InvalidateAddr
  <2>. QED BY <2>1, <2>2, <2>3 DEF Receive
<1>3. CASE LinkChangeEvent
  BY <1>3 DEF LinkChangeEvent, InvalidateAddr
<1>4. CASE Elapse
  BY <1>4 DEF Elapse, ProbeUnanswered
<1>5. CASE ArpConflict
  BY <1>5 DEF ArpConflict
<1>6. CASE \E s \in Servers, m \in net : Serve(s, m)
  <2>. PICK s \in Servers, m \in net : Serve(s, m)  BY <1>6
  <2>. UNCHANGED <<client, ticked, taken>>  BY DEF Serve
  <2>1. CASE ServerOffer(s, m)
    BY <2>1 DEF ServerOffer, Send, Message
  <2>2. CASE ServerAck(s, m)
    BY <2>2 DEF ServerAck, Asked, Send, Message
  <2>3. CASE ServerNak(s, m)
    BY <2>3 DEF ServerNak, Asked, Send, Message
  <2>4. CASE ServerDecline(s, m)
    BY <2>4 DEF ServerDecline
  <2>. QED BY <2>1, <2>2, <2>3, <2>4 DEF Serve
<1>7. CASE UNCHANGED vars
  BY <1>7
<1>. QED BY <1>1, <1>2, <1>3, <1>4, <1>5, <1>6, <1>7 DEF Next

\* No step leads round the probe.
LEMMA ProbeStep ==
    ASSUME DhcpTypeOK, XidInv, ProbeInv, [Next]_vars
    PROVE  ProbeInv'
<1>. USE AddressAssumption, TimeAssumption
   DEF DhcpTypeOK, ProbeInv, AddressIsUnique, LeasedStates, Messages
<1>1. CASE Tick
  <2>. ~ticked /\ ticked' /\ UNCHANGED <<age, linkState, bindings, declined, taken>>
    BY <1>1 DEF Tick
  <2>1. CASE StateInit("INIT", "SELECTING")
    BY <2>1 DEF StateInit
  <2>2. CASE StateInit("INIT-REBOOT", "REBOOTING")
    BY <2>2 DEF StateInit
  <2>3. CASE StateSelecting
    BY <2>3 DEF StateSelecting, DrawXid, FreshXids, Send, Message, Retransmitted, Lesser
  <2>4. CASE StateRequesting
    BY <2>4 DEF StateRequesting, DrawXid, FreshXids, SendRequest, Send, Message,
       Retransmitted, Lesser
  <2>5. CASE RequestUnanswered
    BY <2>5 DEF RequestUnanswered
  <2>6. CASE ProbeConflict
    BY <2>6 DEF ProbeConflict, Send, Message
  <2>7. CASE SendProbe
    BY <2>7 DEF SendProbe, Retransmitted, Lesser
  <2>8. CASE ProbeDone
    BY <2>8 DEF ProbeDone
  <2>9. CASE StateBound
    BY <2>9 DEF StateBound
  <2>10. CASE StateRenewing
    BY <2>10 DEF StateRenewing, Renew, DrawXid, FreshXids, SendRequest, Send,
       Message, Retransmitted, RenewalDelay, Lesser
  <2>11. CASE RenewalUnanswered
    BY <2>11 DEF RenewalUnanswered
  <2>12. CASE StateRebinding
    BY <2>12 DEF StateRebinding, Renew, DrawXid, FreshXids, SendRequest, Send,
       Message, Retransmitted, RenewalDelay, Lesser
  <2>13. CASE LeaseExpired
    BY <2>13 DEF LeaseExpired, InvalidateAddr
  <2>14. CASE NothingDue /\ UNCHANGED <<state, lease, timing, entry, net>>
    BY <2>14 DEF NothingDue
  <2>. QED BY <1>1, <2>1, <2>2, <2>3, <2>4, <2>5, <2>6, <2>7, <2>8, <2>9, <2>10,
     <2>11, <2>12, <2>13, <2>14 DEF Tick, Handler
<1>2. CASE \E m \in net : Receive(m)
  <2>. PICK m \in net : Receive(m)  BY <1>2
  <2>. UNCHANGED <<linkState, ticked, world>>  BY DEF Receive
  <2>1. CASE ParseOffer(m)
    BY <2>1 DEF ParseOffer
  <2>2. CASE ParseAck(m)
    <3>1. m.addr = requestedIpAddr
      BY <2>2 DEF ParseAck, AnswersRequest, XidInv, Requests
    <3>. QED
      BY <2>2, <3>1 DEF ParseAck, AnswersRequest
  <2>3. CASE ParseNak(m)
    BY <2>3 DEF ParseNak, InvalidateAddr
  <2>. QED BY <2>1, <2>2, <2>3 DEF Receive
<1>3. CASE LinkChangeEvent
  BY <1>3 DEF LinkChangeEvent, InvalidateAddr
<1>4. CASE Elapse
  BY <1>4 DEF Elapse, ProbeUnanswered
<1>5. CASE ArpConflict
  BY <1>5 DEF ArpConflict
<1>6. CASE \E s \in Servers, m \in net : Serve(s, m)
  <2>. PICK s \in Servers, m \in net : Serve(s, m)  BY <1>6
  <2>. UNCHANGED <<client, ticked, taken>>  BY DEF Serve
  <2>1. CASE ServerOffer(s, m)
    BY <2>1 DEF ServerOffer, Send, Message
  <2>2. CASE ServerAck(s, m)
    BY <2>2 DEF ServerAck, Asked, Send, Message
  <2>3. CASE ServerNak(s, m)
    BY <2>3 DEF ServerNak, Asked, Send, Message
  <2>4. CASE ServerDecline(s, m)
    BY <2>4 DEF ServerDecline
  <2>. QED BY <2>1, <2>2, <2>3, <2>4 DEF Serve
<1>7. CASE UNCHANGED vars
  BY <1>7
<1>. QED BY <1>1, <1>2, <1>3, <1>4, <1>5, <1>6, <1>7 DEF Next

\* No tick finds the client behind a deadline by more than the next tick makes up.
LEMMA AgeStep ==
    ASSUME DhcpTypeOK, AgeInv, [Next]_vars
    PROVE  AgeInv'
<1>. USE AddressAssumption, TimeAssumption, LeaseAssumption
   DEF DhcpTypeOK, AgeInv, NextAge, Timed, Lesser, LeasedStates
<1>1. CASE Tick
  <2>. ~ticked /\ ticked' /\ UNCHANGED <<age, linkState, bindings, declined, taken>>
    BY <1>1 DEF Tick
  <2>1. CASE StateInit("INIT", "SELECTING")
    BY <2>1 DEF StateInit
  <2>2. CASE StateInit("INIT-REBOOT", "REBOOTING")
    BY <2>2 DEF StateInit
  <2>3. CASE StateSelecting
    BY <2>3 DEF StateSelecting, DrawXid, FreshXids, Send, Message, Retransmitted, Lesser
  <2>4. CASE StateRequesting
    BY <2>4 DEF StateRequesting, DrawXid, FreshXids, SendRequest, Send, Message,
       Retransmitted, Lesser
  <2>5. CASE RequestUnanswered
    BY <2>5 DEF RequestUnanswered
  <2>6. CASE ProbeConflict
    BY <2>6 DEF ProbeConflict, Send, Message
  <2>7. CASE SendProbe
    BY <2>7 DEF SendProbe, Retransmitted, Lesser
  <2>8. CASE ProbeDone
    BY <2>8 DEF ProbeDone
  <2>9. CASE StateBound
    BY <2>9 DEF StateBound
  <2>10. CASE StateRenewing
    <3>. DEFINE d == Lesser(T2, MaxDelay)
    <3>1. d \in Nat /\ d <= LeaseTime /\ age < d
      BY <2>10 DEF Lesser, StateRenewing, Renew
    <3>2. wait' \in Nat \ {0} /\ age + wait' <= d
      BY <2>10, <3>1, Delay DEF StateRenewing, Renew, Retransmitted
    <3>3. state' = state /\ retransmitCount' > 0 /\ ticked'
      BY <2>10 DEF StateRenewing, Renew, Retransmitted, Lesser
    <3>4. state = "RENEWING"
      BY <2>10 DEF StateRenewing, Renew
    <3>. QED
      BY <3>1, <3>2, <3>3, <3>4
  <2>11. CASE RenewalUnanswered
    BY <2>11 DEF RenewalUnanswered
  <2>12. CASE StateRebinding
    <3>. DEFINE d == Lesser(LeaseTime, MaxDelay)
    <3>1. d \in Nat /\ d <= LeaseTime /\ age < d
      BY <2>12 DEF Lesser, StateRebinding, Renew
    <3>2. wait' \in Nat \ {0} /\ age + wait' <= d
      BY <2>12, <3>1, Delay DEF StateRebinding, Renew, Retransmitted
    <3>3. state' = state /\ retransmitCount' > 0 /\ ticked'
      BY <2>12 DEF StateRebinding, Renew, Retransmitted, Lesser
    <3>4. state = "REBINDING"
      BY <2>12 DEF StateRebinding, Renew
    <3>. QED
      BY <3>1, <3>2, <3>3, <3>4
  <2>13. CASE LeaseExpired
    BY <2>13 DEF LeaseExpired, InvalidateAddr
  <2>14. CASE NothingDue /\ UNCHANGED <<state, lease, timing, entry, net>>
    BY <2>14 DEF NothingDue
  <2>. QED BY <1>1, <2>1, <2>2, <2>3, <2>4, <2>5, <2>6, <2>7, <2>8, <2>9, <2>10,
     <2>11, <2>12, <2>13, <2>14 DEF Tick, Handler
<1>2. CASE \E m \in net : Receive(m)
  <2>. PICK m \in net : Receive(m)  BY <1>2
  <2>. UNCHANGED <<linkState, ticked, world>>  BY DEF Receive
  <2>1. CASE ParseOffer(m)
    BY <2>1 DEF ParseOffer
  <2>2. CASE ParseAck(m)
    BY <2>2 DEF ParseAck, AnswersRequest
  <2>3. CASE ParseNak(m)
    BY <2>3 DEF ParseNak, InvalidateAddr
  <2>. QED BY <2>1, <2>2, <2>3 DEF Receive
<1>3. CASE LinkChangeEvent
  BY <1>3 DEF LinkChangeEvent, InvalidateAddr
<1>4. CASE Elapse
  BY <1>4 DEF Elapse, ProbeUnanswered
<1>5. CASE ArpConflict
  BY <1>5 DEF ArpConflict
<1>6. CASE \E s \in Servers, m \in net : Serve(s, m)
  <2>. PICK s \in Servers, m \in net : Serve(s, m)  BY <1>6
  <2>. UNCHANGED <<client, ticked, taken>>  BY DEF Serve
  <2>1. CASE ServerOffer(s, m)
    BY <2>1 DEF ServerOffer, Send, Message
  <2>2. CASE ServerAck(s, m)
    BY <2>2 DEF ServerAck, Asked, Send, Message
  <2>3. CASE ServerNak(s, m)
    BY <2>3 DEF ServerNak, Asked, Send, Message
  <2>4. CASE ServerDecline(s, m)
    BY <2>4 DEF ServerDecline
  <2>. QED BY <2>1, <2>2, <2>3, <2>4 DEF Serve
<1>7. CASE UNCHANGED vars
  BY <1>7
<1>. QED BY <1>1, <1>2, <1>3, <1>4, <1>5, <1>6, <1>7 DEF Next

\* The server never counts less time than the client.
LEMMA BindingStep ==
    ASSUME DhcpTypeOK, ProbeInv, BindingInv, [Next]_vars
    PROVE  BindingInv'
<1>. USE AddressAssumption, TimeAssumption
   DEF DhcpTypeOK, BindingInv, Leased, LeasedStates, Messages
<1>1. CASE Tick
  <2>. ~ticked /\ ticked' /\ UNCHANGED <<age, linkState, bindings, declined, taken>>
    BY <1>1 DEF Tick
  <2>1. CASE StateInit("INIT", "SELECTING")
    BY <2>1 DEF StateInit
  <2>2. CASE StateInit("INIT-REBOOT", "REBOOTING")
    BY <2>2 DEF StateInit
  <2>3. CASE StateSelecting
    BY <2>3 DEF StateSelecting, DrawXid, FreshXids, Send, Message, Retransmitted, Lesser
  <2>4. CASE StateRequesting
    BY <2>4 DEF StateRequesting, DrawXid, FreshXids, SendRequest, Send, Message,
       Retransmitted, Lesser
  <2>5. CASE RequestUnanswered
    BY <2>5 DEF RequestUnanswered
  <2>6. CASE ProbeConflict
    BY <2>6 DEF ProbeConflict, Send, Message
  <2>7. CASE SendProbe
    BY <2>7 DEF SendProbe, Retransmitted, Lesser
  <2>8. CASE ProbeDone
    BY <2>8 DEF ProbeDone
  <2>9. CASE StateBound
    BY <2>9 DEF StateBound
  <2>10. CASE StateRenewing
    BY <2>10 DEF StateRenewing, Renew, DrawXid, FreshXids, SendRequest, Send,
       Message, Retransmitted, RenewalDelay, Lesser
  <2>11. CASE RenewalUnanswered
    BY <2>11 DEF RenewalUnanswered
  <2>12. CASE StateRebinding
    BY <2>12 DEF StateRebinding, Renew, DrawXid, FreshXids, SendRequest, Send,
       Message, Retransmitted, RenewalDelay, Lesser
  <2>13. CASE LeaseExpired
    BY <2>13 DEF LeaseExpired, InvalidateAddr
  <2>14. CASE NothingDue /\ UNCHANGED <<state, lease, timing, entry, net>>
    BY <2>14 DEF NothingDue
  <2>. QED BY <1>1, <2>1, <2>2, <2>3, <2>4, <2>5, <2>6, <2>7, <2>8, <2>9, <2>10,
     <2>11, <2>12, <2>13, <2>14 DEF Tick, Handler
<1>2. CASE \E m \in net : Receive(m)
  <2>. PICK m \in net : Receive(m)  BY <1>2
  <2>. UNCHANGED <<linkState, ticked, world>>  BY DEF Receive
  <2>1. CASE ParseOffer(m)
    BY <2>1 DEF ParseOffer
  <2>2. CASE ParseAck(m)
    BY <2>2 DEF ParseAck, AnswersRequest
  <2>3. CASE ParseNak(m)
    BY <2>3 DEF ParseNak, InvalidateAddr
  <2>. QED BY <2>1, <2>2, <2>3 DEF Receive
<1>3. CASE LinkChangeEvent
  BY <1>3 DEF LinkChangeEvent, InvalidateAddr
<1>4. CASE Elapse
  BY <1>4 DEF Elapse, ProbeUnanswered
<1>5. CASE ArpConflict
  BY <1>5 DEF ArpConflict
<1>6. CASE \E s \in Servers, m \in net : Serve(s, m)
  <2>. PICK s \in Servers, m \in net : Serve(s, m)  BY <1>6
  <2>. UNCHANGED <<client, ticked, taken>>  BY DEF Serve
  <2>1. CASE ServerOffer(s, m)
    BY <2>1 DEF ServerOffer, Send, Message
  <2>2. CASE ServerAck(s, m)
    BY <2>2 DEF ServerAck, Asked, Send, Message
  <2>3. CASE ServerNak(s, m)
    BY <2>3 DEF ServerNak, Asked, Send, Message
  <2>4. CASE ServerDecline(s, m)
    <3>1. m.addr \in taken
      BY <2>4 DEF ServerDecline, ProbeInv
    <3>. QED
      BY <2>4, <3>1 DEF ServerDecline
  <2>. QED BY <2>1, <2>2, <2>3, <2>4 DEF Serve
<1>7. CASE UNCHANGED vars
  BY <1>7
<1>. QED BY <1>1, <1>2, <1>3, <1>4, <1>5, <1>6, <1>7 DEF Next

-----------------------------------------------------------------------------
LEMMA InitInv == Init => DhcpInv
<1>. SUFFICES ASSUME Init  PROVE DhcpInv
  OBVIOUS
<1>1. DhcpTypeOK
  <2>1. taken \subseteq Addrs
    BY AddressAssumption DEF Init
  <2>2. conflict \in BOOLEAN /\ linkState \in BOOLEAN /\ ticked \in BOOLEAN
    BY DEF Init
  <2>. QED BY <2>1, <2>2, AddressAssumption, TimeAssumption DEF Init, DhcpTypeOK, States
<1>2. XidInv
  BY DEF Init, XidInv
<1>3. ProbeInv
  BY DEF Init, ProbeInv, AddressIsUnique
<1>4. AgeInv
  BY DEF Init, AgeInv
<1>5. BindingInv
  BY DEF Init, BindingInv, Leased
<1>. QED BY <1>1, <1>2, <1>3, <1>4, <1>5 DEF DhcpInv

LEMMA InvStep == DhcpInv /\ [Next]_vars => DhcpInv'
BY TypeStep, XidStep, ProbeStep, AgeStep, BindingStep DEF DhcpInv

LEMMA Invariance == Spec => []DhcpInv
BY InitInv, InvStep, PTL DEF Spec

\* Every variable keeps its type, and the address entry agrees with the state.
THEOREM TypesKept == Spec => []DhcpTypeOK
<1>1. DhcpInv => DhcpTypeOK  BY DEF DhcpInv
<1>. QED BY Invariance, <1>1, PTL

\* The stack never uses an address that another host answers probes for:
\* every way to IPV4_ADDR_STATE_VALID leads through the probe of that address.
THEOREM AddressAlwaysUnique == Spec => []AddressIsUnique
<1>1. DhcpInv => AddressIsUnique  BY DEF DhcpInv, ProbeInv
<1>. QED BY Invariance, <1>1, PTL

\* The stack never uses an address longer than its server keeps it: the lease is
\* renewed in time or the address is invalidated.
THEOREM LeaseAlwaysHeld == Spec => []LeaseHeld
<1>1. DhcpInv => LeaseHeld
  <2>. SUFFICES ASSUME DhcpInv, addrState = "VALID"  PROVE addr \in Addrs /\ bindings[addr] > 0
    BY DEF LeaseHeld
  <2>1. addr \in Addrs /\ age \in Nat /\ bindings[addr] \in Nat
    BY AddressAssumption DEF DhcpInv, DhcpTypeOK
  <2>2. state \in {"BOUND", "RENEWING", "REBINDING"}
    BY DEF DhcpInv, DhcpTypeOK
  <2>3. age <= LeaseTime
    BY <2>2, TimeAssumption, LeaseAssumption
       DEF DhcpInv, DhcpTypeOK, AgeInv, NextAge, Timed, Lesser
  <2>4. bindings[addr] + age > LeaseTime
    BY <2>2 DEF DhcpInv, BindingInv, Leased, ProbeInv, AddressIsUnique
  <2>. QED BY <2>1, <2>3, <2>4, TimeAssumption
<1>. QED BY Invariance, <1>1, PTL

=============================================================================
