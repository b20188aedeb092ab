--------------------------- MODULE TlsTypeProofs ---------------------------
(***************************************************************************)
(* The types of TlsClient for any number of connections, faults and units  *)
(* of data, and what each of its steps makes of the context, of the server *)
(* and of what is between them, field by field.                            *)
(***************************************************************************)
EXTENDS TlsClient, TLAPS, SequenceTheorems

-----------------------------------------------------------------------------
(* Types: data carry the number of their unit, all other messages a number *)
(* of a session, and every record has a message.                           *)

ProperMessages ==
    {m \in Messages : IF m.name = "data" THEN m.id \in Data ELSE m.id \in Numbers}
Bodies == Seq(ProperMessages) \ {<<>>}
ProperHalves == [record : [body : Bodies, key : Engines], half : 0 .. 2]

ProperContexts ==
    [state : States, resume : BOOLEAN, clientCertRequested : BOOLEAN, cert : BOOLEAN,
     sessionId : Numbers, masterSecret : Numbers, transcript : Transcripts,
     encryption : Engines, decryption : Engines,
     tx : Seq(ProperHalves), rx : Seq(ProperMessages), rxRecord : Seq(ProperHalves),
     closeNotifySent : BOOLEAN, fatalAlert : BOOLEAN]

ProperServers ==
    [phase : {"hello", "handshake", "data", "over"}, resume : BOOLEAN, id : Numbers, secret : Numbers,
     expects : Seq(Names), transcript : Transcripts, flight : Seq(ProperMessages),
     encryption : Engines, decryption : Engines, sent : 0 .. MaxSent \cup {1}, got : Seq(Data), ended : BOOLEAN]

Calls == {"none", "connect", "read", "write", "shutdown", "failed", "ended", "done"}
Links == {"none", "open", "ended", "reset"}

TypeInv ==
    /\ context \in ProperContexts /\ session \in Sessions /\ server \in ProperServers
    /\ call \in Calls /\ todo \in 0 .. 2 /\ written \in 0 .. MaxWritten \cup {1} /\ got \in Seq(Data)
    /\ link \in Links
    /\ up \in Seq(ProperHalves) /\ down \in Seq(ProperHalves)
    /\ cache \subseteq Numbers \X Numbers
    /\ conn \in Numbers /\ faults \in 0 .. MaxFaults /\ troubled \in BOOLEAN

-----------------------------------------------------------------------------
(* The client and its caller *)

BeforeHello == {"INIT", "CLIENT_HELLO", "SERVER_HELLO"}
OnlyFull == {"SERVER_CERTIFICATE", "SERVER_KEY_EXCHANGE", "CERTIFICATE_REQUEST", "SERVER_HELLO_DONE",
             "CLIENT_CERTIFICATE", "CLIENT_KEY_EXCHANGE", "CLIENT_CERTIFICATE_VERIFY"}
Sending == {"CLIENT_CHANGE_CIPHER_SPEC", "CLIENT_FINISHED"}
Awaiting == {"SERVER_CHANGE_CIPHER_SPEC", "SERVER_FINISHED"}
Over == {"CLOSING", "CLOSED"}

Last == {"shutdown", "done", "failed"}

\* What state a call finds and leaves the context in, and when a record may be pending.
CallInv ==
    /\ link = "none" =>
           /\ call = "none" /\ todo = 0 /\ written = 0 /\ got = <<>> /\ up = <<>> /\ down = <<>>
           /\ context = FreshContext(NoSession) /\ server = ServerInit
    /\ link # "none" => conn > 0
    /\ link # "none" /\ call \in {"none", "read", "write"} => context.state \in Over \cup {"APPLICATION_DATA"}
    /\ call = "connect" => context.state # "CLOSING"
    /\ call = "connect" /\ context.tx # <<>> => context.state \in {"CLIENT_CERTIFICATE_VERIFY", "CLIENT_FINISHED"}
    /\ call \in {"none", "read"} /\ context.state = "APPLICATION_DATA" => context.tx = <<>>
    /\ call = "write" => todo > 0
    /\ call = "write" /\ context.state = "APPLICATION_DATA" => written + todo <= Bound(MaxWritten)
    /\ call = "shutdown" => context.state \in Over
    /\ context.state \notin Over \cup {"APPLICATION_DATA"} => written = 0
    /\ context.fatalAlert => context.state \in Over
    /\ context.closeNotifySent => call \in Last
    /\ call = "shutdown" /\ ~context.closeNotifySent => context.tx = <<>>

-----------------------------------------------------------------------------
(* What is on its way *)

Rising == Range(up) \cup Range(context.tx)

Live == context.state \notin Over

\* Records and what has been read of them are of one kind each, and the halves
\* alternate.
Uniform(body) == \A i \in DOMAIN body : Kind(body[i]) = Kind(body[1])

Even(n) == n % 2 = 0

ShapeInv ==
    /\ Uniform(context.rx)
    /\ \A h \in Range(down) \cup Range(context.rxRecord) : Uniform(h.record.body)
    /\ Live => /\ Len(context.rxRecord) \in {0, 1}
               /\ \A i \in DOMAIN down : down[i].half = 2 <=> Even(i + Len(context.rxRecord))
               /\ link = "open" => Even(Len(down) + Len(context.rxRecord))

-----------------------------------------------------------------------------
(* Sequences *)

LEMMA DropOf ==
    ASSUME NEW S, NEW s \in Seq(S), NEW n \in 0 .. Len(s)
    PROVE  /\ Drop(s, n) \in Seq(S) /\ Len(Drop(s, n)) = Len(s) - n
           /\ \A i \in 1 .. Len(s) - n : Drop(s, n)[i] = s[n + i]
           /\ Range(Drop(s, n)) \subseteq Range(s)
<1>1. /\ Drop(s, n) \in Seq(S) /\ Len(Drop(s, n)) = Len(s) - n
      /\ \A i \in 1 .. Len(s) - n : Drop(s, n)[i] = s[n + i]
  BY SubSeqProperties DEF Drop
<1>2. Range(Drop(s, n)) \subseteq Range(s)
  BY <1>1 DEF Range
<1> QED BY <1>1, <1>2

LEMMA FrontOf ==
    ASSUME NEW S, NEW s \in Seq(S), NEW n \in 0 .. Len(s)
    PROVE  /\ SubSeq(s, 1, n) \in Seq(S) /\ Len(SubSeq(s, 1, n)) = n
           /\ \A i \in 1 .. n : SubSeq(s, 1, n)[i] = s[i]
           /\ Range(SubSeq(s, 1, n)) \subseteq Range(s)
<1>1. /\ SubSeq(s, 1, n) \in Seq(S) /\ Len(SubSeq(s, 1, n)) = n
      /\ \A i \in 1 .. n : SubSeq(s, 1, n)[i] = s[i]
  BY SubSeqProperties
<1>2. Range(SubSeq(s, 1, n)) \subseteq Range(s)
  BY <1>1 DEF Range
<1> QED BY <1>1, <1>2

LEMMA ConcatOf ==
    ASSUME NEW S, NEW s \in Seq(S), NEW t \in Seq(S)
    PROVE  /\ s \o t \in Seq(S) /\ Len(s \o t) = Len(s) + Len(t)
           /\ \A i \in 1 .. Len(s) : (s \o t)[i] = s[i]
           /\ \A i \in Len(s) + 1 .. Len(s) + Len(t) : (s \o t)[i] = t[i - Len(s)]
           /\ Range(s \o t) = Range(s) \cup Range(t)
  BY ConcatProperties, RangeConcatenation

LEMMA ConcatRange ==
    ASSUME NEW S, NEW s \in Seq(S), NEW t \in Seq(S)
    PROVE  s \o t \in Seq(S) /\ Range(s \o t) = Range(s) \cup Range(t)
  BY ConcatOf, ZenonT(40)

LEMMA TailOf ==
    ASSUME NEW S, NEW s \in Seq(S), s # <<>>
    PROVE  /\ Head(s) \in S /\ Head(s) \in Range(s) /\ Head(s) = s[1]
           /\ Tail(s) \in Seq(S) /\ Len(Tail(s)) = Len(s) - 1
           /\ \A i \in 1 .. Len(s) - 1 : Tail(s)[i] = s[i + 1]
           /\ Range(Tail(s)) \subseteq Range(s)
<1>1. /\ Head(s) \in S /\ Head(s) \in Range(s) /\ Head(s) = s[1]
      /\ Tail(s) \in Seq(S) /\ Len(Tail(s)) = Len(s) - 1
      /\ \A i \in 1 .. Len(s) - 1 : Tail(s)[i] = s[i + 1]
  BY DEF Range
<1>2. Range(Tail(s)) \subseteq Range(s)
  BY <1>1 DEF Range
<1> QED BY <1>1, <1>2

LEMMA AppendOf ==
    ASSUME NEW S, NEW s \in Seq(S), NEW e \in S
    PROVE  /\ Append(s, e) \in Seq(S) /\ Len(Append(s, e)) = Len(s) + 1
           /\ Append(s, e) # <<>>
           /\ Range(Append(s, e)) = Range(s) \cup {e}
<1>1. /\ Append(s, e) \in Seq(S) /\ Len(Append(s, e)) = Len(s) + 1 /\ Append(s, e) # <<>>
      /\ \A i \in 1 .. Len(s) : Append(s, e)[i] = s[i]
      /\ Append(s, e)[Len(s) + 1] = e
  OBVIOUS
<1>2. Range(Append(s, e)) = Range(s) \cup {e}
  BY <1>1 DEF Range
<1> QED BY <1>1, <1>2

-----------------------------------------------------------------------------
(* The types of what the operators build *)

LEMMA MessageOf ==
    ASSUME NEW name \in Names, NEW id, NEW hash \in Transcripts,
           IF name = "data" THEN id \in Data ELSE id \in Numbers
    PROVE  Message(name, id, hash) \in ProperMessages
  BY DEF Message, ProperMessages, Messages

LEMMA AdvanceOf ==
    ASSUME NEW e \in Engines
    PROVE  Advance(e) \in Engines
  BY DEF Advance, Engines

LEMMA EngineOf ==
    /\ NoEngine \in Engines
    /\ \A secret \in Numbers : Engine(secret) \in Engines
  BY TlsAssumption DEF NoEngine, Engine, Engines, Nothing, Numbers

LEMMA HalvesOf ==
    ASSUME NEW body \in Bodies, NEW key \in Engines
    PROVE  LET record == Record(body, key)
           IN /\ Halves(record) \in Seq(ProperHalves)
              /\ Len(Halves(record)) = 2
              /\ Halves(record)[1] = [record |-> record, half |-> 1]
              /\ Halves(record)[2] = [record |-> record, half |-> 2]
              /\ \A h \in Range(Halves(record)) : h.record = record
<1> DEFINE record == Record(body, key)
           first == [record |-> record, half |-> 1]
           second == [record |-> record, half |-> 2]
<1>1. first \in ProperHalves /\ second \in ProperHalves
  BY DEF ProperHalves, Record
<1>2. Halves(record) = <<first, second>>
  BY DEF Halves
<1> HIDE DEF first, second, record
<1>3. /\ <<first, second>> \in Seq(ProperHalves) /\ Len(<<first, second>>) = 2
      /\ Range(<<first, second>>) = {first, second}
  BY <1>1 DEF Range
<1>4. first.record = record /\ second.record = record
  BY DEF first, second
<1> QED BY <1>2, <1>3, <1>4 DEF record, first, second

LEMMA QueueOf ==
    ASSUME NEW c \in ProperContexts, NEW m \in ProperMessages
    PROVE  /\ Queue(c, m) \in ProperContexts
           /\ Len(Queue(c, m).tx) = 2
           /\ \A h \in Range(Queue(c, m).tx) : h.record = Record(<<m>>, c.encryption)
<1>1. <<m>> \in Bodies
  BY DEF Bodies
<1>2. c.encryption \in Engines
  BY DEF ProperContexts
<1> DEFINE halves == Halves(Record(<<m>>, c.encryption))
<1>3. /\ halves \in Seq(ProperHalves) /\ Len(halves) = 2
      /\ \A h \in Range(halves) : h.record = Record(<<m>>, c.encryption)
  BY <1>1, <1>2, HalvesOf
<1>4. Advance(c.encryption) \in Engines
  BY <1>2, AdvanceOf
<1> HIDE DEF halves
<1>5. Queue(c, m) = [c EXCEPT !.tx = halves, !.encryption = Advance(c.encryption)]
  BY DEF Queue, halves
<1> QED BY <1>3, <1>4, <1>5 DEF ProperContexts

LEMMA HashedOf ==
    ASSUME NEW m \in ProperMessages, m.name # "data"
    PROVE  Hashed(m) \in Names \X Numbers
  BY DEF Hashed, ProperMessages, Messages

LEMMA TranscribeOf ==
    ASSUME NEW c \in ProperContexts, NEW m \in ProperMessages, m.name # "data"
    PROVE  /\ Transcribe(c, m) \in ProperContexts
           /\ Transcribe(c, m) = [c EXCEPT !.transcript = Transcribe(c, m).transcript]
           /\ c.transcript # <<>> =>
                Transcribe(c, m).transcript = Append(c.transcript, Hashed(m))
           /\ c.transcript = <<>> => Transcribe(c, m).transcript = <<>>
           /\ c.transcript # <<>> => Transcribe(c, m).transcript # <<>>
<1>0. c.transcript \in Transcripts
  BY DEF ProperContexts
<1>1. Append(c.transcript, Hashed(m)) \in Transcripts /\ Append(c.transcript, Hashed(m)) # <<>>
  BY <1>0, HashedOf, AppendOf DEF Transcripts
<1> QED BY <1>1 DEF Transcribe, ProperContexts

LEMMA QueueHandshakeOf ==
    ASSUME NEW c \in ProperContexts, NEW m \in ProperMessages, m.name # "data"
    PROVE  LET q == QueueHandshake(c, m)
           IN /\ q \in ProperContexts
              /\ q = [c EXCEPT !.transcript = q.transcript, !.tx = q.tx,
                               !.encryption = Advance(c.encryption)]
              /\ c.transcript # <<>> =>
                   q.transcript = Append(c.transcript, Hashed(m)) /\ q.transcript # <<>>
              /\ c.transcript = <<>> => q.transcript = <<>>
              /\ \A h \in Range(q.tx) : h.record = Record(<<m>>, c.encryption)
<1> DEFINE t == Transcribe(c, m)
<1>1. /\ t \in ProperContexts /\ t = [c EXCEPT !.transcript = t.transcript]
      /\ c.transcript # <<>> => t.transcript = Append(c.transcript, Hashed(m)) /\ t.transcript # <<>>
      /\ c.transcript = <<>> => t.transcript = <<>>
  BY TranscribeOf
<1>2. QueueHandshake(c, m) = Queue(t, m)
  BY DEF QueueHandshake
<1>3. t.encryption = c.encryption
  BY <1>1 DEF ProperContexts
<1> HIDE DEF t
<1> DEFINE q == Queue(t, m)
<1>4. /\ q \in ProperContexts
      /\ \A h \in Range(q.tx) : h.record = Record(<<m>>, t.encryption)
  BY <1>1, QueueOf
<1>5. q = [c EXCEPT !.transcript = t.transcript, !.tx = q.tx, !.encryption = Advance(c.encryption)]
  BY <1>1, <1>3 DEF Queue, ProperContexts
<1> HIDE DEF q
<1>6. q.transcript = t.transcript
  BY <1>5 DEF ProperContexts
<1> QED BY <1>1, <1>2, <1>3, <1>4, <1>5, <1>6 DEF q

LEMMA BareOf ==
    ASSUME NEW name \in Names \ {"data"}, NEW id \in Numbers
    PROVE  Message(name, id, <<>>) \in ProperMessages
<1>1. <<>> \in Transcripts
  BY DEF Transcripts
<1> QED BY <1>1, MessageOf

LEMMA NothingOf == Nothing \in Numbers
  BY TlsAssumption DEF Nothing, Numbers

LEMMA FatalOf == Message("fatal", Nothing, <<>>) \in ProperMessages
  BY BareOf, NothingOf DEF Names

LEMMA AlertedOf ==
    ASSUME NEW c \in ProperContexts
    PROVE  /\ Alerted(c) \in ProperContexts
           /\ Alerted(c) = [c EXCEPT !.tx = Alerted(c).tx, !.encryption = Advance(c.encryption),
                                     !.fatalAlert = TRUE, !.sessionId = Nothing, !.state = "CLOSING"]
           /\ \A h \in Range(Alerted(c).tx) :
                h.record = Record(<<Message("fatal", Nothing, <<>>)>>, c.encryption)
<1> DEFINE m == Message("fatal", Nothing, <<>>)
<1>1. m \in ProperMessages
  BY FatalOf
<1> DEFINE q == Queue(c, m)
<1>2. q \in ProperContexts /\ \A h \in Range(q.tx) : h.record = Record(<<m>>, c.encryption)
  BY <1>1, QueueOf
<1>3. q = [c EXCEPT !.tx = q.tx, !.encryption = Advance(c.encryption)]
  BY DEF Queue, ProperContexts
<1>4. Alerted(c) = [q EXCEPT !.fatalAlert = TRUE, !.sessionId = Nothing, !.state = "CLOSING"]
  BY DEF Alerted
<1>5. Nothing \in Numbers /\ "CLOSING" \in States
  BY NothingOf DEF States
<1> HIDE DEF q, m
<1>6. Alerted(c) \in ProperContexts /\ Alerted(c).tx = q.tx
  BY <1>2, <1>4, <1>5 DEF ProperContexts
<1>7. Alerted(c) = [c EXCEPT !.tx = q.tx, !.encryption = Advance(c.encryption),
                             !.fatalAlert = TRUE, !.sessionId = Nothing, !.state = "CLOSING"]
  BY <1>3, <1>4 DEF ProperContexts
<1> QED BY <1>2, <1>6, <1>7 DEF m

-----------------------------------------------------------------------------
(* What a step makes of the context *)

\* What the socket has taken of the record of c, and what is left.
LEMMA PushOf ==
    ASSUME TypeInv, NEW c \in ProperContexts, NEW n \in 0 .. Len(c.tx), Push(c, n)
    PROVE  /\ context' \in ProperContexts /\ up' \in Seq(ProperHalves)
           /\ context' = [c EXCEPT !.tx = context'.tx]
           /\ Rising' \subseteq Range(up) \cup Range(c.tx)
           /\ n = Len(c.tx) <=> context'.tx = <<>>
<1>1. c.tx \in Seq(ProperHalves) /\ up \in Seq(ProperHalves)
  BY DEF ProperContexts, TypeInv
<1>2. /\ Drop(c.tx, n) \in Seq(ProperHalves) /\ Range(Drop(c.tx, n)) \subseteq Range(c.tx)
      /\ n = Len(c.tx) <=> Drop(c.tx, n) = <<>>
  BY <1>1, DropOf
<1>3. /\ SubSeq(c.tx, 1, n) \in Seq(ProperHalves) /\ Range(SubSeq(c.tx, 1, n)) \subseteq Range(c.tx)
  BY <1>1, FrontOf
<1>4. context' = [c EXCEPT !.tx = Drop(c.tx, n)] /\ up' = up \o SubSeq(c.tx, 1, n)
  BY DEF Push
<1>5. context' \in ProperContexts /\ context'.tx = Drop(c.tx, n)
  BY <1>2, <1>4 DEF ProperContexts
<1>6. up' \in Seq(ProperHalves) /\ Range(up') = Range(up) \cup Range(SubSeq(c.tx, 1, n))
  <2> DEFINE s == SubSeq(c.tx, 1, n)
  <2> HIDE DEF s
  <2>1. s \in Seq(ProperHalves)
    BY <1>3 DEF s
  <2>2. up \o s \in Seq(ProperHalves) /\ Range(up \o s) = Range(up) \cup Range(s)
    BY <1>1, <2>1, ConcatOf
  <2> QED BY <2>2, <1>4 DEF s
<1>7. Rising' \subseteq Range(up) \cup Range(c.tx)
  BY <1>2, <1>3, <1>5, <1>6 DEF Rising
<1> QED BY <1>2, <1>4, <1>5, <1>6, <1>7

LEMMA SendOf ==
    ASSUME TypeInv, NEW c \in ProperContexts, SendDone(c) \/ SendTimeout(c)
    PROVE  /\ context' \in ProperContexts /\ up' \in Seq(ProperHalves)
           /\ context' = [c EXCEPT !.tx = context'.tx]
           /\ Rising' \subseteq Range(up) \cup Range(c.tx)
           /\ SendDone(c) => context'.tx = <<>>
           /\ SendTimeout(c) => context'.tx # <<>>
<1>1. Len(c.tx) \in Nat
  BY DEF ProperContexts
<1>4. SendTimeout(c) => context'.tx # <<>>
  BY <1>1, PushOf DEF SendTimeout
<1>2. CASE SendDone(c)
  BY <1>1, <1>2, <1>4, PushOf DEF SendDone
<1>3. CASE SendTimeout(c)
  <2>1. PICK n \in 0 .. Len(c.tx) - 1 : Push(c, n)
    BY <1>3 DEF SendTimeout
  <2>2. n \in 0 .. Len(c.tx) /\ n # Len(c.tx)
    BY <1>1
  <2>3. /\ context' \in ProperContexts /\ up' \in Seq(ProperHalves)
        /\ context' = [c EXCEPT !.tx = context'.tx]
        /\ Rising' \subseteq Range(up) \cup Range(c.tx)
    BY <2>1, <2>2, PushOf
  <2>4. SendDone(c) => context'.tx = <<>>
    BY <1>1, PushOf DEF SendDone
  <2> QED BY <1>4, <2>3, <2>4
<1> QED BY <1>2, <1>3

LEMMA FailsOf ==
    ASSUME NEW c \in ProperContexts, SendFails(c)
    PROVE  /\ context' \in ProperContexts /\ context' = [c EXCEPT !.state = "CLOSED"]
           /\ call' = "failed" /\ link # "open"
  BY DEF SendFails, ProperContexts, States

LEMMA RefuseOf ==
    ASSUME TypeInv, NEW c \in ProperContexts, Refuse(c)
    PROVE  /\ context' \in ProperContexts /\ up' \in Seq(ProperHalves)
           /\ context' = [c EXCEPT !.tx = context'.tx, !.encryption = Advance(c.encryption),
                                   !.fatalAlert = TRUE, !.sessionId = Nothing, !.state = "CLOSING"]
           /\ \A h \in Rising' :
                \/ h \in Range(up)
                \/ h.record = Record(<<Message("fatal", Nothing, <<>>)>>, c.encryption)
           /\ call' = "failed"
<1>1. /\ Alerted(c) \in ProperContexts
      /\ Alerted(c) = [c EXCEPT !.tx = Alerted(c).tx, !.encryption = Advance(c.encryption),
                                !.fatalAlert = TRUE, !.sessionId = Nothing, !.state = "CLOSING"]
      /\ \A h \in Range(Alerted(c).tx) :
            h.record = Record(<<Message("fatal", Nothing, <<>>)>>, c.encryption)
  BY AlertedOf
<1>2. SendDone(Alerted(c)) \/ SendTimeout(Alerted(c))
  BY DEF Refuse, SendFatalAlert
<1> DEFINE a == Alerted(c)
<1> HIDE DEF a
<1>3. /\ context' \in ProperContexts /\ up' \in Seq(ProperHalves)
      /\ context' = [a EXCEPT !.tx = context'.tx]
      /\ Rising' \subseteq Range(up) \cup Range(a.tx)
  BY <1>1, <1>2, SendOf DEF a
<1>4. context' = [c EXCEPT !.tx = context'.tx, !.encryption = Advance(c.encryption),
                           !.fatalAlert = TRUE, !.sessionId = Nothing, !.state = "CLOSING"]
  BY <1>1, <1>3 DEF a, ProperContexts
<1> QED BY <1>1, <1>3, <1>4 DEF a, Refuse

\* The message at hand is whole, and taken.
LEMMA TakenOf ==
    ASSUME TypeInv, Ready
    PROVE  /\ context.rx # <<>>
           /\ Incoming \in ProperMessages
           /\ Head(context.rx) \in Range(context.rx) /\ Head(context.rx) = context.rx[1]
           /\ Incoming.name = Head(context.rx).name /\ Incoming.id = Head(context.rx).id
           /\ Incoming.hash = Head(context.rx).hash
           /\ Kind(Incoming) = Kind(Head(context.rx))
           /\ Taken \in ProperContexts
           /\ Taken = [context EXCEPT !.rx = Taken.rx]
           /\ \E n \in 1 .. Len(context.rx) : Taken.rx = Drop(context.rx, n)
           /\ Range(Taken.rx) \subseteq Range(context.rx)
<1> DEFINE rx == context.rx
<1>1. rx \in Seq(ProperMessages) /\ rx # <<>> /\ (Head(rx).part # "all" => Len(rx) > 1)
  BY DEF Ready, Whole, TypeInv, ProperContexts
<1>2. Head(rx) \in ProperMessages /\ Head(rx) \in Range(rx) /\ Head(rx) = rx[1]
  BY <1>1, TailOf
<1>3. /\ Incoming \in ProperMessages
      /\ Incoming.name = Head(rx).name /\ Incoming.id = Head(rx).id /\ Incoming.hash = Head(rx).hash
  BY <1>2 DEF Incoming, ProperMessages, Messages
<1>4. Kind(Incoming) = Kind(Head(rx))
  BY <1>3 DEF Kind
<1> DEFINE n == IF Head(rx).part = "all" THEN 1 ELSE 2
<1>5. n \in 1 .. Len(rx)
  BY <1>1
<1>6. Drop(rx, n) \in Seq(ProperMessages) /\ Range(Drop(rx, n)) \subseteq Range(rx)
  BY <1>1, <1>5, DropOf
<1>7. Taken = [context EXCEPT !.rx = Drop(rx, n)]
  BY DEF Taken
<1> HIDE DEF n
<1>8. Taken \in ProperContexts /\ Taken.rx = Drop(rx, n)
  BY <1>6, <1>7 DEF TypeInv, ProperContexts
<1> QED BY <1>1, <1>2, <1>3, <1>4, <1>5, <1>6, <1>7, <1>8

LEMMA ParseOf ==
    ASSUME TypeInv, NEW name, name # "data", NEW c \in ProperContexts, Parse(name, c)
    PROVE  /\ context' \in ProperContexts
           /\ context' = [c EXCEPT !.transcript = context'.transcript]
           /\ c.transcript # <<>> =>
                context'.transcript = Append(c.transcript, Hashed(Incoming)) /\ context'.transcript # <<>>
           /\ c.transcript = <<>> => context'.transcript = <<>>
           /\ Ready /\ Incoming.name = name
           /\ UNCHANGED <<session, caller, net, world, count>>
<1>1. Ready /\ Incoming.name = name /\ context' = Transcribe(c, Incoming)
      /\ UNCHANGED <<session, caller, net, world, count>>
  BY DEF Parse
<1>2. Incoming \in ProperMessages
  BY <1>1, TakenOf
<1> QED BY <1>1, <1>2, TranscribeOf

\* A record is sent, in part or whole, or the connection is found broken.
LEMMA AttemptOf ==
    ASSUME TypeInv, NEW c \in ProperContexts, Attempt(c) \/ GivesUp(c) \/ Hides(c)
    PROVE  /\ context' \in ProperContexts /\ up' \in Seq(ProperHalves)
           /\ context' = [c EXCEPT !.state = context'.state, !.tx = context'.tx]
           /\ \/ context'.state = c.state
              \/ context'.state = "CLOSED" /\ call' = "failed"
           /\ Rising' \subseteq Range(up) \cup Range(c.tx)
           /\ call' \in {call, "failed"}
           /\ Hides(c) \/ call' = "failed" \/ context'.tx = <<>>
           /\ conn' = conn /\ faults' \in 0 .. MaxFaults /\ troubled' \in BOOLEAN
<1>0. faults \in 0 .. MaxFaults /\ troubled \in BOOLEAN /\ MaxFaults \in Nat
  BY TlsAssumption DEF TypeInv
<1>1. ASSUME SendDone(c) \/ SendTimeout(c)
      PROVE  /\ context' \in ProperContexts /\ up' \in Seq(ProperHalves)
             /\ context' = [c EXCEPT !.state = context'.state, !.tx = context'.tx]
             /\ context'.state = c.state
             /\ Rising' \subseteq Range(up) \cup Range(c.tx)
             /\ SendDone(c) => context'.tx = <<>>
  BY <1>1, SendOf DEF ProperContexts
<1>2. CASE SendDone(c) /\ UNCHANGED <<call, count>>
  BY <1>0, <1>1, <1>2 DEF count
<1>3. CASE SendFails(c) /\ UNCHANGED <<up, count>>
  <2>1. /\ context' \in ProperContexts /\ context' = [c EXCEPT !.state = "CLOSED"]
        /\ call' = "failed"
    BY <1>3, FailsOf
  <2>2. up' = up /\ up \in Seq(ProperHalves)
    BY <1>3 DEF TypeInv
  <2>3. context'.tx = c.tx
    BY <2>1 DEF ProperContexts
  <2>4. context' = [c EXCEPT !.state = context'.state, !.tx = context'.tx] /\ context'.state = "CLOSED"
    BY <2>1 DEF ProperContexts
  <2> QED BY <1>0, <1>3, <2>1, <2>2, <2>3, <2>4 DEF Rising, count
<1>4. CASE GivesUp(c)
  BY <1>0, <1>1, <1>4 DEF GivesUp, Fault
<1>5. CASE Hides(c)
  BY <1>0, <1>1, <1>5 DEF Hides, count
<1> QED BY <1>2, <1>3, <1>4, <1>5 DEF Attempt

\* The records of c, if they are not those of the context, are of message m.
Bears(c, m) ==
    \A h \in Range(c.tx) : h \in Range(context.tx) \/ h.record = Record(<<m>>, context.encryption)

LEMMA SendClientHelloOf ==
    ASSUME TypeInv, SendClientHello
    PROVE  \E c \in ProperContexts :
             /\ Attempt(c) \/ GivesUp(c)
             /\ c = [context EXCEPT !.state = "SERVER_HELLO", !.transcript = c.transcript, !.tx = c.tx,
                                    !.encryption = Advance(context.encryption)]
             /\ context.transcript = <<>> => c.transcript = <<>>
             /\ Bears(c, Message("ClientHello", context.sessionId, <<>>))
             /\ InTurnToSend("CLIENT_HELLO")
<1> DEFINE m == Message("ClientHello", context.sessionId, <<>>)
           b == [context EXCEPT !.state = "SERVER_HELLO"]
           c == QueueHandshake(b, m)
<1>1. m \in ProperMessages
  BY BareOf DEF Names, TypeInv, ProperContexts
<1>2. m.name # "data"
  BY DEF Message
<1>3. b \in ProperContexts /\ b.transcript = context.transcript /\ b.encryption = context.encryption
  BY DEF TypeInv, ProperContexts, States, ServerStates
<1> HIDE DEF m, b
<1>4. /\ c \in ProperContexts
      /\ c = [b EXCEPT !.transcript = c.transcript, !.tx = c.tx, !.encryption = Advance(b.encryption)]
      /\ \A h \in Range(c.tx) : h.record = Record(<<m>>, b.encryption)
      /\ b.transcript = <<>> => c.transcript = <<>>
  BY <1>1, <1>2, <1>3, QueueHandshakeOf
<1>5. InTurnToSend("CLIENT_HELLO") /\ (Attempt(c) \/ GivesUp(c))
  BY DEF SendClientHello, Proceed, m, b, c
<1> HIDE DEF c
<1>6. c = [context EXCEPT !.state = "SERVER_HELLO", !.transcript = c.transcript, !.tx = c.tx,
                          !.encryption = Advance(context.encryption)]
  BY <1>3, <1>4 DEF b, ProperContexts, TypeInv
<1> QED BY <1>3, <1>4, <1>5, <1>6 DEF m, Bears

LEMMA SendCertificateOf ==
    ASSUME TypeInv, conn > 0, SendCertificate
    PROVE  \E c \in ProperContexts, id \in Numbers :
             /\ Attempt(c) \/ GivesUp(c)
             /\ c = [context EXCEPT !.state = "CLIENT_KEY_EXCHANGE", !.transcript = c.transcript,
                                    !.tx = c.tx, !.encryption = c.encryption]
             /\ c.encryption \in {context.encryption, Advance(context.encryption)}
             /\ context.transcript # <<>> => c.transcript # <<>>
             /\ Bears(c, Message("Certificate", id, <<>>))
             /\ InTurnToSend("CLIENT_CERTIFICATE")
<1> DEFINE b == [context EXCEPT !.state = "CLIENT_KEY_EXCHANGE"]
           id == IF b.cert THEN 1 ELSE 0
           m == Message("Certificate", id, <<>>)
           q == QueueHandshake(b, m)
           c == IF b.clientCertRequested THEN q ELSE b
<1>1. InTurnToSend("CLIENT_CERTIFICATE") /\ (Attempt(c) \/ GivesUp(c))
  BY DEF SendCertificate, Proceed
<1>2. id \in Numbers
  BY TlsAssumption DEF Numbers, TypeInv
<1> HIDE DEF id
<1>3. m \in ProperMessages
  BY <1>2, BareOf DEF Names
<1>4. m.name # "data"
  BY DEF Message
<1>5. /\ b \in ProperContexts /\ b.transcript = context.transcript /\ b.encryption = context.encryption
      /\ b.tx = context.tx
  BY DEF TypeInv, ProperContexts, States, ClientStates
<1> HIDE DEF m, b
<1>6. /\ q \in ProperContexts
      /\ q = [b EXCEPT !.transcript = q.transcript, !.tx = q.tx, !.encryption = Advance(b.encryption)]
      /\ \A h \in Range(q.tx) : h.record = Record(<<m>>, b.encryption)
      /\ b.transcript # <<>> => q.transcript # <<>>
  BY <1>3, <1>4, <1>5, QueueHandshakeOf
<1> HIDE DEF q
<1>7. c \in ProperContexts /\ c.encryption \in {context.encryption, Advance(context.encryption)}
  BY <1>5, <1>6 DEF ProperContexts
<1>8. c = [context EXCEPT !.state = "CLIENT_KEY_EXCHANGE", !.transcript = c.transcript,
                          !.tx = c.tx, !.encryption = c.encryption]
  BY <1>5, <1>6 DEF b, ProperContexts, TypeInv
<1>9. Bears(c, m)
  BY <1>5, <1>6 DEF Bears
<1>10. context.transcript # <<>> => c.transcript # <<>>
  BY <1>5, <1>6
<1> HIDE DEF c
<1> QED BY <1>1, <1>2, <1>7, <1>8, <1>9, <1>10 DEF m

LEMMA SendClientKeyExchangeOf ==
    ASSUME TypeInv, SendClientKeyExchange
    PROVE  \E c \in ProperContexts :
             /\ Attempt(c) \/ Hides(c)
             /\ c = [context EXCEPT !.masterSecret = conn, !.state = "CLIENT_CERTIFICATE_VERIFY",
                                    !.transcript = c.transcript, !.tx = c.tx,
                                    !.encryption = Advance(context.encryption)]
             /\ context.transcript # <<>> => c.transcript # <<>>
             /\ Bears(c, Message("ClientKeyExchange", conn, <<>>))
             /\ InTurnToSend("CLIENT_KEY_EXCHANGE")
<1> DEFINE m == Message("ClientKeyExchange", conn, <<>>)
           b == [context EXCEPT !.masterSecret = conn, !.state = "CLIENT_CERTIFICATE_VERIFY"]
           c == QueueHandshake(b, m)
<1>1. m \in ProperMessages
  BY BareOf DEF Names, TypeInv
<1>2. m.name # "data"
  BY DEF Message
<1>3. b \in ProperContexts /\ b.transcript = context.transcript /\ b.encryption = context.encryption
  BY DEF TypeInv, ProperContexts, States, ClientStates
<1> HIDE DEF m, b
<1>4. /\ c \in ProperContexts
      /\ c = [b EXCEPT !.transcript = c.transcript, !.tx = c.tx, !.encryption = Advance(b.encryption)]
      /\ \A h \in Range(c.tx) : h.record = Record(<<m>>, b.encryption)
      /\ b.transcript # <<>> => c.transcript # <<>>
  BY <1>1, <1>2, <1>3, QueueHandshakeOf
<1>5. InTurnToSend("CLIENT_KEY_EXCHANGE") /\ (Attempt(c) \/ Hides(c))
  BY DEF SendClientKeyExchange, ProceedAnyway, m, b, c
<1> HIDE DEF c
<1>6. c = [context EXCEPT !.masterSecret = conn, !.state = "CLIENT_CERTIFICATE_VERIFY",
                          !.transcript = c.transcript, !.tx = c.tx,
                          !.encryption = Advance(context.encryption)]
  BY <1>3, <1>4 DEF b, ProperContexts, TypeInv
<1> QED BY <1>3, <1>4, <1>5, <1>6 DEF m, Bears

LEMMA SendCertificateVerifyOf ==
    ASSUME TypeInv, SendCertificateVerify
    PROVE  \E c \in ProperContexts, hash \in Transcripts :
             /\ Attempt(c) \/ GivesUp(c)
             /\ c = [context EXCEPT !.state = "CLIENT_CHANGE_CIPHER_SPEC", !.transcript = c.transcript,
                                    !.tx = c.tx, !.encryption = c.encryption]
             /\ c.encryption \in {context.encryption, Advance(context.encryption)}
             /\ context.transcript # <<>> => c.transcript # <<>>
             /\ Bears(c, Message("CertificateVerify", Nothing, hash))
             /\ InTurnToSend("CLIENT_CERTIFICATE_VERIFY")
<1> DEFINE b == [context EXCEPT !.state = "CLIENT_CHANGE_CIPHER_SPEC"]
           m == Message("CertificateVerify", Nothing, b.transcript)
           q == QueueHandshake(b, m)
           c == IF b.cert THEN q ELSE b
<1>1. InTurnToSend("CLIENT_CERTIFICATE_VERIFY") /\ (Attempt(c) \/ GivesUp(c))
  BY DEF SendCertificateVerify, Proceed
<1>2. /\ b \in ProperContexts /\ b.transcript = context.transcript /\ b.encryption = context.encryption
      /\ b.tx = context.tx /\ b.transcript \in Transcripts
  BY DEF TypeInv, ProperContexts, States, ClientStates
<1>3. m \in ProperMessages
  BY <1>2, NothingOf, MessageOf DEF Names
<1>4. m.name # "data"
  BY DEF Message
<1> HIDE DEF m, b
<1>6. /\ q \in ProperContexts
      /\ q = [b EXCEPT !.transcript = q.transcript, !.tx = q.tx, !.encryption = Advance(b.encryption)]
      /\ \A h \in Range(q.tx) : h.record = Record(<<m>>, b.encryption)
      /\ b.transcript # <<>> => q.transcript # <<>>
  BY <1>2, <1>3, <1>4, QueueHandshakeOf
<1> HIDE DEF q
<1>7. c \in ProperContexts /\ c.encryption \in {context.encryption, Advance(context.encryption)}
  BY <1>2, <1>6 DEF ProperContexts
<1>8. c = [context EXCEPT !.state = "CLIENT_CHANGE_CIPHER_SPEC", !.transcript = c.transcript,
                          !.tx = c.tx, !.encryption = c.encryption]
  BY <1>2, <1>6 DEF b, ProperContexts, TypeInv
<1>9. Bears(c, m)
  BY <1>2, <1>6 DEF Bears
<1>10. context.transcript # <<>> => c.transcript # <<>>
  BY <1>2, <1>6
<1> HIDE DEF c
<1> QED BY <1>1, <1>2, <1>7, <1>8, <1>9, <1>10 DEF m

LEMMA SendChangeCipherSpecOf ==
    ASSUME TypeInv, SendChangeCipherSpec
    PROVE  \E c \in ProperContexts :
             /\ Attempt(c) \/ Hides(c)
             /\ c = [context EXCEPT !.state = "CLIENT_FINISHED", !.tx = c.tx,
                                    !.encryption = Engine(context.masterSecret)]
             /\ Bears(c, Message("ChangeCipherSpec", Nothing, <<>>))
             /\ InTurnToSend("CLIENT_CHANGE_CIPHER_SPEC")
<1> DEFINE m == Message("ChangeCipherSpec", Nothing, <<>>)
           q == Queue(context, m)
           c == [q EXCEPT !.encryption = Engine(context.masterSecret), !.state = "CLIENT_FINISHED"]
<1>1. InTurnToSend("CLIENT_CHANGE_CIPHER_SPEC") /\ (Attempt(c) \/ Hides(c))
  BY DEF SendChangeCipherSpec, ProceedAnyway
<1>2. m \in ProperMessages
  BY BareOf, NothingOf DEF Names
<1>3. context \in ProperContexts
  BY DEF TypeInv
<1> HIDE DEF m
<1>4. /\ q \in ProperContexts
      /\ \A h \in Range(q.tx) : h.record = Record(<<m>>, context.encryption)
  BY <1>2, <1>3, QueueOf
<1>5. q = [context EXCEPT !.tx = q.tx, !.encryption = Advance(context.encryption)]
  BY <1>3 DEF Queue, ProperContexts
<1>6. Engine(context.masterSecret) \in Engines
  BY <1>3, EngineOf DEF ProperContexts
<1> HIDE DEF q
<1>7. c \in ProperContexts /\ c.tx = q.tx
  BY <1>4, <1>6 DEF ProperContexts, States, ClientStates
<1>8. c = [context EXCEPT !.state = "CLIENT_FINISHED", !.tx = c.tx,
                          !.encryption = Engine(context.masterSecret)]
  BY <1>3, <1>4, <1>5 DEF ProperContexts
<1>9. Bears(c, m)
  BY <1>4, <1>7 DEF Bears
<1> HIDE DEF c
<1> QED BY <1>1, <1>7, <1>8, <1>9 DEF m

LEMMA SendFinishedOf ==
    ASSUME TypeInv, SendFinished
    PROVE  \E c \in ProperContexts :
             /\ Attempt(c) \/ GivesUp(c)
             /\ c = [context EXCEPT !.state = IF context.resume THEN "APPLICATION_DATA"
                                              ELSE "SERVER_CHANGE_CIPHER_SPEC",
                                    !.transcript = c.transcript, !.tx = c.tx,
                                    !.encryption = Advance(context.encryption)]
             /\ context.transcript # <<>> =>
                  /\ c.transcript = Append(context.transcript, <<"Finished", context.masterSecret>>)
                  /\ c.transcript # <<>>
             /\ Bears(c, Message("Finished", context.masterSecret, context.transcript))
             /\ InTurnToSend("CLIENT_FINISHED")
<1> DEFINE m == Message("Finished", context.masterSecret, context.transcript)
           b == [context EXCEPT !.state = IF context.resume THEN "APPLICATION_DATA"
                                          ELSE "SERVER_CHANGE_CIPHER_SPEC"]
           c == QueueHandshake(b, m)
<1>1. m \in ProperMessages
  BY MessageOf DEF Names, TypeInv, ProperContexts
<1>2. m.name # "data" /\ Hashed(m) = <<"Finished", context.masterSecret>>
  BY DEF Message, Hashed
<1>3. b \in ProperContexts /\ b.transcript = context.transcript /\ b.encryption = context.encryption
  BY DEF TypeInv, ProperContexts, States, ServerStates
<1> HIDE DEF m, b
<1>4. /\ c \in ProperContexts
      /\ c = [b EXCEPT !.transcript = c.transcript, !.tx = c.tx, !.encryption = Advance(b.encryption)]
      /\ \A h \in Range(c.tx) : h.record = Record(<<m>>, b.encryption)
      /\ b.transcript # <<>> => c.transcript = Append(b.transcript, Hashed(m)) /\ c.transcript # <<>>
  BY <1>1, <1>2, <1>3, QueueHandshakeOf
<1>5. InTurnToSend("CLIENT_FINISHED") /\ (Attempt(c) \/ GivesUp(c))
  BY DEF SendFinished, Proceed, m, b, c
<1> HIDE DEF c
<1>6. c = [context EXCEPT !.state = IF context.resume THEN "APPLICATION_DATA"
                                    ELSE "SERVER_CHANGE_CIPHER_SPEC",
                          !.transcript = c.transcript, !.tx = c.tx,
                          !.encryption = Advance(context.encryption)]
  BY <1>3, <1>4 DEF b, ProperContexts, TypeInv
<1> QED BY <1>2, <1>3, <1>4, <1>5, <1>6 DEF m, Bears

-----------------------------------------------------------------------------
(* What a step makes of the server *)

LEMMA HashesOf ==
    ASSUME NEW ms \in Seq(ProperMessages), \A i \in DOMAIN ms : ms[i].name # "data"
    PROVE  /\ [i \in 1 .. Len(ms) |-> Hashed(ms[i])] \in Transcripts
           /\ \A m : ms = <<m>> => [i \in 1 .. Len(ms) |-> Hashed(ms[i])] = <<Hashed(m)>>
<1>1. \A i \in 1 .. Len(ms) : Hashed(ms[i]) \in Names \X Numbers
  BY HashedOf
<1>2. [i \in 1 .. Len(ms) |-> Hashed(ms[i])] \in [1 .. Len(ms) -> Names \X Numbers]
  BY <1>1
<1>3. Len(ms) \in Nat
  OBVIOUS
<1>4. ASSUME NEW m, ms = <<m>>
      PROVE  [i \in 1 .. Len(ms) |-> Hashed(ms[i])] = <<Hashed(m)>>
  <2>1. Len(ms) = 1 /\ ms[1] = m
    BY <1>4
  <2> QED BY <2>1
<1> QED BY <1>2, <1>3, <1>4, SeqDef DEF Transcripts

LEMMA SaidOf ==
    ASSUME NEW s \in ProperServers, NEW ms \in Seq(ProperMessages),
           \A i \in DOMAIN ms : ms[i].name # "data"
    PROVE  /\ Said(s, ms) \in ProperServers
           /\ Said(s, ms) = [s EXCEPT !.flight = s.flight \o ms, !.transcript = Said(s, ms).transcript]
           /\ \A m : ms = <<m>> => Said(s, ms).transcript = Append(s.transcript, Hashed(m))
<1> DEFINE hashes == [i \in 1 .. Len(ms) |-> Hashed(ms[i])]
<1>1. hashes \in Transcripts /\ \A m : ms = <<m>> => hashes = <<Hashed(m)>>
  BY HashesOf
<1>2. s.flight \in Seq(ProperMessages) /\ s.transcript \in Transcripts
  BY DEF ProperServers
<1>3. Said(s, ms) = [s EXCEPT !.flight = s.flight \o ms, !.transcript = s.transcript \o hashes]
  BY DEF Said, Sends, ProperServers
<1> HIDE DEF hashes
<1>4. s.flight \o ms \in Seq(ProperMessages)
  BY <1>2, ConcatOf
<1>5. s.transcript \o hashes \in Transcripts
  BY <1>1, <1>2, ConcatOf DEF Transcripts
<1>6. Said(s, ms) \in ProperServers /\ Said(s, ms).transcript = s.transcript \o hashes
  BY <1>3, <1>4, <1>5 DEF ProperServers
<1>7. ASSUME NEW m, ms = <<m>>
      PROVE  Said(s, ms).transcript = Append(s.transcript, Hashed(m))
  <2>1. m \in ProperMessages /\ m.name # "data"
    BY <1>7
  <2>2. Hashed(m) \in Names \X Numbers
    BY <2>1, HashedOf
  <2> QED BY <1>1, <1>2, <1>6, <1>7, <2>2, AppendIsConcat, ZenonT(40) DEF Transcripts
<1> QED BY <1>3, <1>6, <1>7

LEMMA HeardOf ==
    ASSUME NEW s \in ProperServers, NEW m \in ProperMessages, m.name # "data"
    PROVE  /\ Heard(s, m) \in ProperServers
           /\ Heard(s, m) = [s EXCEPT !.transcript = Append(s.transcript, Hashed(m))]
<1>1. Append(s.transcript, Hashed(m)) \in Transcripts
  BY HashedOf, AppendProperties DEF ProperServers, Transcripts
<1> QED BY <1>1 DEF Heard, ProperServers

LEMMA SendsOf ==
    ASSUME NEW s \in ProperServers, NEW m \in ProperMessages
    PROVE  /\ Sends(s, <<m>>) \in ProperServers
           /\ Sends(s, <<m>>) = [s EXCEPT !.flight = s.flight \o <<m>>]
<1>1. s.flight \o <<m>> \in Seq(ProperMessages)
  BY ConcatOf DEF ProperServers
<1> QED BY <1>1 DEF Sends, ProperServers

LEMMA FinishedFlightOf ==
    ASSUME NEW s \in ProperServers
    PROVE  LET f == FinishedFlight(s)
               finished == Message("Finished", s.secret, s.transcript)
           IN /\ f \in ProperServers
              /\ f = [s EXCEPT !.flight = f.flight,
                               !.transcript = Append(s.transcript, <<"Finished", s.secret>>)]
              /\ f.flight = (s.flight \o <<Message("ChangeCipherSpec", Nothing, <<>>)>>) \o <<finished>>
<1> DEFINE ccs == Message("ChangeCipherSpec", Nothing, <<>>)
           finished == Message("Finished", s.secret, s.transcript)
           t == Sends(s, <<ccs>>)
<1>1. ccs \in ProperMessages
  BY BareOf, NothingOf DEF Names
<1>2. finished \in ProperMessages
  BY MessageOf DEF Names, ProperServers
<1>3. finished.name # "data" /\ Hashed(finished) = <<"Finished", s.secret>>
  BY DEF Message, Hashed
<1> HIDE DEF ccs
<1>4. t \in ProperServers /\ t = [s EXCEPT !.flight = s.flight \o <<ccs>>]
  BY <1>1, SendsOf
<1>5. FinishedFlight(s) = Said(t, <<finished>>)
  BY DEF FinishedFlight, ccs
<1> HIDE DEF finished, t
<1> DEFINE f == Said(t, <<finished>>)
<1>6. <<finished>> \in Seq(ProperMessages) /\ \A i \in DOMAIN <<finished>> : <<finished>>[i].name # "data"
  BY <1>2, <1>3
<1>7. /\ f \in ProperServers
      /\ f = [t EXCEPT !.flight = t.flight \o <<finished>>, !.transcript = f.transcript]
      /\ f.transcript = Append(t.transcript, Hashed(finished))
  BY <1>4, <1>6, SaidOf
<1> HIDE DEF f
<1>8. t.flight = s.flight \o <<ccs>> /\ t.transcript = s.transcript
  BY <1>4 DEF ProperServers
<1>9. f.flight = (s.flight \o <<ccs>>) \o <<finished>>
  BY <1>4, <1>7, <1>8 DEF ProperServers
<1>10. f = [s EXCEPT !.flight = f.flight, !.transcript = Append(s.transcript, <<"Finished", s.secret>>)]
  BY <1>3, <1>4, <1>7, <1>8, <1>9 DEF ProperServers
<1> QED BY <1>5, <1>7, <1>9, <1>10 DEF f, finished, ccs

\* The message at hand is the first of a record that the engine fits.
LEMMA ArrivesOf ==
    ASSUME TypeInv, NEW phase, NEW names, Arrives(phase, names)
    PROVE  /\ Arriving \in ProperMessages /\ Arriving.name \in names
           /\ \E h \in Range(up) : Arriving = Head(h.record.body) /\ h.record.key = server.decryption
           /\ up' \in Seq(ProperHalves) /\ Rising' \subseteq Rising
           /\ Decrypted \in ProperServers
           /\ Decrypted = [server EXCEPT !.decryption = Advance(server.decryption)]
           /\ server.phase = phase
           /\ UNCHANGED <<context, session, caller, link, down>>
<1>1. up \in Seq(ProperHalves) /\ server \in ProperServers /\ Len(up) > 1
  BY DEF TypeInv, Arrives
<1>2. up # <<>> /\ Head(up) \in ProperHalves /\ Head(up) \in Range(up) /\ Head(up) = up[1]
  BY <1>1, TailOf
<1>3. Head(SubSeq(up, 1, 2)) = up[1]
  BY <1>1, HeadTailOfSubSeq
<1>4. Head(up).record.key = server.decryption
  BY <1>2, <1>3 DEF Arrives, Valid, Opens
<1>5. Arriving \in ProperMessages
  <2>1. Head(up).record.body \in Bodies
    BY <1>2 DEF ProperHalves
  <2> QED BY <2>1, TailOf DEF Bodies, Arriving
<1>6. up' \in Seq(ProperHalves) /\ Range(up') \subseteq Range(up)
  BY <1>1, DropOf DEF Arrives
<1>7. Rising' \subseteq Rising
  BY <1>6 DEF Rising, Arrives
<1>8. Decrypted \in ProperServers
  <2>1. Advance(server.decryption) \in Engines
    BY <1>1, AdvanceOf DEF ProperServers
  <2> QED BY <1>1, <2>1 DEF Decrypted, ProperServers
<1> QED BY <1>2, <1>4, <1>5, <1>6, <1>7, <1>8 DEF Arrives, Arriving, Decrypted

-----------------------------------------------------------------------------
(* Type correctness *)

LEMMA HandshakeType ==
    ASSUME TypeInv, CallInv, HandshakeStep
    PROVE  TypeInv'
<1> USE DEF caller, net, world, count
<1>1. context \in ProperContexts
  BY DEF TypeInv
<1>2. ASSUME NEW c \in ProperContexts, Attempt(c) \/ GivesUp(c) \/ Hides(c),
             UNCHANGED <<session, todo, written, got, link, down, world>>
      PROVE  TypeInv'
  <2>1. /\ context' \in ProperContexts /\ up' \in Seq(ProperHalves) /\ call' \in {call, "failed"}
        /\ conn' = conn /\ faults' \in 0 .. MaxFaults /\ troubled' \in BOOLEAN
    BY <1>2, AttemptOf
  <2> QED BY <1>2, <2>1 DEF TypeInv, Calls
<1>3. ASSUME NEW name, name # "data", NEW c \in ProperContexts, Parse(name, c)
      PROVE  TypeInv'
  <2>1. context' \in ProperContexts /\ UNCHANGED <<session, caller, net, world, count>>
    BY <1>3, ParseOf
  <2> QED BY <2>1 DEF TypeInv
<1>4. ASSUME context' \in ProperContexts, UNCHANGED <<session, caller, net, world, count>>
      PROVE  TypeInv'
  BY <1>4 DEF TypeInv
<1>5. CASE InitHandshake
  <2>1. context' \in ProperContexts
    BY <1>1, <1>5 DEF InitHandshake, ProperContexts, States, ClientStates
  <2> QED BY <1>4, <1>5, <2>1 DEF InitHandshake
<1>6. CASE FlushPending
  BY <1>1, <1>2, <1>6 DEF FlushPending
<1>7. CASE SendClientHello
  <2>1. PICK c \in ProperContexts : (Attempt(c) \/ GivesUp(c)) /\ InTurnToSend("CLIENT_HELLO")
    BY <1>7, SendClientHelloOf
  <2> QED BY <1>2, <2>1 DEF InTurnToSend
<1>8. CASE SendCertificate
  <2>1. conn > 0
    BY <1>8 DEF SendCertificate, Proceed, InTurnToSend, CallInv
  <2>2. PICK c \in ProperContexts : (Attempt(c) \/ GivesUp(c)) /\ InTurnToSend("CLIENT_CERTIFICATE")
    BY <1>8, <2>1, SendCertificateOf
  <2> QED BY <1>2, <2>2 DEF InTurnToSend
<1>9. CASE SendClientKeyExchange
  <2>1. PICK c \in ProperContexts : (Attempt(c) \/ Hides(c)) /\ InTurnToSend("CLIENT_KEY_EXCHANGE")
    BY <1>9, SendClientKeyExchangeOf
  <2> QED BY <1>2, <2>1 DEF InTurnToSend
<1>10. CASE SendCertificateVerify
  <2>1. PICK c \in ProperContexts :
            (Attempt(c) \/ GivesUp(c)) /\ InTurnToSend("CLIENT_CERTIFICATE_VERIFY")
    BY <1>10, SendCertificateVerifyOf
  <2> QED BY <1>2, <2>1 DEF InTurnToSend
<1>11. CASE SendChangeCipherSpec
  <2>1. PICK c \in ProperContexts :
            (Attempt(c) \/ Hides(c)) /\ InTurnToSend("CLIENT_CHANGE_CIPHER_SPEC")
    BY <1>11, SendChangeCipherSpecOf
  <2> QED BY <1>2, <2>1 DEF InTurnToSend
<1>12. CASE SendFinished
  <2>1. PICK c \in ProperContexts : (Attempt(c) \/ GivesUp(c)) /\ InTurnToSend("CLIENT_FINISHED")
    BY <1>12, SendFinishedOf
  <2> QED BY <1>2, <2>1 DEF InTurnToSend
<1>13. CASE ParseServerHello
  <2> DEFINE c == [Taken EXCEPT
              !.resume = ResumesSession(context, Incoming), !.sessionId = Incoming.id,
              !.transcript = << <<"ClientHello", context.sessionId>> >>,
              !.state = IF ResumesSession(context, Incoming)
                           THEN "SERVER_CHANGE_CIPHER_SPEC" ELSE "SERVER_CERTIFICATE"]
  <2>1. Parse("ServerHello", c)
    BY <1>13 DEF ParseServerHello
  <2>2. Ready /\ Incoming.name = "ServerHello"
    BY <2>1 DEF Parse
  <2>3. Taken \in ProperContexts /\ Incoming \in ProperMessages
    BY <2>2, TakenOf
  <2>4. Incoming.id \in Numbers
    BY <2>2, <2>3 DEF ProperMessages
  <2>5. << <<"ClientHello", context.sessionId>> >> \in Transcripts
    BY <1>1 DEF ProperContexts, Transcripts, Names
  <2>6. c \in ProperContexts
    BY <2>3, <2>4, <2>5 DEF ProperContexts, States, ServerStates, ResumesSession
  <2> QED BY <1>3, <2>1, <2>6
<1>14. CASE ParseCertificate
  <2>1. Taken \in ProperContexts
    BY <1>14, TakenOf DEF ParseCertificate, Parse
  <2>2. [Taken EXCEPT !.state = "SERVER_KEY_EXCHANGE"] \in ProperContexts
    BY <2>1 DEF ProperContexts, States, ServerStates
  <2> QED BY <1>3, <1>14, <2>2 DEF ParseCertificate
<1>15. CASE ParseServerKeyExchange
  <2>1. Taken \in ProperContexts
    BY <1>15, TakenOf DEF ParseServerKeyExchange, Parse
  <2>2. [Taken EXCEPT !.state = "CERTIFICATE_REQUEST"] \in ProperContexts
    BY <2>1 DEF ProperContexts, States, ServerStates
  <2> QED BY <1>3, <1>15, <2>2 DEF ParseServerKeyExchange
<1>16. CASE ParseCertificateRequest
  <2>1. PICK acceptable \in BOOLEAN :
           Parse("CertificateRequest", [Taken EXCEPT
               !.clientCertRequested = TRUE, !.cert = acceptable, !.state = "SERVER_HELLO_DONE"])
    BY <1>16 DEF ParseCertificateRequest
  <2>2. Taken \in ProperContexts
    BY <2>1, TakenOf DEF Parse
  <2>3. [Taken EXCEPT !.clientCertRequested = TRUE, !.cert = acceptable, !.state = "SERVER_HELLO_DONE"]
          \in ProperContexts
    BY <2>2 DEF ProperContexts, States, ServerStates
  <2> QED BY <1>3, <2>1, <2>3
<1>17. CASE ParseServerHelloDone
  <2>1. Taken \in ProperContexts
    BY <1>17, TakenOf DEF ParseServerHelloDone, Parse
  <2>2. [Taken EXCEPT !.state = "CLIENT_CERTIFICATE"] \in ProperContexts
    BY <2>1 DEF ProperContexts, States, ClientStates
  <2> QED BY <1>3, <1>17, <2>2 DEF ParseServerHelloDone
<1>18. CASE ParseFinished
  <2>1. Taken \in ProperContexts
    BY <1>18, TakenOf DEF ParseFinished
  <2>2. [Taken EXCEPT !.state = IF context.resume THEN "CLIENT_CHANGE_CIPHER_SPEC"
                                ELSE "APPLICATION_DATA"] \in ProperContexts
    BY <2>1 DEF ProperContexts, States, ClientStates
  <2> QED BY <1>3, <1>18, <2>2 DEF ParseFinished
<1>19. CASE ParseChangeCipherSpec
  <2>1. Taken \in ProperContexts
    BY <1>19, TakenOf DEF ParseChangeCipherSpec
  <2>2. Engine(context.masterSecret) \in Engines
    BY <1>1, EngineOf DEF ProperContexts
  <2>3. context' \in ProperContexts
    BY <1>19, <2>1, <2>2 DEF ParseChangeCipherSpec, ProperContexts, States, ServerStates
  <2> QED BY <1>4, <1>19, <2>3 DEF ParseChangeCipherSpec
<1>20. CASE ParseHelloRequest
  <2>1. Taken \in ProperContexts
    BY <1>20, TakenOf DEF ParseHelloRequest, Parse
  <2> QED BY <1>3, <1>20, <2>1 DEF ParseHelloRequest
<1>21. CASE Established
  <2>1. session' \in Sessions
    BY <1>1, <1>21, NothingOf DEF Established, NoSession, Sessions, ProperContexts
  <2> QED BY <1>21, <2>1 DEF Established, TypeInv, Calls
<1>22. CASE HandshakeFailed
  BY <1>22 DEF HandshakeFailed, TypeInv, Calls
<1> QED BY <1>5, <1>6, <1>7, <1>8, <1>9, <1>10, <1>11, <1>12, <1>13, <1>14, <1>15, <1>16, <1>17,
           <1>18, <1>19, <1>20, <1>21, <1>22 DEF HandshakeStep

-----------------------------------------------------------------------------
(* What the steps of the client change, field by field *)

Untouched ==
    UNCHANGED <<context.resume, context.sessionId, context.rx, context.rxRecord, context.decryption,
                context.closeNotifySent, context.fatalAlert>>

Elsewhere == UNCHANGED <<session, todo, written, got, link, down, server, cache, conn>>

\* A message of the handshake has been sent, or is pending, or the attempt is over.
Sent(from, to, m) ==
    /\ call = "connect" /\ context.state = from /\ context.tx = <<>>
    /\ \/ context'.state = to
       \/ context'.state = "CLOSED" /\ call' = "failed"
    /\ call' \in {call, "failed"}
    /\ call' = "failed" \/ context'.tx = <<>> \/ from \in {"CLIENT_KEY_EXCHANGE", "CLIENT_CHANGE_CIPHER_SPEC"}
    /\ m \in ProperMessages
    /\ \A h \in Rising' : h \in Rising \/ h.record = Record(<<m>>, context.encryption)
    /\ Untouched /\ Elsewhere

LEMMA SentOf ==
    ASSUME TypeInv, NEW c \in ProperContexts, NEW m \in ProperMessages, NEW state, InTurnToSend(state),
           \/ Attempt(c) \/ GivesUp(c)
           \/ Hides(c) /\ state \in {"CLIENT_KEY_EXCHANGE", "CLIENT_CHANGE_CIPHER_SPEC"},
           c = [context EXCEPT !.state = c.state, !.masterSecret = c.masterSecret,
                               !.transcript = c.transcript, !.tx = c.tx, !.encryption = c.encryption],
           Bears(c, m)
    PROVE  /\ Sent(state, c.state, m)
           /\ context'.masterSecret = c.masterSecret /\ context'.transcript = c.transcript
           /\ context'.encryption = c.encryption
<1>1. /\ context' \in ProperContexts
      /\ context' = [c EXCEPT !.state = context'.state, !.tx = context'.tx]
      /\ \/ context'.state = c.state
         \/ context'.state = "CLOSED" /\ call' = "failed"
      /\ Rising' \subseteq Range(up) \cup Range(c.tx)
      /\ call' \in {call, "failed"}
      /\ Hides(c) \/ call' = "failed" \/ context'.tx = <<>>
      /\ conn' = conn
  BY AttemptOf
<1>2. context \in ProperContexts
  BY DEF TypeInv
<1>3. Untouched
  BY <1>1, <1>2, ZenonT(40) DEF Untouched, ProperContexts
<1>4. \A h \in Rising' : h \in Rising \/ h.record = Record(<<m>>, context.encryption)
  BY <1>1 DEF Rising, Bears
<1>5. call' = "failed" \/ context'.tx = <<>> \/ state \in {"CLIENT_KEY_EXCHANGE", "CLIENT_CHANGE_CIPHER_SPEC"}
  <2>1. CASE Hides(c) /\ ~Attempt(c) /\ ~GivesUp(c)
    BY <2>1
  <2>2. CASE GivesUp(c)
    BY <2>2 DEF GivesUp
  <2>3. CASE Attempt(c)
    <3>1. CASE SendFails(c)
      BY <3>1 DEF SendFails
    <3>2. CASE SendDone(c)
      BY <3>2, SendOf
    <3> QED BY <2>3, <3>1, <3>2 DEF Attempt
  <2> QED BY <2>1, <2>2, <2>3
<1>6. Elsewhere
  BY <1>1 DEF Elsewhere, InTurnToSend, world
<1>7. /\ context'.masterSecret = c.masterSecret /\ context'.transcript = c.transcript
      /\ context'.encryption = c.encryption
  BY <1>1 DEF ProperContexts
<1> QED BY <1>1, <1>3, <1>4, <1>5, <1>6, <1>7 DEF Sent, InTurnToSend

LEMMA ClientHelloSent ==
    ASSUME TypeInv, SendClientHello
    PROVE  /\ Sent("CLIENT_HELLO", "SERVER_HELLO", Message("ClientHello", context.sessionId, <<>>))
           /\ context'.encryption = Advance(context.encryption)
           /\ context'.masterSecret = context.masterSecret
           /\ context.transcript = <<>> => context'.transcript = <<>>
<1> DEFINE m == Message("ClientHello", context.sessionId, <<>>)
<1>1. PICK c \in ProperContexts :
             /\ Attempt(c) \/ GivesUp(c)
             /\ c = [context EXCEPT !.state = "SERVER_HELLO", !.transcript = c.transcript, !.tx = c.tx,
                                    !.encryption = Advance(context.encryption)]
             /\ context.transcript = <<>> => c.transcript = <<>>
             /\ Bears(c, m)
             /\ InTurnToSend("CLIENT_HELLO")
  BY SendClientHelloOf
<1>2. m \in ProperMessages
  BY BareOf DEF Names, TypeInv, ProperContexts
<1> HIDE DEF m
<1>3. /\ c.state = "SERVER_HELLO" /\ c.encryption = Advance(context.encryption)
      /\ c.masterSecret = context.masterSecret
      /\ c = [context EXCEPT !.state = c.state, !.masterSecret = c.masterSecret,
                             !.transcript = c.transcript, !.tx = c.tx, !.encryption = c.encryption]
  BY <1>1 DEF TypeInv, ProperContexts
<1>4. /\ Sent("CLIENT_HELLO", c.state, m)
      /\ context'.masterSecret = c.masterSecret /\ context'.transcript = c.transcript
      /\ context'.encryption = c.encryption
  BY <1>1, <1>2, <1>3, SentOf
<1> QED BY <1>1, <1>3, <1>4 DEF m

LEMMA CertificateSent ==
    ASSUME TypeInv, conn > 0, SendCertificate
    PROVE  /\ \E id \in Numbers :
                Sent("CLIENT_CERTIFICATE", "CLIENT_KEY_EXCHANGE", Message("Certificate", id, <<>>))
           /\ context'.encryption \in {context.encryption, Advance(context.encryption)}
           /\ context'.masterSecret = context.masterSecret
           /\ context.transcript # <<>> => context'.transcript # <<>>
<1>1. PICK c \in ProperContexts, id \in Numbers :
             /\ Attempt(c) \/ GivesUp(c)
             /\ c = [context EXCEPT !.state = "CLIENT_KEY_EXCHANGE", !.transcript = c.transcript,
                                    !.tx = c.tx, !.encryption = c.encryption]
             /\ c.encryption \in {context.encryption, Advance(context.encryption)}
             /\ context.transcript # <<>> => c.transcript # <<>>
             /\ Bears(c, Message("Certificate", id, <<>>))
             /\ InTurnToSend("CLIENT_CERTIFICATE")
  BY SendCertificateOf
<1> DEFINE m == Message("Certificate", id, <<>>)
<1>2. m \in ProperMessages
  BY BareOf DEF Names
<1> HIDE DEF m
<1>3. /\ c.state = "CLIENT_KEY_EXCHANGE" /\ c.masterSecret = context.masterSecret
      /\ c = [context EXCEPT !.state = c.state, !.masterSecret = c.masterSecret,
                             !.transcript = c.transcript, !.tx = c.tx, !.encryption = c.encryption]
  BY <1>1 DEF TypeInv, ProperContexts
<1>4. /\ Sent("CLIENT_CERTIFICATE", c.state, m)
      /\ context'.masterSecret = c.masterSecret /\ context'.transcript = c.transcript
      /\ context'.encryption = c.encryption
  BY <1>1, <1>2, <1>3, SentOf DEF m
<1> QED BY <1>1, <1>3, <1>4 DEF m

LEMMA ClientKeyExchangeSent ==
    ASSUME TypeInv, SendClientKeyExchange
    PROVE  /\ Sent("CLIENT_KEY_EXCHANGE", "CLIENT_CERTIFICATE_VERIFY",
                   Message("ClientKeyExchange", conn, <<>>))
           /\ context'.encryption = Advance(context.encryption)
           /\ context'.masterSecret = conn
           /\ context.transcript # <<>> => context'.transcript # <<>>
<1> DEFINE m == Message("ClientKeyExchange", conn, <<>>)
<1>1. PICK c \in ProperContexts :
             /\ Attempt(c) \/ Hides(c)
             /\ c = [context EXCEPT !.masterSecret = conn, !.state = "CLIENT_CERTIFICATE_VERIFY",
                                    !.transcript = c.transcript, !.tx = c.tx,
                                    !.encryption = Advance(context.encryption)]
             /\ context.transcript # <<>> => c.transcript # <<>>
             /\ Bears(c, m)
             /\ InTurnToSend("CLIENT_KEY_EXCHANGE")
  BY SendClientKeyExchangeOf
<1>2. m \in ProperMessages
  BY BareOf DEF Names, TypeInv
<1> HIDE DEF m
<1>3. /\ c.state = "CLIENT_CERTIFICATE_VERIFY" /\ c.encryption = Advance(context.encryption)
      /\ c.masterSecret = conn
      /\ c = [context EXCEPT !.state = c.state, !.masterSecret = c.masterSecret,
                             !.transcript = c.transcript, !.tx = c.tx, !.encryption = c.encryption]
  BY <1>1 DEF TypeInv, ProperContexts
<1>4. /\ Sent("CLIENT_KEY_EXCHANGE", c.state, m)
      /\ context'.masterSecret = c.masterSecret /\ context'.transcript = c.transcript
      /\ context'.encryption = c.encryption
  BY <1>1, <1>2, <1>3, SentOf
<1> QED BY <1>1, <1>3, <1>4 DEF m

LEMMA CertificateVerifySent ==
    ASSUME TypeInv, SendCertificateVerify
    PROVE  /\ \E hash \in Transcripts :
                Sent("CLIENT_CERTIFICATE_VERIFY", "CLIENT_CHANGE_CIPHER_SPEC",
                     Message("CertificateVerify", Nothing, hash))
           /\ context'.encryption \in {context.encryption, Advance(context.encryption)}
           /\ context'.masterSecret = context.masterSecret
           /\ context.transcript # <<>> => context'.transcript # <<>>
<1>1. PICK c \in ProperContexts, hash \in Transcripts :
             /\ Attempt(c) \/ GivesUp(c)
             /\ c = [context EXCEPT !.state = "CLIENT_CHANGE_CIPHER_SPEC", !.transcript = c.transcript,
                                    !.tx = c.tx, !.encryption = c.encryption]
             /\ c.encryption \in {context.encryption, Advance(context.encryption)}
             /\ context.transcript # <<>> => c.transcript # <<>>
             /\ Bears(c, Message("CertificateVerify", Nothing, hash))
             /\ InTurnToSend("CLIENT_CERTIFICATE_VERIFY")
  BY SendCertificateVerifyOf
<1> DEFINE m == Message("CertificateVerify", Nothing, hash)
<1>2. m \in ProperMessages
  BY MessageOf, NothingOf DEF Names
<1> HIDE DEF m
<1>3. /\ c.state = "CLIENT_CHANGE_CIPHER_SPEC" /\ c.masterSecret = context.masterSecret
      /\ c = [context EXCEPT !.state = c.state, !.masterSecret = c.masterSecret,
                             !.transcript = c.transcript, !.tx = c.tx, !.encryption = c.encryption]
  BY <1>1 DEF TypeInv, ProperContexts
<1>4. /\ Sent("CLIENT_CERTIFICATE_VERIFY", c.state, m)
      /\ context'.masterSecret = c.masterSecret /\ context'.transcript = c.transcript
      /\ context'.encryption = c.encryption
  BY <1>1, <1>2, <1>3, SentOf DEF m
<1> QED BY <1>1, <1>3, <1>4 DEF m

LEMMA ChangeCipherSpecSent ==
    ASSUME TypeInv, SendChangeCipherSpec
    PROVE  /\ Sent("CLIENT_CHANGE_CIPHER_SPEC", "CLIENT_FINISHED",
                   Message("ChangeCipherSpec", Nothing, <<>>))
           /\ context'.encryption = Engine(context.masterSecret)
           /\ UNCHANGED <<context.masterSecret, context.transcript>>
<1> DEFINE m == Message("ChangeCipherSpec", Nothing, <<>>)
<1>1. PICK c \in ProperContexts :
             /\ Attempt(c) \/ Hides(c)
             /\ c = [context EXCEPT !.state = "CLIENT_FINISHED", !.tx = c.tx,
                                    !.encryption = Engine(context.masterSecret)]
             /\ Bears(c, m)
             /\ InTurnToSend("CLIENT_CHANGE_CIPHER_SPEC")
  BY SendChangeCipherSpecOf
<1>2. m \in ProperMessages
  BY BareOf, NothingOf DEF Names
<1> HIDE DEF m
<1>3. /\ c.state = "CLIENT_FINISHED" /\ c.encryption = Engine(context.masterSecret)
      /\ c.masterSecret = context.masterSecret /\ c.transcript = context.transcript
      /\ c = [context EXCEPT !.state = c.state, !.masterSecret = c.masterSecret,
                             !.transcript = c.transcript, !.tx = c.tx, !.encryption = c.encryption]
  BY <1>1 DEF TypeInv, ProperContexts
<1>4. /\ Sent("CLIENT_CHANGE_CIPHER_SPEC", c.state, m)
      /\ context'.masterSecret = c.masterSecret /\ context'.transcript = c.transcript
      /\ context'.encryption = c.encryption
  BY <1>1, <1>2, <1>3, SentOf
<1> QED BY <1>1, <1>3, <1>4 DEF m

LEMMA FinishedSentOf ==
    ASSUME TypeInv, SendFinished
    PROVE  /\ Sent("CLIENT_FINISHED", IF context.resume THEN "APPLICATION_DATA" ELSE "SERVER_CHANGE_CIPHER_SPEC",
                   Message("Finished", context.masterSecret, context.transcript))
           /\ context'.encryption = Advance(context.encryption)
           /\ context'.masterSecret = context.masterSecret
           /\ context.transcript # <<>> =>
                /\ context'.transcript = Append(context.transcript, <<"Finished", context.masterSecret>>)
                /\ context'.transcript # <<>>
<1> DEFINE m == Message("Finished", context.masterSecret, context.transcript)
           to == IF context.resume THEN "APPLICATION_DATA" ELSE "SERVER_CHANGE_CIPHER_SPEC"
<1>1. PICK c \in ProperContexts :
             /\ Attempt(c) \/ GivesUp(c)
             /\ c = [context EXCEPT !.state = to, !.transcript = c.transcript, !.tx = c.tx,
                                    !.encryption = Advance(context.encryption)]
             /\ context.transcript # <<>> =>
                  /\ c.transcript = Append(context.transcript, <<"Finished", context.masterSecret>>)
                  /\ c.transcript # <<>>
             /\ Bears(c, m)
             /\ InTurnToSend("CLIENT_FINISHED")
  BY SendFinishedOf
<1>2. m \in ProperMessages
  BY MessageOf DEF Names, TypeInv, ProperContexts
<1> HIDE DEF m, to
<1>3. /\ c.state = to /\ c.encryption = Advance(context.encryption)
      /\ c.masterSecret = context.masterSecret
      /\ c = [context EXCEPT !.state = c.state, !.masterSecret = c.masterSecret,
                             !.transcript = c.transcript, !.tx = c.tx, !.encryption = c.encryption]
  BY <1>1 DEF TypeInv, ProperContexts
<1>4. /\ Sent("CLIENT_FINISHED", c.state, m)
      /\ context'.masterSecret = c.masterSecret /\ context'.transcript = c.transcript
      /\ context'.encryption = c.encryption
  BY <1>1, <1>2, <1>3, SentOf
<1> QED BY <1>1, <1>3, <1>4 DEF m, to

LEMMA Flushed ==
    ASSUME TypeInv, FlushPending
    PROVE  /\ call = "connect" /\ context.tx # <<>>
           /\ \/ context'.state = context.state
              \/ context'.state = "CLOSED" /\ call' = "failed"
           /\ call' \in {call, "failed"}
           /\ call' = "failed" \/ context'.tx = <<>>
           /\ Rising' \subseteq Rising
           /\ UNCHANGED <<context.encryption, context.masterSecret, context.transcript>>
           /\ Untouched /\ Elsewhere
<1>1. context \in ProperContexts /\ (Attempt(context) \/ GivesUp(context))
  BY DEF TypeInv, FlushPending
<1>2. /\ context' \in ProperContexts
      /\ context' = [context EXCEPT !.state = context'.state, !.tx = context'.tx]
      /\ \/ context'.state = context.state
         \/ context'.state = "CLOSED" /\ call' = "failed"
      /\ Rising' \subseteq Range(up) \cup Range(context.tx)
      /\ call' \in {call, "failed"}
      /\ conn' = conn
  BY <1>1, AttemptOf
<1>3. /\ UNCHANGED <<context.encryption, context.masterSecret, context.transcript>>
      /\ Untouched
  BY <1>1, <1>2 DEF Untouched, ProperContexts
<1>4. call' = "failed" \/ context'.tx = <<>>
  <2>1. CASE GivesUp(context)
    BY <2>1 DEF GivesUp
  <2>2. CASE SendFails(context)
    BY <2>2 DEF SendFails
  <2>3. CASE SendDone(context)
    BY <1>1, <2>3, SendOf
  <2> QED BY <1>1, <2>1, <2>2, <2>3 DEF Attempt
<1>5. Elsewhere
  BY <1>2 DEF Elsewhere, FlushPending, world
<1> QED BY <1>2, <1>3, <1>4, <1>5 DEF Rising, FlushPending

\* The message at hand has been taken from what was received.
Idle == UNCHANGED <<session, call, todo, written, got, link, up, down, server, cache, conn>>

Parsed(name) ==
    /\ Ready /\ Incoming.name = name
    /\ context'.rx = Taken.rx
    /\ UNCHANGED <<context.tx, context.encryption, context.rxRecord, context.closeNotifySent,
                   context.masterSecret>>
    /\ Idle

LEMMA ParsedOf ==
    ASSUME TypeInv, NEW name, name # "data", NEW c \in ProperContexts, Parse(name, c),
           c = [Taken EXCEPT !.state = c.state, !.resume = c.resume, !.sessionId = c.sessionId,
                             !.transcript = c.transcript, !.cert = c.cert,
                             !.clientCertRequested = c.clientCertRequested]
    PROVE  /\ Parsed(name)
           /\ context'.state = c.state /\ context'.resume = c.resume /\ context'.sessionId = c.sessionId
           /\ UNCHANGED <<context.decryption, context.fatalAlert>>
           /\ c.transcript # <<>> =>
                context'.transcript = Append(c.transcript, Hashed(Incoming)) /\ context'.transcript # <<>>
           /\ c.transcript = <<>> => context'.transcript = <<>>
<1>1. /\ context' \in ProperContexts
      /\ context' = [c EXCEPT !.transcript = context'.transcript]
      /\ c.transcript # <<>> =>
           context'.transcript = Append(c.transcript, Hashed(Incoming)) /\ context'.transcript # <<>>
      /\ c.transcript = <<>> => context'.transcript = <<>>
      /\ Ready /\ Incoming.name = name
      /\ UNCHANGED <<session, caller, net, world, count>>
  BY ParseOf
<1>2. Taken \in ProperContexts /\ Taken = [context EXCEPT !.rx = Taken.rx]
  BY <1>1, TakenOf
<1>3. context \in ProperContexts
  BY DEF TypeInv
<1>7. /\ c.rx = Taken.rx /\ c.tx = context.tx /\ c.encryption = context.encryption
      /\ c.rxRecord = context.rxRecord /\ c.closeNotifySent = context.closeNotifySent
      /\ c.masterSecret = context.masterSecret
      /\ c.decryption = context.decryption /\ c.fatalAlert = context.fatalAlert
  BY <1>2, <1>3, ZenonT(40) DEF ProperContexts
<1>4. /\ context'.rx = Taken.rx
      /\ UNCHANGED <<context.tx, context.encryption, context.rxRecord, context.closeNotifySent,
                     context.masterSecret>>
      /\ UNCHANGED <<context.decryption, context.fatalAlert>>
  BY <1>1, <1>7 DEF ProperContexts
<1>5. context'.state = c.state /\ context'.resume = c.resume /\ context'.sessionId = c.sessionId
  BY <1>1 DEF ProperContexts
<1>6. Idle
  BY <1>1 DEF Idle, caller, net, world, count
<1> QED BY <1>1, <1>4, <1>5, <1>6 DEF Parsed

LEMMA ServerHelloParsed ==
    ASSUME TypeInv, ParseServerHello
    PROVE  /\ Parsed("ServerHello") /\ context.state = "SERVER_HELLO"
           /\ context'.resume = ResumesSession(context, Incoming)
           /\ context'.sessionId = Incoming.id
           /\ context'.state = IF context'.resume THEN "SERVER_CHANGE_CIPHER_SPEC" ELSE "SERVER_CERTIFICATE"
           /\ context'.transcript # <<>>
           /\ UNCHANGED <<context.decryption, context.fatalAlert>>
<1> DEFINE hello == << <<"ClientHello", context.sessionId>> >>
           resumes == ResumesSession(context, Incoming)
           to == IF resumes THEN "SERVER_CHANGE_CIPHER_SPEC" ELSE "SERVER_CERTIFICATE"
           c == [Taken EXCEPT !.resume = resumes, !.sessionId = Incoming.id,
                              !.transcript = hello, !.state = to]
<1>1. Parse("ServerHello", c) /\ context.state = "SERVER_HELLO"
  BY DEF ParseServerHello
<1>2. Ready /\ Incoming.name = "ServerHello"
  BY <1>1 DEF Parse
<1>3. Taken \in ProperContexts /\ Incoming \in ProperMessages /\ Incoming.id \in Numbers
  BY <1>2, TakenOf DEF ProperMessages
<1>4. hello \in Transcripts /\ hello # <<>> /\ resumes \in BOOLEAN /\ to \in States
  BY DEF TypeInv, ProperContexts, Transcripts, Names, States, ServerStates, ResumesSession
<1> HIDE DEF hello, resumes, to
<1>5. /\ c \in ProperContexts /\ c.state = to /\ c.resume = resumes
      /\ c.sessionId = Incoming.id /\ c.transcript = hello
  BY <1>3, <1>4 DEF ProperContexts
<1>6. c = [Taken EXCEPT !.state = c.state, !.resume = c.resume, !.sessionId = c.sessionId,
                        !.transcript = c.transcript, !.cert = c.cert,
                        !.clientCertRequested = c.clientCertRequested]
  BY <1>3, <1>4 DEF ProperContexts
<1> HIDE DEF c
<1>7. /\ Parsed("ServerHello")
      /\ context'.state = c.state /\ context'.resume = c.resume /\ context'.sessionId = c.sessionId
      /\ UNCHANGED <<context.decryption, context.fatalAlert>>
      /\ c.transcript # <<>> => context'.transcript # <<>>
  BY <1>1, <1>5, <1>6, ParsedOf
<1> QED BY <1>1, <1>4, <1>5, <1>7 DEF to, resumes

\* A message that only moves the handshake on.
Moved(name, to) ==
    /\ Parsed(name)
    /\ context'.state = to
    /\ UNCHANGED <<context.resume, context.sessionId, context.decryption, context.fatalAlert>>
    /\ context.transcript # <<>> =>
         context'.transcript = Append(context.transcript, Hashed(Incoming)) /\ context'.transcript # <<>>
    /\ context.transcript = <<>> => context'.transcript = <<>>

LEMMA MovedOf ==
    ASSUME TypeInv, NEW name, name # "data", NEW to \in States, NEW requested \in BOOLEAN, NEW cert \in BOOLEAN,
           Parse(name, [Taken EXCEPT !.clientCertRequested = requested, !.cert = cert, !.state = to])
    PROVE  Moved(name, to)
<1> DEFINE c == [Taken EXCEPT !.clientCertRequested = requested, !.cert = cert, !.state = to]
<1>1. Taken \in ProperContexts /\ Taken = [context EXCEPT !.rx = Taken.rx]
  BY TakenOf DEF Parse
<1>2. /\ c \in ProperContexts /\ c.state = to /\ c.resume = Taken.resume
      /\ c.sessionId = Taken.sessionId /\ c.transcript = Taken.transcript
  BY <1>1 DEF ProperContexts
<1>3. c = [Taken EXCEPT !.state = c.state, !.resume = c.resume, !.sessionId = c.sessionId,
                        !.transcript = c.transcript, !.cert = c.cert,
                        !.clientCertRequested = c.clientCertRequested]
  BY <1>1 DEF ProperContexts
<1>4. /\ Taken.resume = context.resume /\ Taken.sessionId = context.sessionId
      /\ Taken.transcript = context.transcript
  BY <1>1 DEF TypeInv, ProperContexts
<1> HIDE DEF c
<1> QED BY <1>2, <1>3, <1>4, ParsedOf, ZenonT(40) DEF Moved, c

LEMMA TakenAgain ==
    ASSUME TypeInv, Ready, NEW to
    PROVE  /\ [Taken EXCEPT !.state = to]
                = [Taken EXCEPT !.clientCertRequested = Taken.clientCertRequested, !.cert = Taken.cert,
                                !.state = to]
           /\ Taken = [Taken EXCEPT !.clientCertRequested = Taken.clientCertRequested, !.cert = Taken.cert,
                                    !.state = context.state]
           /\ Taken.clientCertRequested \in BOOLEAN /\ Taken.cert \in BOOLEAN
<1>1. Taken \in ProperContexts /\ Taken = [context EXCEPT !.rx = Taken.rx]
  BY TakenOf
<1>2. Taken.state = context.state
  BY <1>1 DEF TypeInv, ProperContexts
<1> QED BY <1>1, <1>2 DEF ProperContexts

LEMMA MessagesParsed ==
    ASSUME TypeInv
    PROVE  /\ ParseCertificate =>
                context.state = "SERVER_CERTIFICATE" /\ Moved("Certificate", "SERVER_KEY_EXCHANGE")
           /\ ParseServerKeyExchange =>
                context.state = "SERVER_KEY_EXCHANGE" /\ Moved("ServerKeyExchange", "CERTIFICATE_REQUEST")
           /\ ParseCertificateRequest =>
                context.state = "CERTIFICATE_REQUEST" /\ Moved("CertificateRequest", "SERVER_HELLO_DONE")
           /\ ParseServerHelloDone =>
                /\ context.state \in {"CERTIFICATE_REQUEST", "SERVER_HELLO_DONE"}
                /\ Moved("ServerHelloDone", "CLIENT_CERTIFICATE")
           /\ ParseFinished =>
                /\ context.state = "SERVER_FINISHED" /\ Verifies(context, Incoming)
                /\ Moved("Finished", IF context.resume THEN "CLIENT_CHANGE_CIPHER_SPEC" ELSE "APPLICATION_DATA")
           /\ ParseHelloRequest =>
                context.state # "APPLICATION_DATA" /\ Moved("HelloRequest", context.state)
<1>1. ASSUME NEW name, name # "data", NEW to \in States, Parse(name, [Taken EXCEPT !.state = to])
      PROVE  Moved(name, to)
  <2>1. Ready
    BY <1>1 DEF Parse
  <2>2. /\ [Taken EXCEPT !.state = to]
             = [Taken EXCEPT !.clientCertRequested = Taken.clientCertRequested, !.cert = Taken.cert,
                             !.state = to]
        /\ Taken.clientCertRequested \in BOOLEAN /\ Taken.cert \in BOOLEAN
    BY <2>1, TakenAgain
  <2>3. Parse(name, [Taken EXCEPT !.clientCertRequested = Taken.clientCertRequested, !.cert = Taken.cert,
                                  !.state = to])
    BY <1>1, <2>2
  <2> QED BY <1>1, <2>2, <2>3, MovedOf
<1>2. /\ "SERVER_KEY_EXCHANGE" \in States /\ "CERTIFICATE_REQUEST" \in States
      /\ "SERVER_HELLO_DONE" \in States /\ "CLIENT_CERTIFICATE" \in States
      /\ "CLIENT_CHANGE_CIPHER_SPEC" \in States /\ "APPLICATION_DATA" \in States
      /\ context.state \in States
  BY DEF States, ServerStates, ClientStates, TypeInv, ProperContexts
<1>3. ASSUME ParseCertificateRequest
      PROVE  context.state = "CERTIFICATE_REQUEST" /\ Moved("CertificateRequest", "SERVER_HELLO_DONE")
  <2>1. PICK acceptable \in BOOLEAN :
           Parse("CertificateRequest", [Taken EXCEPT
               !.clientCertRequested = TRUE, !.cert = acceptable, !.state = "SERVER_HELLO_DONE"])
    BY <1>3 DEF ParseCertificateRequest
  <2> QED BY <1>2, <1>3, <2>1, MovedOf DEF ParseCertificateRequest
<1>4. ASSUME ParseHelloRequest
      PROVE  context.state # "APPLICATION_DATA" /\ Moved("HelloRequest", context.state)
  <2>1. Ready
    BY <1>4 DEF ParseHelloRequest, Parse
  <2>2. Parse("HelloRequest", [Taken EXCEPT !.clientCertRequested = Taken.clientCertRequested,
                                            !.cert = Taken.cert, !.state = context.state])
    BY <1>4, <2>1, TakenAgain DEF ParseHelloRequest
  <2> QED BY <1>2, <1>4, <2>1, <2>2, MovedOf, TakenAgain DEF ParseHelloRequest
<1> QED BY <1>1, <1>2, <1>3, <1>4
        DEF ParseCertificate, ParseServerKeyExchange, ParseServerHelloDone, ParseFinished

LEMMA ChangeCipherSpecParsed ==
    ASSUME TypeInv, ParseChangeCipherSpec
    PROVE  /\ Parsed("ChangeCipherSpec")
           /\ context.state = "SERVER_CHANGE_CIPHER_SPEC" /\ context'.state = "SERVER_FINISHED"
           /\ context'.decryption = Engine(context.masterSecret)
           /\ UNCHANGED <<context.resume, context.sessionId, context.fatalAlert, context.transcript>>
<1>1. Ready /\ Incoming.name = "ChangeCipherSpec"
  BY DEF ParseChangeCipherSpec
<1>2. Taken \in ProperContexts /\ Taken = [context EXCEPT !.rx = Taken.rx]
  BY <1>1, TakenOf
<1>3. context' = [context EXCEPT !.rx = Taken.rx, !.decryption = Engine(context.masterSecret),
                                 !.state = "SERVER_FINISHED"]
  BY <1>2 DEF ParseChangeCipherSpec
<1>4. context \in ProperContexts
  BY DEF TypeInv
<1>5. Idle
  BY DEF ParseChangeCipherSpec, Idle, caller, net, world, count
<1>6. /\ context'.rx = Taken.rx /\ context'.state = "SERVER_FINISHED"
      /\ context'.decryption = Engine(context.masterSecret)
      /\ UNCHANGED <<context.tx, context.encryption, context.rxRecord, context.closeNotifySent,
                     context.masterSecret>>
      /\ UNCHANGED <<context.resume, context.sessionId, context.fatalAlert, context.transcript>>
  BY <1>3, <1>4 DEF ProperContexts
<1> QED BY <1>1, <1>5, <1>6 DEF Parsed, ParseChangeCipherSpec

LEMMA AlertParsed ==
    ASSUME TypeInv, ParseAlert
    PROVE  /\ \/ /\ Parsed("fatal") /\ context'.fatalAlert /\ context'.state = "CLOSED"
              \/ /\ Parsed("close_notify")
                 /\ context'.state = IF context.state = "APPLICATION_DATA" THEN "CLOSING" ELSE context.state
                 /\ UNCHANGED <<context.fatalAlert, context.sessionId>>
           /\ UNCHANGED <<context.resume, context.decryption, context.transcript>>
<1>1. Ready
  BY DEF ParseAlert
<1>2. Taken \in ProperContexts /\ Taken = [context EXCEPT !.rx = Taken.rx]
  BY <1>1, TakenOf
<1>3. context \in ProperContexts
  BY DEF TypeInv
<1>4. Idle
  BY DEF ParseAlert, Idle, caller, net, world, count
<1>5. CASE /\ Incoming.name = "fatal"
           /\ context' = [Taken EXCEPT !.fatalAlert = TRUE, !.sessionId = Nothing, !.state = "CLOSED"]
  <2>1. context' = [context EXCEPT !.rx = Taken.rx, !.fatalAlert = TRUE, !.sessionId = Nothing,
                                   !.state = "CLOSED"]
    BY <1>2, <1>3, <1>5 DEF ProperContexts
  <2>2. /\ context'.rx = Taken.rx /\ context'.fatalAlert /\ context'.state = "CLOSED"
        /\ UNCHANGED <<context.tx, context.encryption, context.rxRecord, context.closeNotifySent,
                       context.masterSecret>>
        /\ UNCHANGED <<context.resume, context.decryption, context.transcript>>
    BY <1>3, <2>1 DEF ProperContexts
  <2> QED BY <1>1, <1>4, <1>5, <2>2 DEF Parsed
<1>6. CASE /\ Incoming.name = "close_notify"
           /\ context' = [Taken EXCEPT !.state = IF Taken.state = "APPLICATION_DATA" THEN "CLOSING"
                                                 ELSE Taken.state]
  <2>1. context' = [context EXCEPT !.rx = Taken.rx,
                        !.state = IF context.state = "APPLICATION_DATA" THEN "CLOSING" ELSE context.state]
    BY <1>2, <1>3, <1>6 DEF ProperContexts
  <2>2. /\ context'.rx = Taken.rx
        /\ context'.state = IF context.state = "APPLICATION_DATA" THEN "CLOSING" ELSE context.state
        /\ UNCHANGED <<context.fatalAlert, context.sessionId>>
        /\ UNCHANGED <<context.tx, context.encryption, context.rxRecord, context.closeNotifySent,
                       context.masterSecret>>
        /\ UNCHANGED <<context.resume, context.decryption, context.transcript>>
    BY <1>3, <2>1 DEF ProperContexts
  <2> QED BY <1>1, <1>4, <1>6, <2>2 DEF Parsed
<1> QED BY <1>5, <1>6 DEF ParseAlert

\* The connection is refused with a fatal alert.
Refused ==
    /\ context' \in ProperContexts /\ up' \in Seq(ProperHalves) /\ down' \in Seq(ProperHalves)
    /\ context'.fatalAlert /\ context'.state = "CLOSING" /\ link # "none"
    /\ \E n \in 0 .. Len(context.rx) : context'.rx = Drop(context.rx, n)
    /\ Range(down') \cup Range(context'.rxRecord) \subseteq Range(down) \cup Range(context.rxRecord)
    /\ \A h \in Rising' : h \in Rising \/ h.record.body = <<Message("fatal", Nothing, <<>>)>>
    /\ UNCHANGED <<context.resume, context.masterSecret, context.closeNotifySent>>
    /\ call \in {"connect", "read"} /\ call' \in {"failed", "none", "read"}
    /\ UNCHANGED <<session, todo, written, got, link, server, cache, conn>>

LEMMA RefusedOf ==
    ASSUME TypeInv, CallInv, NEW c \in ProperContexts, SendFatalAlert(c), call' \in {"failed", "none", "read"},
           c = [context EXCEPT !.rx = c.rx, !.rxRecord = c.rxRecord],
           \E n \in 0 .. Len(context.rx) : c.rx = Drop(context.rx, n),
           down' \in Seq(ProperHalves),
           Range(down') \cup Range(c.rxRecord) \subseteq Range(down) \cup Range(context.rxRecord),
           call \in {"connect", "read"},
           UNCHANGED <<session, todo, written, got, link, server, cache, conn>>
    PROVE  Refused
<1> DEFINE a == Alerted(c)
<1>1. /\ a \in ProperContexts
      /\ a = [c EXCEPT !.tx = a.tx, !.encryption = Advance(c.encryption),
                       !.fatalAlert = TRUE, !.sessionId = Nothing, !.state = "CLOSING"]
      /\ \A h \in Range(a.tx) : h.record = Record(<<Message("fatal", Nothing, <<>>)>>, c.encryption)
  BY AlertedOf
<1>2. SendDone(a) \/ SendTimeout(a)
  BY DEF SendFatalAlert
<1> HIDE DEF a
<1>3. /\ context' \in ProperContexts /\ up' \in Seq(ProperHalves)
      /\ context' = [a EXCEPT !.tx = context'.tx]
      /\ Rising' \subseteq Range(up) \cup Range(a.tx)
  BY <1>1, <1>2, SendOf
<1>4. /\ context'.fatalAlert /\ context'.state = "CLOSING"
      /\ context'.rx = c.rx /\ context'.rxRecord = c.rxRecord
      /\ context'.resume = c.resume /\ context'.masterSecret = c.masterSecret
      /\ context'.closeNotifySent = c.closeNotifySent
  <2>1. /\ a.fatalAlert /\ a.state = "CLOSING" /\ a.rx = c.rx /\ a.rxRecord = c.rxRecord
        /\ a.resume = c.resume /\ a.masterSecret = c.masterSecret
        /\ a.closeNotifySent = c.closeNotifySent
    BY <1>1 DEF ProperContexts
  <2> QED BY <1>1, <1>3, <2>1 DEF ProperContexts
<1>5. /\ c.resume = context.resume /\ c.masterSecret = context.masterSecret
      /\ c.closeNotifySent = context.closeNotifySent
  BY DEF TypeInv, ProperContexts
<1>6. \A h \in Rising' : h \in Rising \/ h.record.body = <<Message("fatal", Nothing, <<>>)>>
  BY <1>1, <1>3 DEF Rising, Record
<1>7. link # "none"
  BY DEF CallInv
<1> QED BY <1>3, <1>4, <1>5, <1>6, <1>7 DEF Refused

LEMMA ReceivedOf ==
    ASSUME TypeInv, down # <<>>
    PROVE  /\ Received \in Seq(ProperHalves)
           /\ Range(Received) = Range(context.rxRecord) \cup {Head(down)}
           /\ Head(down) \in ProperHalves /\ Head(down) \in Range(down) /\ Head(down) = down[1]
           /\ Tail(down) \in Seq(ProperHalves) /\ Range(Tail(down)) \subseteq Range(down)
           /\ Len(Tail(down)) = Len(down) - 1
           /\ \A i \in 1 .. Len(down) - 1 : Tail(down)[i] = down[i + 1]
<1>1. down \in Seq(ProperHalves) /\ context.rxRecord \in Seq(ProperHalves)
  BY DEF TypeInv, ProperContexts
<1>2. Head(down) \in ProperHalves
  BY <1>1, TailOf
<1> QED BY <1>1, <1>2, TailOf, AppendOf DEF Received

LEMMA BadRecordRefused ==
    ASSUME TypeInv, CallInv, ReceiveBadRecord
    PROVE  Refused
<1>1. /\ down # <<>> /\ call \in {"connect", "read"} /\ down' = Tail(down) /\ call' = "failed"
      /\ UNCHANGED <<session, todo, written, got, link, server, cache, conn>>
  BY DEF ReceiveBadRecord, Reading, Listening, Refuse, world, count
<1> DEFINE c == [context EXCEPT !.rxRecord = Received]
<1>2. c \in ProperContexts /\ c.rx = context.rx /\ c.rxRecord = Received
  BY <1>1, ReceivedOf DEF TypeInv, ProperContexts
<1>3. c = [context EXCEPT !.rx = c.rx, !.rxRecord = c.rxRecord]
  BY DEF TypeInv, ProperContexts
<1>4. SendFatalAlert(c)
  BY DEF ReceiveBadRecord, Refuse
<1>5. context.rx = Drop(context.rx, 0) /\ 0 \in 0 .. Len(context.rx)
  BY DEF Drop, TypeInv, ProperContexts
<1>6. Range(down') \cup Range(c.rxRecord) \subseteq Range(down) \cup Range(context.rxRecord)
  BY <1>1, <1>2, ReceivedOf
<1>7. down' \in Seq(ProperHalves)
  BY <1>1, ReceivedOf
<1> HIDE DEF c
<1>8. \E n \in 0 .. Len(context.rx) : c.rx = Drop(context.rx, n)
  BY <1>2, <1>5
<1> QED BY <1>1, <1>2, <1>3, <1>4, <1>6, <1>7, <1>8, RefusedOf

LEMMA MessageRefused ==
    ASSUME TypeInv, CallInv, ParseRefused \/ RefuseRenegotiation
    PROVE  Refused
<1>1. /\ Ready /\ SendFatalAlert(Taken) /\ call \in {"connect", "read"}
      /\ UNCHANGED <<session, todo, written, got, link, down, server, cache, conn>>
  BY DEF ParseRefused, RefuseRenegotiation, Refuse, SendFatalAlert, world, count, Ready, Listening
<1>2. call' \in {"failed", "none", "read"}
  <2>1. CASE ParseRefused
    BY <2>1 DEF ParseRefused, Refuse
  <2>2. CASE RefuseRenegotiation
    <3>1. call = "read"
      BY <2>2 DEF RefuseRenegotiation, Ready, Listening, ServerStates
    <3> QED BY <2>2, <3>1 DEF RefuseRenegotiation
  <2> QED BY <2>1, <2>2
<1>3. /\ Taken \in ProperContexts /\ Taken = [context EXCEPT !.rx = Taken.rx]
      /\ \E n \in 1 .. Len(context.rx) : Taken.rx = Drop(context.rx, n)
  BY <1>1, TakenOf
<1>4. Taken.rxRecord = context.rxRecord
  BY <1>3 DEF TypeInv, ProperContexts
<1>5. Taken = [context EXCEPT !.rx = Taken.rx, !.rxRecord = Taken.rxRecord]
  BY <1>3, <1>4 DEF TypeInv, ProperContexts
<1>6. down' = down /\ down \in Seq(ProperHalves)
  BY <1>1 DEF TypeInv
<1>7. \E n \in 0 .. Len(context.rx) : Taken.rx = Drop(context.rx, n)
  BY <1>3 DEF TypeInv, ProperContexts
<1>8. Range(down') \cup Range(Taken.rxRecord) \subseteq Range(down) \cup Range(context.rxRecord)
  BY <1>4, <1>6
<1>9. \E c \in ProperContexts : c = Taken
  BY <1>3
<1> QED BY <1>1, <1>2, <1>3, <1>5, <1>6, <1>7, <1>8, RefusedOf

LEMMA ElementRefused ==
    ASSUME TypeInv, CallInv, ElementFails
    PROVE  Refused
<1>1. /\ SendFatalAlert(context) /\ call = "connect" /\ call' = "failed"
      /\ UNCHANGED <<session, todo, written, got, link, down, server, cache, conn>>
  BY DEF ElementFails, Refuse, world, Fault
<1>2. context \in ProperContexts /\ down' = down /\ down \in Seq(ProperHalves)
  BY <1>1 DEF TypeInv
<1>3. context = [context EXCEPT !.rx = context.rx, !.rxRecord = context.rxRecord]
  BY <1>2 DEF ProperContexts
<1>4. context.rx = Drop(context.rx, 0) /\ 0 \in 0 .. Len(context.rx)
  BY DEF Drop, TypeInv, ProperContexts
<1>5. \E n \in 0 .. Len(context.rx) : context.rx = Drop(context.rx, n)
  BY <1>4
<1>6. Range(down') \cup Range(context.rxRecord) \subseteq Range(down) \cup Range(context.rxRecord)
  BY <1>2
<1> QED BY <1>1, <1>2, <1>3, <1>5, <1>6, RefusedOf

LEMMA RecordReceived ==
    ASSUME TypeInv, ReceiveRecord
    PROVE  LET record == Head(down).record
           IN /\ Reading /\ down # <<>> /\ down' = Tail(down) /\ down' \in Seq(ProperHalves)
              /\ Len(context.rxRecord) = 1 /\ context'.rxRecord = <<>>
              /\ Head(down).half = 2 /\ record.body \in Bodies
              /\ context.rxRecord[1].record = record
              /\ context' \in ProperContexts
              /\ context'.rx = context.rx \o record.body
              /\ context.rx # <<>> => Kind(Head(record.body)) = Kind(Head(context.rx))
              /\ UNCHANGED <<context.state, context.resume, context.sessionId, context.masterSecret,
                             context.transcript, context.encryption, context.tx,
                             context.closeNotifySent, context.fatalAlert>>
              /\ UNCHANGED <<session, call, todo, written, got, link, up, server, cache, conn>>
<1> DEFINE s == context.rxRecord
           record == Head(Received).record
<1>1. /\ Reading /\ down # <<>> /\ down' = Tail(down) /\ s # <<>>
      /\ Opens(Received, context.decryption)
      /\ context.rx # <<>> => Type(record) = Kind(Head(context.rx))
      /\ context' = [context EXCEPT !.rx = context.rx \o record.body, !.rxRecord = <<>>,
                                    !.decryption = Advance(context.decryption)]
      /\ UNCHANGED <<session, call, todo, written, got, link, up, server, cache, conn>>
  BY DEF ReceiveRecord, Acceptable, caller, world, count
<1>2. /\ context \in ProperContexts /\ s \in Seq(ProperHalves) /\ context.rx \in Seq(ProperMessages)
      /\ context.decryption \in Engines
  BY DEF TypeInv, ProperContexts
<1>3. /\ Received \in Seq(ProperHalves) /\ Head(down) \in ProperHalves
      /\ Tail(down) \in Seq(ProperHalves)
  BY <1>1, ReceivedOf
<1>4. /\ Len(Received) = Len(s) + 1 /\ Received[Len(s) + 1] = Head(down)
      /\ \A i \in 1 .. Len(s) : Received[i] = s[i]
      /\ Len(s) \in Nat
  BY <1>2, <1>3, AppendProperties DEF Received
<1>5. Received = << [record |-> record, half |-> 1], [record |-> record, half |-> 2] >>
  BY <1>1 DEF Opens, Halves
<1> HIDE DEF s, record
<1>6. Len(Received) = 2 /\ Received[1].record = record /\ Received[2] = [record |-> record, half |-> 2]
  BY <1>5
<1>7. Len(s) = 1
  <2>1. \A n \in Nat : n + 1 = 2 => n = 1
    OBVIOUS
  <2> QED BY <1>4, <1>6, <2>1
<1>8. Head(down) = [record |-> record, half |-> 2] /\ s[1].record = record
  BY <1>4, <1>6, <1>7
<1>9. Head(down).record = record /\ Head(down).half = 2
  BY <1>8
<1>10. record.body \in Bodies
  BY <1>3, <1>9 DEF ProperHalves
<1>11. context.rx \o record.body \in Seq(ProperMessages) /\ Advance(context.decryption) \in Engines
  BY <1>2, <1>10, ConcatOf, AdvanceOf DEF Bodies
<1>12. <<>> \in Seq(ProperHalves)
  OBVIOUS
<1>13. /\ context' \in ProperContexts /\ context'.rxRecord = <<>>
       /\ context'.rx = context.rx \o record.body
       /\ UNCHANGED <<context.state, context.resume, context.sessionId, context.masterSecret,
                      context.transcript, context.encryption, context.tx,
                      context.closeNotifySent, context.fatalAlert>>
  BY <1>1, <1>2, <1>11, <1>12 DEF ProperContexts
<1> QED BY <1>1, <1>3, <1>7, <1>8, <1>9, <1>10, <1>13 DEF s, Type

LEMMA DataWritten ==
    ASSUME TypeInv, CallInv, WriteData
    PROVE  /\ call = "write" /\ context.state = "APPLICATION_DATA" /\ written + todo <= Bound(MaxWritten)
           /\ context' \in ProperContexts /\ up' \in Seq(ProperHalves)
           /\ \A h \in Rising' :
                \/ h \in Rising
                \/ /\ h.record = Record(<<Message("data", written + 1, <<>>)>>, context.encryption)
                   /\ context.tx = <<>>
           /\ context'.encryption = IF context.tx = <<>> THEN Advance(context.encryption)
                                    ELSE context.encryption
           /\ UNCHANGED <<context.masterSecret, context.transcript>> /\ Untouched
           /\ \/ /\ context'.state = "APPLICATION_DATA" /\ context'.tx = <<>> /\ CountWritten
              \/ /\ context'.state = "APPLICATION_DATA" /\ context'.tx # <<>>
                 /\ UNCHANGED <<call, todo, written>>
              \/ /\ context'.state = "CLOSED" /\ call' = "failed" /\ UNCHANGED <<todo, written>>
           /\ UNCHANGED <<session, got, link, down, server, cache, conn, faults, troubled>>
<1> DEFINE m == Message("data", written + 1, <<>>)
           q == Queue(context, m)
           c == IF context.tx # <<>> THEN context ELSE q
<1>1. /\ call = "write" /\ context.state = "APPLICATION_DATA"
      /\ \/ SendDone(c) /\ CountWritten
         \/ SendTimeout(c) /\ UNCHANGED <<call, todo, written>>
         \/ SendFails(c) /\ UNCHANGED <<up, todo, written>>
      /\ UNCHANGED <<session, got, link, down, server, cache, conn, faults, troubled>>
  BY DEF WriteData, world, count
<1>2. todo > 0 /\ written + todo <= Bound(MaxWritten)
  BY <1>1 DEF CallInv
<1>3. m \in ProperMessages
  <2>1. written + 1 \in Data
    BY <1>2, TlsAssumption DEF TypeInv, Data, Bound
  <2>2. <<>> \in Transcripts
    BY DEF Transcripts
  <2> QED BY <2>1, <2>2, MessageOf DEF Names
<1>4. context \in ProperContexts
  BY DEF TypeInv
<1> HIDE DEF m
<1>5. /\ q \in ProperContexts
      /\ \A h \in Range(q.tx) : h.record = Record(<<m>>, context.encryption)
  BY <1>3, <1>4, QueueOf
<1>6. q = [context EXCEPT !.tx = q.tx, !.encryption = Advance(context.encryption)]
  BY <1>4 DEF Queue, ProperContexts
<1> HIDE DEF q
<1>7. /\ c \in ProperContexts
      /\ c = [context EXCEPT !.tx = c.tx, !.encryption = IF context.tx = <<>> THEN Advance(context.encryption)
                                                         ELSE context.encryption]
      /\ \A h \in Range(c.tx) :
           \/ h \in Range(context.tx)
           \/ h.record = Record(<<m>>, context.encryption) /\ context.tx = <<>>
  BY <1>4, <1>5, <1>6 DEF ProperContexts
<1> HIDE DEF c
<1>8. ASSUME SendDone(c) \/ SendTimeout(c)
      PROVE  /\ context' \in ProperContexts /\ up' \in Seq(ProperHalves)
             /\ context' = [c EXCEPT !.tx = context'.tx]
             /\ Rising' \subseteq Range(up) \cup Range(c.tx)
             /\ SendDone(c) => context'.tx = <<>>
             /\ SendTimeout(c) => context'.tx # <<>>
  BY <1>7, <1>8, SendOf
<1>9. ASSUME SendFails(c), UNCHANGED up
      PROVE  /\ context' \in ProperContexts /\ up' \in Seq(ProperHalves)
             /\ context' = [c EXCEPT !.state = "CLOSED"] /\ call' = "failed"
             /\ Rising' \subseteq Range(up) \cup Range(c.tx)
  <2>1. /\ context' \in ProperContexts /\ context' = [c EXCEPT !.state = "CLOSED"] /\ call' = "failed"
    BY <1>7, <1>9, FailsOf
  <2>2. context'.tx = c.tx
    BY <2>1, <1>7 DEF ProperContexts
  <2> QED BY <1>9, <2>1, <2>2 DEF Rising, TypeInv
<1>10. /\ context' \in ProperContexts /\ up' \in Seq(ProperHalves)
       /\ context' = [c EXCEPT !.state = context'.state, !.tx = context'.tx]
       /\ Rising' \subseteq Range(up) \cup Range(c.tx)
  <2>1. CASE SendDone(c) \/ SendTimeout(c)
    BY <1>7, <1>8, <2>1 DEF ProperContexts
  <2>2. CASE SendFails(c) /\ UNCHANGED up
    BY <1>7, <1>9, <2>2 DEF ProperContexts
  <2> QED BY <1>1, <2>1, <2>2
<1>11. \/ /\ context'.state = "APPLICATION_DATA" /\ context'.tx = <<>> /\ CountWritten
       \/ /\ context'.state = "APPLICATION_DATA" /\ context'.tx # <<>>
          /\ UNCHANGED <<call, todo, written>>
       \/ /\ context'.state = "CLOSED" /\ call' = "failed" /\ UNCHANGED <<todo, written>>
  <2>0. c.state = "APPLICATION_DATA"
    BY <1>1, <1>4, <1>7 DEF ProperContexts
  <2>1. CASE SendDone(c) /\ CountWritten
    BY <1>7, <1>8, <2>0, <2>1 DEF ProperContexts
  <2>2. CASE SendTimeout(c) /\ UNCHANGED <<call, todo, written>>
    BY <1>7, <1>8, <2>0, <2>2 DEF ProperContexts
  <2>3. CASE SendFails(c) /\ UNCHANGED <<up, todo, written>>
    BY <1>7, <1>9, <2>0, <2>3 DEF ProperContexts
  <2> QED BY <1>1, <2>1, <2>2, <2>3
<1>12. /\ c.resume = context.resume /\ c.sessionId = context.sessionId /\ c.rx = context.rx
       /\ c.rxRecord = context.rxRecord /\ c.decryption = context.decryption
       /\ c.closeNotifySent = context.closeNotifySent /\ c.fatalAlert = context.fatalAlert
       /\ c.masterSecret = context.masterSecret /\ c.transcript = context.transcript
       /\ c.encryption = IF context.tx = <<>> THEN Advance(context.encryption) ELSE context.encryption
  BY <1>4, <1>7 DEF ProperContexts
<1>13. /\ context'.resume = c.resume /\ context'.sessionId = c.sessionId /\ context'.rx = c.rx
       /\ context'.rxRecord = c.rxRecord /\ context'.decryption = c.decryption
       /\ context'.closeNotifySent = c.closeNotifySent /\ context'.fatalAlert = c.fatalAlert
       /\ context'.masterSecret = c.masterSecret /\ context'.transcript = c.transcript
       /\ context'.encryption = c.encryption
  BY <1>7, <1>10 DEF ProperContexts
<1> QED BY <1>1, <1>2, <1>7, <1>10, <1>11, <1>12, <1>13 DEF Rising, Untouched, m

LEMMA CloseNotifySent ==
    ASSUME TypeInv, SendCloseNotify
    PROVE  /\ call = "shutdown"
           /\ context' \in ProperContexts /\ up' \in Seq(ProperHalves)
           /\ context'.closeNotifySent
           /\ context'.state \in {context.state, "CLOSED"}
           /\ call' \in {"done", "shutdown", "failed"}
           /\ \A h \in Rising' :
                \/ h \in Rising
                \/ /\ h.record = Record(<<Message("close_notify", Nothing, <<>>)>>, context.encryption)
                   /\ ~context.closeNotifySent
           /\ UNCHANGED <<context.resume, context.sessionId, context.masterSecret, context.transcript,
                          context.rx, context.rxRecord, context.fatalAlert>>
           /\ UNCHANGED <<session, todo, written, got, link, down, server, cache, conn, faults, troubled>>
<1> DEFINE m == Message("close_notify", Nothing, <<>>)
           q == Queue(context, m)
           c == IF context.closeNotifySent THEN context ELSE [q EXCEPT !.closeNotifySent = TRUE]
<1>1. /\ call = "shutdown"
      /\ \/ SendDone(c) /\ call' = "done"
         \/ SendTimeout(c) /\ UNCHANGED call
         \/ SendFails(c) /\ UNCHANGED up
      /\ UNCHANGED <<session, todo, written, got, link, down, server, cache, conn, faults, troubled>>
  BY DEF SendCloseNotify, world, count
<1>2. m \in ProperMessages
  BY BareOf, NothingOf DEF Names
<1>3. context \in ProperContexts
  BY DEF TypeInv
<1> HIDE DEF m
<1>4. /\ q \in ProperContexts
      /\ \A h \in Range(q.tx) : h.record = Record(<<m>>, context.encryption)
  BY <1>2, <1>3, QueueOf
<1>5. q = [context EXCEPT !.tx = q.tx, !.encryption = Advance(context.encryption)]
  BY <1>3 DEF Queue, ProperContexts
<1> HIDE DEF q
<1>6. /\ c \in ProperContexts /\ c.closeNotifySent
      /\ c.state = context.state /\ c.resume = context.resume /\ c.sessionId = context.sessionId
      /\ c.masterSecret = context.masterSecret /\ c.transcript = context.transcript
      /\ c.rx = context.rx /\ c.rxRecord = context.rxRecord /\ c.fatalAlert = context.fatalAlert
      /\ \A h \in Range(c.tx) :
           \/ h \in Range(context.tx)
           \/ h.record = Record(<<m>>, context.encryption) /\ ~context.closeNotifySent
  <2>1. CASE context.closeNotifySent
    BY <1>3, <2>1 DEF ProperContexts
  <2>2. CASE ~context.closeNotifySent
    <3>1. c = [context EXCEPT !.tx = q.tx, !.encryption = Advance(context.encryption),
                              !.closeNotifySent = TRUE]
      BY <1>3, <1>5, <2>2 DEF ProperContexts
    <3>2. c \in ProperContexts /\ c.tx = q.tx /\ c.closeNotifySent
      BY <1>4, <2>2 DEF ProperContexts
    <3>3. /\ c.state = context.state /\ c.resume = context.resume /\ c.sessionId = context.sessionId
          /\ c.masterSecret = context.masterSecret /\ c.transcript = context.transcript
          /\ c.rx = context.rx /\ c.rxRecord = context.rxRecord /\ c.fatalAlert = context.fatalAlert
      BY <1>3, <3>1 DEF ProperContexts
    <3> QED BY <1>4, <2>2, <3>2, <3>3
  <2> QED BY <2>1, <2>2
<1> HIDE DEF c
<1>7. /\ context' \in ProperContexts /\ up' \in Seq(ProperHalves)
      /\ context' = [c EXCEPT !.state = context'.state, !.tx = context'.tx]
      /\ context'.state \in {c.state, "CLOSED"}
      /\ Rising' \subseteq Range(up) \cup Range(c.tx)
      /\ call' \in {"done", "shutdown", "failed"}
  <2>1. CASE (SendDone(c) /\ call' = "done") \/ (SendTimeout(c) /\ UNCHANGED call)
    <3>1. /\ context' \in ProperContexts /\ up' \in Seq(ProperHalves)
          /\ context' = [c EXCEPT !.tx = context'.tx]
          /\ Rising' \subseteq Range(up) \cup Range(c.tx)
      BY <1>6, <2>1, SendOf
    <3>2. context'.state = c.state
      BY <1>6, <3>1 DEF ProperContexts
    <3>3. context' = [c EXCEPT !.state = context'.state, !.tx = context'.tx]
      BY <1>6, <3>1, <3>2 DEF ProperContexts
    <3> QED BY <1>1, <2>1, <3>1, <3>2, <3>3
  <2>2. CASE SendFails(c) /\ UNCHANGED up
    <3>1. /\ context' \in ProperContexts /\ context' = [c EXCEPT !.state = "CLOSED"] /\ call' = "failed"
      BY <1>6, <2>2, FailsOf
    <3>2. context'.tx = c.tx /\ context'.state = "CLOSED"
      BY <1>6, <3>1 DEF ProperContexts
    <3>3. context' = [c EXCEPT !.state = context'.state, !.tx = context'.tx]
      BY <1>6, <3>1, <3>2 DEF ProperContexts
    <3> QED BY <2>2, <3>1, <3>2, <3>3 DEF Rising, TypeInv
  <2> QED BY <1>1, <2>1, <2>2
<1>8. /\ context'.closeNotifySent = c.closeNotifySent
      /\ context'.resume = c.resume /\ context'.sessionId = c.sessionId
      /\ context'.masterSecret = c.masterSecret /\ context'.transcript = c.transcript
      /\ context'.rx = c.rx /\ context'.rxRecord = c.rxRecord /\ context'.fatalAlert = c.fatalAlert
  BY <1>6, <1>7 DEF ProperContexts
<1> QED BY <1>1, <1>6, <1>7, <1>8 DEF Rising, m

LEMMA KindOf ==
    ASSUME NEW m
    PROVE  /\ Kind(m) = "application_data" <=> m.name = "data"
           /\ Kind(m) = "alert" <=> m.name \in {"close_notify", "fatal"}
           /\ Kind(m) = "change_cipher_spec" <=> m.name = "ChangeCipherSpec"
  BY DEF Kind

\* Data come alone.
LEMMA AllData ==
    ASSUME NEW ms \in Seq(ProperMessages), Uniform(ms), ms # <<>>, Head(ms).name = "data"
    PROVE  \A i \in DOMAIN ms : ms[i].name = "data" /\ ms[i].id \in Data
<1>1. Head(ms) = ms[1]
  BY TailOf
<1> QED BY <1>1, KindOf DEF Uniform, ProperMessages

LEMMA NoData ==
    ASSUME NEW ms \in Seq(ProperMessages), Uniform(ms), ms # <<>>, Head(ms).name # "data"
    PROVE  \A i \in DOMAIN ms : ms[i].name # "data"
<1>1. Head(ms) = ms[1]
  BY TailOf
<1> QED BY <1>1, KindOf DEF Uniform

LEMMA DataParsed ==
    ASSUME TypeInv, ShapeInv, ParseData
    PROVE  /\ call = "read" /\ call' = "none" /\ context.state = "APPLICATION_DATA"
           /\ context' \in ProperContexts /\ got' \in Seq(Data)
           /\ \A i \in DOMAIN context.rx : context.rx[i].name = "data" /\ context.rx[i].id \in Data
           /\ \E n \in 1 .. Len(context.rx) :
                /\ got' = got \o [i \in 1 .. n |-> context.rx[i].id]
                /\ [i \in 1 .. n |-> context.rx[i].id] \in Seq(Data)
                /\ Len([i \in 1 .. n |-> context.rx[i].id]) = n
                /\ context'.rx = Drop(context.rx, n)
           /\ UNCHANGED <<context.tx, context.encryption, context.rxRecord, context.closeNotifySent,
                          context.masterSecret, context.state, context.resume, context.sessionId,
                          context.transcript, context.fatalAlert>>
           /\ UNCHANGED <<session, todo, written, link, up, down, server, cache, conn, faults, troubled>>
<1>1. /\ context \in ProperContexts /\ context.rx \in Seq(ProperMessages) /\ context.rx # <<>>
      /\ got \in Seq(Data) /\ Ready
  BY DEF ParseData, Ready, Whole, ProperContexts, TypeInv
<1>2. PICK n \in 1 .. Len(context.rx) :
         /\ got' = got \o [i \in 1 .. n |-> context.rx[i].id]
         /\ context' = [context EXCEPT !.rx = Drop(context.rx, n)]
  BY DEF ParseData
<1>3. Drop(context.rx, n) \in Seq(ProperMessages)
  BY <1>1, DropOf
<1>4. /\ context' \in ProperContexts /\ context'.rx = Drop(context.rx, n)
      /\ UNCHANGED <<context.tx, context.encryption, context.rxRecord, context.closeNotifySent,
                     context.masterSecret, context.state, context.resume, context.sessionId,
                     context.transcript, context.fatalAlert>>
  BY <1>1, <1>2, <1>3 DEF ProperContexts
<1>5. Head(context.rx).name = "data"
  BY <1>1, TakenOf DEF ParseData
<1>6. \A i \in DOMAIN context.rx : context.rx[i].name = "data" /\ context.rx[i].id \in Data
  BY <1>1, <1>5, AllData DEF ShapeInv
<1> DEFINE ids == [i \in 1 .. n |-> context.rx[i].id]
<1>7. \A i \in 1 .. n : context.rx[i].id \in Data
  BY <1>1, <1>6
<1>8. ids \in [1 .. n -> Data] /\ n \in Nat
  BY <1>1, <1>7
<1> HIDE DEF ids
<1>9. ids \in Seq(Data) /\ Len(ids) = n
  BY <1>8, SeqDef
<1>10. got \o ids \in Seq(Data)
  BY <1>1, <1>9, ConcatOf
<1> QED BY <1>2, <1>4, <1>6, <1>9, <1>10
        DEF ids, ParseData, Ready, Listening, net, world, count, ServerStates

LEMMA RecordType ==
    ASSUME TypeInv, CallInv, ShapeInv, RecordStep
    PROVE  TypeInv'
<1> USE DEF caller, net, world, count
<1>1. context \in ProperContexts
  BY DEF TypeInv
<1>2. ASSUME Refused, UNCHANGED <<faults, troubled>>
      PROVE  TypeInv'
  BY <1>2 DEF Refused, TypeInv, Calls
<1>3. CASE ReceiveHeader
  <2>1. context' \in ProperContexts /\ down' \in Seq(ProperHalves)
    BY <1>1, <1>3, ReceivedOf DEF ReceiveHeader, ProperContexts
  <2> QED BY <1>3, <2>1 DEF ReceiveHeader, TypeInv
<1>4. CASE ReceiveRecord
  <2>1. context' \in ProperContexts /\ down' \in Seq(ProperHalves)
    BY <1>4, RecordReceived
  <2> QED BY <1>4, <2>1 DEF ReceiveRecord, TypeInv
<1>5. CASE ReceiveBadRecord
  BY <1>2, <1>5, BadRecordRefused DEF ReceiveBadRecord
<1>6. CASE ReceiveFails
  <2>1. context' \in ProperContexts
    BY <1>1, <1>6 DEF ReceiveFails, ProperContexts, States
  <2> QED BY <1>6, <2>1 DEF ReceiveFails, TypeInv, Calls
<1>7. CASE ParseAlert
  <2>1. Taken \in ProperContexts
    BY <1>7, TakenOf DEF ParseAlert
  <2>2. context' \in ProperContexts
    <3>1. CASE context' = [Taken EXCEPT !.fatalAlert = TRUE, !.sessionId = Nothing, !.state = "CLOSED"]
      BY <2>1, <3>1, NothingOf DEF ProperContexts, States
    <3>2. CASE context' = [Taken EXCEPT !.state = IF Taken.state = "APPLICATION_DATA" THEN "CLOSING"
                                                  ELSE Taken.state]
      BY <2>1, <3>2 DEF ProperContexts, States
    <3> QED BY <1>7, <3>1, <3>2 DEF ParseAlert
  <2> QED BY <1>7, <2>2 DEF ParseAlert, TypeInv
<1>8. CASE ParseData
  BY <1>8, DataParsed DEF TypeInv, Calls
<1>9. CASE ParseRefused
  BY <1>2, <1>9, MessageRefused DEF ParseRefused
<1>10. CASE RefuseRenegotiation
  BY <1>2, <1>10, MessageRefused DEF RefuseRenegotiation
<1>11. CASE CallEnds
  BY <1>11 DEF CallEnds, TypeInv, Calls
<1> QED BY <1>3, <1>4, <1>5, <1>6, <1>7, <1>8, <1>9, <1>10, <1>11 DEF RecordStep

LEMMA FreshOf ==
    ASSUME NEW s \in Sessions
    PROVE  FreshContext(s) \in ProperContexts
<1>1. "INIT" \in States /\ NoEngine \in Engines /\ <<>> \in Transcripts
  BY EngineOf DEF States, Transcripts
<1>2. s.id \in Numbers /\ s.secret \in Numbers
  BY DEF Sessions
<1> QED BY <1>1, <1>2 DEF FreshContext, ProperContexts

LEMMA ServerInitOf == ServerInit \in ProperServers
<1>1. NoEngine \in Engines /\ <<>> \in Transcripts /\ Nothing \in Numbers /\ 0 \in 0 .. MaxSent
  BY EngineOf, NothingOf, TlsAssumption DEF Transcripts
<1> QED BY <1>1 DEF ServerInit, ProperServers

LEMMA NoSessionOf == NoSession \in Sessions
  BY NothingOf DEF NoSession, Sessions

LEMMA CallerType ==
    ASSUME TypeInv, CallInv, CallerStep
    PROVE  TypeInv'
<1> USE DEF caller, net, world, count
<1>1. context \in ProperContexts
  BY DEF TypeInv
<1>2. CASE Open
  <2>1. context' \in ProperContexts
    BY <1>2, FreshOf DEF Open, TypeInv
  <2>2. conn' \in Numbers
    BY <1>2, TlsAssumption DEF Open, TypeInv, Numbers
  <2> QED BY <1>2, <2>1, <2>2 DEF Open, TypeInv, Calls, Links
<1>3. ASSUME NEW n \in 1 .. 2, StartWrite(n)
      PROVE  TypeInv'
  BY <1>3 DEF StartWrite, TypeInv, Calls
<1>4. CASE WriteData
  <2>1. /\ context' \in ProperContexts /\ up' \in Seq(ProperHalves)
        /\ UNCHANGED <<session, got, link, down, server, cache, conn, faults, troubled>>
        /\ written + todo <= Bound(MaxWritten) /\ todo > 0
        /\ CountWritten \/ (call' \in {call, "failed"} /\ UNCHANGED <<todo, written>>)
    BY <1>4, DataWritten DEF CallInv
  <2>2. CASE CountWritten
    <3>1. todo' \in 0 .. 2 /\ written' \in 0 .. MaxWritten \cup {1} /\ call' \in Calls
      <4>1. MaxWritten \in Nat /\ todo \in 1 .. 2 /\ written \in Nat /\ Bound(MaxWritten) \in {MaxWritten, 1}
        BY <2>1, TlsAssumption DEF TypeInv, Bound
      <4> QED BY <2>1, <2>2, <4>1 DEF CountWritten, Calls
    <3> QED BY <2>1, <3>1 DEF TypeInv
  <2>3. CASE call' \in {call, "failed"} /\ UNCHANGED <<todo, written>>
    BY <2>1, <2>3 DEF TypeInv, Calls
  <2> QED BY <2>1, <2>2, <2>3
<1>5. CASE StartRead
  BY <1>5 DEF StartRead, TypeInv, Calls
<1>6. CASE ReadTimeout
  BY <1>6 DEF ReadTimeout, TypeInv, Calls
<1>7. CASE StartShutdown
  <2>1. context' \in ProperContexts
    BY <1>1, <1>7 DEF StartShutdown, ProperContexts, States
  <2> QED BY <1>7, <2>1 DEF StartShutdown, TypeInv, Calls
<1>8. CASE SendCloseNotify
  BY <1>8, CloseNotifySent DEF TypeInv, Calls
<1>9. CASE Close
  <2>1. context' \in ProperContexts /\ server' \in ProperServers
    BY <1>9, FreshOf, NoSessionOf, ServerInitOf DEF Close
  <2>2. written' \in 0 .. MaxWritten \cup {1} /\ todo' \in 0 .. 2
    BY <1>9, TlsAssumption DEF Close
  <2>3. got' \in Seq(Data) /\ up' \in Seq(ProperHalves) /\ down' \in Seq(ProperHalves)
    BY <1>9 DEF Close
  <2> QED BY <1>9, <2>1, <2>2, <2>3 DEF Close, TypeInv, Calls, Links
<1> QED BY <1>2, <1>3, <1>4, <1>5, <1>6, <1>7, <1>8, <1>9 DEF CallerStep

-----------------------------------------------------------------------------
(* What the steps of the server change, field by field *)

Served == UNCHANGED <<context, session, call, todo, written, got, link, conn>>

\* The server has taken the first record, of a message called one of names.
Took(phase, names) ==
    /\ Arriving \in ProperMessages /\ Arriving.name \in names
    /\ \E h \in Range(up) : Arriving = Head(h.record.body) /\ h.record.key = server.decryption
    /\ up' \in Seq(ProperHalves) /\ Rising' \subseteq Rising
    /\ server.phase = phase /\ server' \in ProperServers
    /\ Served /\ UNCHANGED down

\* What it says besides, and how that counts.
Says(ms) ==
    /\ server'.flight = server.flight \o ms /\ ms \in Seq(ProperMessages)

FullNames == {"ServerHello", "Certificate", "ServerKeyExchange", "CertificateRequest", "ServerHelloDone"}

LEMMA ConsOf ==
    ASSUME NEW a, NEW b, NEW c, NEW d
    PROVE  <<a>> \o <<b, c, d>> = <<a, b, c, d>> /\ <<>> \o <<b, c, d>> = <<b, c, d>>
<1> DEFINE S == {a, b, c, d}
           s == <<a>>
           t == <<b, c, d>>
           u == <<a, b, c, d>>
<1>1. /\ s \in Seq(S) /\ t \in Seq(S) /\ u \in Seq(S) /\ Len(s) = 1 /\ Len(t) = 3 /\ Len(u) = 4
      /\ s[1] = a /\ t[1] = b /\ t[2] = c /\ t[3] = d
      /\ u[1] = a /\ u[2] = b /\ u[3] = c /\ u[4] = d
  OBVIOUS
<1> HIDE DEF S, s, t, u
<1>2. /\ s \o t \in Seq(S) /\ Len(s \o t) = 4
      /\ (s \o t)[1] = a /\ (s \o t)[2] = b /\ (s \o t)[3] = c /\ (s \o t)[4] = d
  <2>1. /\ s \o t \in Seq(S) /\ Len(s \o t) = Len(s) + Len(t)
        /\ \A i \in 1 .. Len(s) + Len(t) : (s \o t)[i] = IF i <= Len(s) THEN s[i] ELSE t[i - Len(s)]
    BY <1>1, ConcatProperties
  <2>2. \A i \in 1 .. 4 : (s \o t)[i] = IF i <= 1 THEN s[i] ELSE t[i - 1]
    BY <1>1, <2>1
  <2>3. /\ (s \o t)[1] = s[1] /\ (s \o t)[2] = t[1] /\ (s \o t)[3] = t[2] /\ (s \o t)[4] = t[3]
    <3> DEFINE f(i) == (s \o t)[i]
               g(i) == t[i]
    <3>1. \A i \in 1 .. 4 : f(i) = IF i <= 1 THEN s[i] ELSE g(i - 1)
      BY <2>2
    <3> HIDE DEF f, g
    <3>2. f(1) = s[1] /\ f(2) = g(2 - 1) /\ f(3) = g(3 - 1) /\ f(4) = g(4 - 1)
      BY <3>1
    <3>3. 2 - 1 = 1 /\ 3 - 1 = 2 /\ 4 - 1 = 3
      OBVIOUS
    <3>4. f(1) = s[1] /\ f(2) = g(1) /\ f(3) = g(2) /\ f(4) = g(3)
      BY <3>2, <3>3
    <3> QED BY <3>4 DEF f, g
  <2> QED BY <1>1, <2>1, <2>3
<1>3. \A i \in 1 .. 4 : (s \o t)[i] = u[i]
  BY <1>1, <1>2
<1>4. s \o t = u
  BY <1>1, <1>2, <1>3, SeqEqual
<1>5. <<>> \o t = t
  BY <1>1, ConcatEmptySeq
<1> QED BY <1>4, <1>5 DEF s, t, u

LEMMA AnsweredFull ==
    ASSUME TypeInv, AnswerFull
    PROVE  /\ Took("hello", {"ClientHello"})
           /\ server'.phase = "handshake" /\ server'.id \in {Nothing, conn}
           /\ server'.expects \in
                {<<"Certificate", "ClientKeyExchange", "ChangeCipherSpec", "Finished">>,
                 <<"ClientKeyExchange", "ChangeCipherSpec", "Finished">>}
           /\ server'.decryption = Advance(server.decryption)
           /\ UNCHANGED <<server.resume, server.secret, server.encryption, server.sent, server.got, server.ended>>
           /\ \E ms : /\ Says(ms)
                      /\ \A i \in DOMAIN ms :
                            ms[i].name \in FullNames /\ (ms[i].name = "ServerHello" => ms[i].id = server'.id)
           /\ UNCHANGED <<cache, faults, troubled>>
<1> DEFINE expects(asks) == (IF asks THEN <<"Certificate">> ELSE <<>>)
                            \o <<"ClientKeyExchange", "ChangeCipherSpec", "Finished">>
           ms(id, asks) == <<Message("ServerHello", id, <<>>), Message("Certificate", Nothing, <<>>),
                             Message("ServerKeyExchange", Nothing, <<>>)>>
                           \o (IF asks THEN <<Message("CertificateRequest", Nothing, <<>>)>> ELSE <<>>)
                           \o <<Message("ServerHelloDone", Nothing, <<>>)>>
           s(id, asks) == [Heard(Decrypted, Arriving) EXCEPT
                              !.phase = "handshake", !.id = id, !.expects = expects(asks)]
<1>1. /\ Arrives("hello", {"ClientHello"}) /\ UNCHANGED <<cache, conn, faults, troubled>>
      /\ \E id \in {Nothing, conn}, asks \in BOOLEAN : server' = Said(s(id, asks), ms(id, asks))
  BY DEF AnswerFull, count
<1>2. PICK id \in {Nothing, conn}, asks \in BOOLEAN : server' = Said(s(id, asks), ms(id, asks))
  BY <1>1
<1>3. /\ Arriving \in ProperMessages /\ Arriving.name = "ClientHello"
      /\ \E h \in Range(up) : Arriving = Head(h.record.body) /\ h.record.key = server.decryption
      /\ up' \in Seq(ProperHalves) /\ Rising' \subseteq Rising
      /\ Decrypted \in ProperServers
      /\ Decrypted = [server EXCEPT !.decryption = Advance(server.decryption)]
      /\ server.phase = "hello"
      /\ UNCHANGED <<context, session, caller, link, down>>
  BY <1>1, ArrivesOf
<1>4. id \in Numbers
  BY NothingOf DEF TypeInv
<1>5. /\ expects(asks) \in Seq(Names)
      /\ expects(asks) \in {<<"Certificate", "ClientKeyExchange", "ChangeCipherSpec", "Finished">>,
                            <<"ClientKeyExchange", "ChangeCipherSpec", "Finished">>}
  <2>1. CASE asks
    <3>1. expects(asks) = <<"Certificate", "ClientKeyExchange", "ChangeCipherSpec", "Finished">>
      BY <2>1, ConsOf
    <3>2. <<"Certificate", "ClientKeyExchange", "ChangeCipherSpec", "Finished">> \in Seq(Names)
      BY DEF Names
    <3> HIDE DEF expects
    <3> QED BY <3>1, <3>2
  <2>2. CASE ~asks
    <3>1. expects(asks) = <<"ClientKeyExchange", "ChangeCipherSpec", "Finished">>
      BY <2>2, ConsOf
    <3>2. <<"ClientKeyExchange", "ChangeCipherSpec", "Finished">> \in Seq(Names)
      BY DEF Names
    <3> HIDE DEF expects
    <3> QED BY <3>1, <3>2
  <2>3. asks \/ ~asks
    OBVIOUS
  <2> HIDE DEF expects
  <2> QED BY <2>1, <2>2, <2>3
<1> DEFINE Speeches == {m \in ProperMessages : m.name \in FullNames /\ (m.name = "ServerHello" => m.id = id)}
<1>6. ms(id, asks) \in Seq(Speeches)
  <2>1. /\ Message("ServerHello", id, <<>>) \in ProperMessages
        /\ Message("Certificate", Nothing, <<>>) \in ProperMessages
        /\ Message("ServerKeyExchange", Nothing, <<>>) \in ProperMessages
        /\ Message("CertificateRequest", Nothing, <<>>) \in ProperMessages
        /\ Message("ServerHelloDone", Nothing, <<>>) \in ProperMessages
    BY <1>4, NothingOf, BareOf DEF Names
  <2>2. /\ Message("ServerHello", id, <<>>) \in Speeches
        /\ Message("Certificate", Nothing, <<>>) \in Speeches
        /\ Message("ServerKeyExchange", Nothing, <<>>) \in Speeches
        /\ Message("CertificateRequest", Nothing, <<>>) \in Speeches
        /\ Message("ServerHelloDone", Nothing, <<>>) \in Speeches
    BY <2>1 DEF Message, FullNames
  <2> DEFINE a == Message("ServerHello", id, <<>>)
             b == Message("Certificate", Nothing, <<>>)
             c == Message("ServerKeyExchange", Nothing, <<>>)
             d == Message("CertificateRequest", Nothing, <<>>)
             e == Message("ServerHelloDone", Nothing, <<>>)
  <2> HIDE DEF a, b, c, d, e, Speeches
  <2>3. <<a, b, c>> \in Seq(Speeches) /\ <<d>> \in Seq(Speeches) /\ <<e>> \in Seq(Speeches)
        /\ <<>> \in Seq(Speeches)
    BY <2>2 DEF a, b, c, d, e
  <2>4. (<<a, b, c>> \o (IF asks THEN <<d>> ELSE <<>>)) \in Seq(Speeches)
    BY <2>3, ConcatOf
  <2>5. (<<a, b, c>> \o (IF asks THEN <<d>> ELSE <<>>)) \o <<e>> \in Seq(Speeches)
    BY <2>3, <2>4, ConcatOf
  <2> QED BY <2>5 DEF a, b, c, d, e
<1> DEFINE said == ms(id, asks)
           t == s(id, asks)
<1>7. /\ said \in Seq(ProperMessages)
      /\ \A i \in DOMAIN said : /\ said[i].name \in FullNames
                                /\ said[i].name = "ServerHello" => said[i].id = id
                                /\ said[i].name # "data"
  <2> HIDE DEF said
  <2>1. said \in Seq(Speeches)
    BY <1>6 DEF said
  <2>2. \A i \in DOMAIN said : said[i] \in Speeches
    BY <2>1
  <2>3. Len(said) \in Nat /\ said = [i \in 1 .. Len(said) |-> said[i]] /\ DOMAIN said = 1 .. Len(said)
    BY <2>1
  <2>4. said \in [1 .. Len(said) -> ProperMessages]
    BY <2>2, <2>3
  <2>5. said \in Seq(ProperMessages)
    BY <2>3, <2>4, SeqDef
  <2> QED BY <2>2, <2>5 DEF FullNames
<1>8. Heard(Decrypted, Arriving) \in ProperServers
      /\ Heard(Decrypted, Arriving)
           = [server EXCEPT !.decryption = Advance(server.decryption),
                            !.transcript = Heard(Decrypted, Arriving).transcript]
  <2> DEFINE e == Heard(Decrypted, Arriving)
  <2>1. /\ e \in ProperServers
        /\ e = [Decrypted EXCEPT !.transcript = Append(Decrypted.transcript, Hashed(Arriving))]
    BY <1>3, HeardOf
  <2> HIDE DEF e
  <2>2. e.transcript = Append(Decrypted.transcript, Hashed(Arriving))
    BY <1>3, <2>1 DEF ProperServers
  <2>3. e = [Decrypted EXCEPT !.transcript = e.transcript]
    BY <2>1, <2>2
  <2>4. e = [server EXCEPT !.decryption = Advance(server.decryption), !.transcript = e.transcript]
    BY <1>3, <2>3 DEF TypeInv, ProperServers
  <2> QED BY <2>1, <2>4 DEF e
<1>9. /\ t \in ProperServers
      /\ t = [server EXCEPT !.decryption = Advance(server.decryption), !.transcript = t.transcript,
                            !.phase = "handshake", !.id = id, !.expects = expects(asks)]
  BY <1>4, <1>5, <1>8 DEF TypeInv, ProperServers
<1> HIDE DEF said, t
<1>10. /\ Said(t, said) \in ProperServers
       /\ Said(t, said) = [t EXCEPT !.flight = t.flight \o said, !.transcript = Said(t, said).transcript]
  BY <1>7, <1>9, SaidOf
<1> HIDE DEF expects
<1>11. /\ t.phase = "handshake" /\ t.id = id /\ t.expects = expects(asks) /\ t.flight = server.flight
       /\ t.decryption = Advance(server.decryption)
       /\ t.resume = server.resume /\ t.secret = server.secret /\ t.encryption = server.encryption
       /\ t.sent = server.sent /\ t.got = server.got /\ t.ended = server.ended
  BY <1>9 DEF TypeInv, ProperServers
<1>12. server' = Said(t, said)
  BY <1>2 DEF s, t, said
<1>13. /\ server'.phase = t.phase /\ server'.id = t.id /\ server'.expects = t.expects
       /\ server'.flight = t.flight \o said
       /\ server'.decryption = t.decryption
       /\ server'.resume = t.resume /\ server'.secret = t.secret /\ server'.encryption = t.encryption
       /\ server'.sent = t.sent /\ server'.got = t.got /\ server'.ended = t.ended
  BY <1>9, <1>10, <1>12 DEF ProperServers
<1>14. Took("hello", {"ClientHello"})
  BY <1>1, <1>3, <1>10, <1>12 DEF Took, Served, caller
<1>15. \E m : /\ Says(m)
              /\ \A i \in DOMAIN m : m[i].name \in FullNames /\ (m[i].name = "ServerHello" => m[i].id = server'.id)
  BY <1>7, <1>11, <1>13 DEF Says
<1> QED BY <1>1, <1>5, <1>11, <1>13, <1>14, <1>15

LEMMA SingleOf ==
    ASSUME NEW S, NEW a \in S
    PROVE  <<a>> \in Seq(S) /\ Len(<<a>>) = 1 /\ <<a>>[1] = a /\ Range(<<a>>) = {a}
<1>1. <<a>> \in Seq(S) /\ Len(<<a>>) = 1 /\ <<a>>[1] = a /\ DOMAIN <<a>> = {1}
  OBVIOUS
<1>2. Range(<<a>>) = {a}
  BY <1>1 DEF Range
<1> QED BY <1>1, <1>2

LEMMA PairOf ==
    ASSUME NEW s \in Seq(ProperMessages), NEW a \in ProperMessages, NEW b \in ProperMessages
    PROVE  /\ <<a>> \o <<b>> \in Seq(ProperMessages) /\ Range(<<a>> \o <<b>>) = {a, b}
           /\ (s \o <<a>>) \o <<b>> = s \o (<<a>> \o <<b>>)
<1> DEFINE t == <<a>>
           u == <<b>>
<1>1. /\ t \in Seq(ProperMessages) /\ u \in Seq(ProperMessages)
      /\ Range(t) = {a} /\ Range(u) = {b}
  BY SingleOf
<1> HIDE DEF t, u
<1>2. t \o u \in Seq(ProperMessages) /\ Range(t \o u) = Range(t) \cup Range(u)
  BY <1>1, ConcatRange
<1>3. (s \o t) \o u = s \o (t \o u)
  BY <1>1, ConcatAssociative
<1> QED BY <1>1, <1>2, <1>3 DEF t, u

LEMMA DecryptedOf ==
    ASSUME TypeInv, NEW phase, NEW names, Arrives(phase, names), "data" \notin names
    PROVE  LET e == Heard(Decrypted, Arriving)
           IN /\ e \in ProperServers
              /\ e = [server EXCEPT !.decryption = Advance(server.decryption), !.transcript = e.transcript]
              /\ e.transcript = Append(server.transcript, Hashed(Arriving))
<1>1. /\ Arriving \in ProperMessages /\ Arriving.name # "data" /\ Decrypted \in ProperServers
      /\ Decrypted = [server EXCEPT !.decryption = Advance(server.decryption)]
  BY ArrivesOf
<1> DEFINE e == Heard(Decrypted, Arriving)
<1>2. /\ e \in ProperServers
      /\ e = [Decrypted EXCEPT !.transcript = Append(Decrypted.transcript, Hashed(Arriving))]
  BY <1>1, HeardOf
<1> HIDE DEF e
<1>3. e.transcript = Append(Decrypted.transcript, Hashed(Arriving))
      /\ Decrypted.transcript = server.transcript
  BY <1>1, <1>2 DEF ProperServers, TypeInv
<1>4. e = [Decrypted EXCEPT !.transcript = e.transcript]
  BY <1>2, <1>3
<1>5. e = [server EXCEPT !.decryption = Advance(server.decryption), !.transcript = e.transcript]
  BY <1>1, <1>4 DEF TypeInv, ProperServers
<1> QED BY <1>2, <1>3, <1>5 DEF e

LEMMA TookOf ==
    ASSUME TypeInv, NEW phase, NEW names, Arrives(phase, names), server' \in ProperServers, UNCHANGED conn
    PROVE  Took(phase, names)
  BY ArrivesOf DEF Took, Served, caller

LEMMA AnsweredResumed ==
    ASSUME TypeInv, AnswerResumed
    PROVE  /\ Took("hello", {"ClientHello"})
           /\ \E entry \in cache :
                entry[1] = Arriving.id /\ server'.id = entry[1] /\ server'.secret = entry[2]
           /\ server'.phase = "handshake" /\ server'.resume
           /\ server'.expects = <<"ChangeCipherSpec", "Finished">>
           /\ server'.decryption = Advance(server.decryption)
           /\ UNCHANGED <<server.encryption, server.sent, server.got, server.ended>>
           /\ \E ms, hash :
                /\ Says(ms) /\ hash \in Transcripts
                /\ server'.transcript = Append(hash, <<"Finished", server'.secret>>)
                /\ Range(ms) = {Message("ServerHello", server'.id, <<>>),
                                Message("ChangeCipherSpec", Nothing, <<>>),
                                Message("Finished", server'.secret, hash)}
           /\ UNCHANGED <<cache, faults, troubled>>
<1> DEFINE e == Heard(Decrypted, Arriving)
           r(entry) == [e EXCEPT !.phase = "handshake", !.resume = TRUE, !.id = entry[1],
                                 !.secret = entry[2], !.expects = <<"ChangeCipherSpec", "Finished">>]
           hello(entry) == Message("ServerHello", entry[1], <<>>)
           ccs == Message("ChangeCipherSpec", Nothing, <<>>)
<1>1. /\ Arrives("hello", {"ClientHello"}) /\ UNCHANGED <<cache, conn, faults, troubled>>
      /\ \E entry \in cache : /\ entry[1] = Arriving.id
                              /\ server' = FinishedFlight(Said(r(entry), <<hello(entry)>>))
  BY DEF AnswerResumed, count
<1>2. PICK entry \in cache : /\ entry[1] = Arriving.id
                             /\ server' = FinishedFlight(Said(r(entry), <<hello(entry)>>))
  BY <1>1
<1>3. entry[1] \in Numbers /\ entry[2] \in Numbers
  BY DEF TypeInv
<1>4. /\ e \in ProperServers
      /\ e = [server EXCEPT !.decryption = Advance(server.decryption), !.transcript = e.transcript]
  BY <1>1, DecryptedOf
<1> DEFINE t == r(entry)
           a == hello(entry)
           u == Said(t, <<a>>)
<1> HIDE DEF e
<1>5. <<"ChangeCipherSpec", "Finished">> \in Seq(Names)
  BY DEF Names
<1>6. /\ t \in ProperServers /\ t.phase = "handshake" /\ t.resume /\ t.id = entry[1] /\ t.secret = entry[2]
      /\ t.expects = <<"ChangeCipherSpec", "Finished">>
      /\ t.decryption = Advance(server.decryption) /\ t.flight = server.flight
      /\ t.encryption = server.encryption /\ t.sent = server.sent /\ t.got = server.got
      /\ t.ended = server.ended
  <2>1. t = [server EXCEPT !.decryption = Advance(server.decryption), !.transcript = e.transcript,
                           !.phase = "handshake", !.resume = TRUE, !.id = entry[1],
                           !.secret = entry[2], !.expects = <<"ChangeCipherSpec", "Finished">>]
    BY <1>4 DEF TypeInv, ProperServers
  <2>2. t \in ProperServers
    BY <1>3, <1>4, <1>5 DEF ProperServers
  <2> HIDE DEF t
  <2> QED BY <2>1, <2>2 DEF TypeInv, ProperServers
<1> HIDE DEF t
<1>7. a \in ProperMessages /\ a.name # "data" /\ ccs \in ProperMessages
  BY <1>3, BareOf, NothingOf DEF Names, Message
<1> HIDE DEF a, ccs
<1>8. <<a>> \in Seq(ProperMessages) /\ \A i \in DOMAIN <<a>> : <<a>>[i].name # "data"
  BY <1>7
<1>9. u \in ProperServers /\ u = [t EXCEPT !.flight = t.flight \o <<a>>, !.transcript = u.transcript]
  BY <1>6, <1>8, SaidOf
<1> HIDE DEF u
<1>10. /\ u.phase = "handshake" /\ u.resume /\ u.id = entry[1] /\ u.secret = entry[2]
       /\ u.expects = <<"ChangeCipherSpec", "Finished">>
       /\ u.decryption = Advance(server.decryption) /\ u.flight = server.flight \o <<a>>
       /\ u.encryption = server.encryption /\ u.sent = server.sent /\ u.got = server.got
       /\ u.ended = server.ended
       /\ u.transcript \in Transcripts
  BY <1>6, <1>9, ZenonT(40) DEF ProperServers
<1> DEFINE f == FinishedFlight(u)
           finished == Message("Finished", u.secret, u.transcript)
<1>11. /\ f \in ProperServers
       /\ f = [u EXCEPT !.flight = f.flight, !.transcript = Append(u.transcript, <<"Finished", u.secret>>)]
       /\ f.flight = (u.flight \o <<ccs>>) \o <<finished>>
  BY <1>9, FinishedFlightOf DEF ccs
<1>12. finished \in ProperMessages
  BY <1>9, MessageOf DEF Names, ProperServers
<1>13. server' = f
  BY <1>2 DEF u, t, a
<1> HIDE DEF f, finished
<1>14. /\ server'.phase = u.phase /\ server'.resume = u.resume /\ server'.id = u.id
       /\ server'.secret = u.secret /\ server'.expects = u.expects /\ server'.decryption = u.decryption
       /\ server'.encryption = u.encryption /\ server'.sent = u.sent /\ server'.got = u.got
       /\ server'.ended = u.ended
       /\ server'.transcript = Append(u.transcript, <<"Finished", u.secret>>)
  BY <1>9, <1>11, <1>13 DEF ProperServers
<1> DEFINE bc == <<ccs>> \o <<finished>>
           ms == <<a>> \o bc
<1>15. /\ bc \in Seq(ProperMessages) /\ Range(bc) = {ccs, finished}
       /\ f.flight = u.flight \o bc
  <2>1. u.flight \in Seq(ProperMessages)
    BY <1>9 DEF ProperServers
  <2> QED BY <1>7, <1>11, <1>12, <2>1, PairOf
<1> HIDE DEF bc
<1>16. /\ ms \in Seq(ProperMessages) /\ Range(ms) = {a, ccs, finished}
       /\ f.flight = server.flight \o ms
  <2> DEFINE one == <<a>>
  <2>1. Range(one) = {a} /\ one \in Seq(ProperMessages)
    BY <1>7, SingleOf
  <2> HIDE DEF one
  <2>5. one \in Seq(ProperMessages) /\ bc \in Seq(ProperMessages)
    BY <1>15, <2>1
  <2>4. one \o bc \in Seq(ProperMessages) /\ Range(one \o bc) = Range(one) \cup Range(bc)
    BY <2>5, ConcatRange
  <2>2. ms \in Seq(ProperMessages) /\ Range(ms) = {a, ccs, finished}
    BY <1>15, <2>1, <2>4, SMTT(30) DEF one
  <2>3. (server.flight \o <<a>>) \o bc = server.flight \o (<<a>> \o bc)
    BY <1>8, <1>15, ConcatAssociative, SMTT(30) DEF TypeInv, ProperServers
  <2> QED BY <1>10, <1>15, <2>2, <2>3
<1> HIDE DEF ms
<1>17. \E m, hash :
         /\ Says(m) /\ hash \in Transcripts
         /\ server'.transcript = Append(hash, <<"Finished", server'.secret>>)
         /\ Range(m) = {Message("ServerHello", server'.id, <<>>),
                        Message("ChangeCipherSpec", Nothing, <<>>),
                        Message("Finished", server'.secret, hash)}
  <2>1. /\ Says(ms) /\ u.transcript \in Transcripts
        /\ server'.transcript = Append(u.transcript, <<"Finished", server'.secret>>)
        /\ Range(ms) = {Message("ServerHello", server'.id, <<>>),
                        Message("ChangeCipherSpec", Nothing, <<>>),
                        Message("Finished", server'.secret, u.transcript)}
    BY <1>10, <1>13, <1>14, <1>16 DEF Says, a, ccs, finished
  <2> QED BY <2>1
<1>18. Took("hello", {"ClientHello"})
  BY <1>1, <1>11, <1>13, TookOf
<1> QED BY <1>1, <1>2, <1>10, <1>14, <1>17, <1>18, ZenonT(40)

LEMMA MessageTaken ==
    ASSUME TypeInv, TakeMessage
    PROVE  /\ Took("handshake", {"Certificate", "ClientKeyExchange", "CertificateVerify"})
           /\ InTurn(Arriving)
           /\ server'.expects = IF Arriving.name = "Certificate" /\ Arriving.id # Nothing
                 THEN <<"ClientKeyExchange", "CertificateVerify", "ChangeCipherSpec", "Finished">>
                 ELSE Tail(server.expects)
           /\ server'.secret = IF Arriving.name = "ClientKeyExchange" THEN Arriving.id ELSE server.secret
           /\ server'.decryption = Advance(server.decryption)
           /\ UNCHANGED <<server.phase, server.resume, server.id, server.flight, server.encryption,
                          server.sent, server.got, server.ended>>
           /\ UNCHANGED <<cache, faults, troubled>>
<1> DEFINE e == Heard(Decrypted, Arriving)
           names == {"Certificate", "ClientKeyExchange", "CertificateVerify"}
           expects == IF Arriving.name = "Certificate" /\ Arriving.id # Nothing
                 THEN <<"ClientKeyExchange", "CertificateVerify", "ChangeCipherSpec", "Finished">>
                 ELSE Tail(server.expects)
           secret == IF Arriving.name = "ClientKeyExchange" THEN Arriving.id ELSE server.secret
<1>1. /\ Arrives("handshake", names) /\ InTurn(Arriving)
      /\ UNCHANGED <<cache, conn, faults, troubled>>
      /\ server' = [e EXCEPT !.expects = IF Arriving.name = "Certificate" /\ Arriving.id # Nothing
                        THEN <<"ClientKeyExchange", "CertificateVerify", "ChangeCipherSpec", "Finished">>
                        ELSE Tail(e.expects),
                             !.secret = IF Arriving.name = "ClientKeyExchange" THEN Arriving.id ELSE e.secret]
  BY DEF TakeMessage, count
<1>2. /\ e \in ProperServers
      /\ e = [server EXCEPT !.decryption = Advance(server.decryption), !.transcript = e.transcript]
  BY <1>1, DecryptedOf
<1>3. Arriving \in ProperMessages /\ Arriving.name \in names /\ server.phase = "handshake"
  BY <1>1, ArrivesOf
<1> HIDE DEF e
<1>4. e.expects = server.expects /\ e.secret = server.secret
  BY <1>2 DEF TypeInv, ProperServers
<1>5. expects \in Seq(Names)
  <2>1. <<"ClientKeyExchange", "CertificateVerify", "ChangeCipherSpec", "Finished">> \in Seq(Names)
    BY DEF Names
  <2>2. Tail(server.expects) \in Seq(Names)
    BY <1>1, TailOf DEF InTurn, TypeInv, ProperServers
  <2> QED BY <2>1, <2>2
<1>6. secret \in Numbers
  BY <1>3 DEF TypeInv, ProperServers, ProperMessages
<1> HIDE DEF expects, secret
<1>7. server' = [e EXCEPT !.expects = expects, !.secret = secret]
  BY <1>1, <1>4 DEF expects, secret
<1>8. server' \in ProperServers /\ server'.expects = expects /\ server'.secret = secret
  BY <1>2, <1>5, <1>6, <1>7 DEF ProperServers
<1>9. server' = [server EXCEPT !.decryption = Advance(server.decryption), !.transcript = e.transcript,
                               !.expects = expects, !.secret = secret]
  BY <1>2, <1>7 DEF TypeInv, ProperServers
<1>10. /\ server'.decryption = Advance(server.decryption)
       /\ UNCHANGED <<server.phase, server.resume, server.id, server.flight, server.encryption,
                      server.sent, server.got, server.ended>>
  BY <1>9 DEF TypeInv, ProperServers
<1> QED BY <1>1, <1>8, <1>10, TookOf DEF expects, secret

LEMMA ChangeCipherSpecTaken ==
    ASSUME TypeInv, TakeChangeCipherSpec
    PROVE  /\ Took("handshake", {"ChangeCipherSpec"}) /\ InTurn(Arriving)
           /\ server'.expects = Tail(server.expects)
           /\ server'.decryption = Engine(server.secret)
           /\ UNCHANGED <<server.phase, server.resume, server.id, server.secret, server.transcript,
                          server.flight, server.encryption, server.sent, server.got, server.ended>>
           /\ UNCHANGED <<cache, faults, troubled>>
<1>1. /\ Arrives("handshake", {"ChangeCipherSpec"}) /\ InTurn(Arriving)
      /\ UNCHANGED <<cache, conn, faults, troubled>>
      /\ server' = [server EXCEPT !.decryption = Engine(server.secret), !.expects = Tail(server.expects)]
  BY DEF TakeChangeCipherSpec, count
<1>2. server \in ProperServers
  BY DEF TypeInv
<1>3. Tail(server.expects) \in Seq(Names) /\ Engine(server.secret) \in Engines
  BY <1>1, <1>2, TailOf, EngineOf DEF InTurn, ProperServers
<1>4. /\ server' \in ProperServers /\ server'.expects = Tail(server.expects)
      /\ server'.decryption = Engine(server.secret)
      /\ UNCHANGED <<server.phase, server.resume, server.id, server.secret, server.transcript,
                     server.flight, server.encryption, server.sent, server.got, server.ended>>
  BY <1>1, <1>2, <1>3 DEF ProperServers
<1> QED BY <1>1, <1>4, TookOf

LEMMA FinishedTaken ==
    ASSUME TypeInv, TakeFinished
    PROVE  /\ Took("handshake", {"Finished"}) /\ InTurn(Arriving)
           /\ server'.phase = "data"
           /\ server'.decryption = Advance(server.decryption)
           /\ UNCHANGED <<server.resume, server.id, server.secret, server.encryption,
                          server.sent, server.got, server.ended>>
           /\ server.resume => /\ server'.flight = server.flight
                               /\ server'.transcript = Append(server.transcript, Hashed(Arriving))
           /\ ~server.resume =>
                \E ms, hash :
                  /\ Says(ms)
                  /\ hash = Append(server.transcript, Hashed(Arriving))
                  /\ server'.transcript = Append(hash, <<"Finished", server.secret>>)
                  /\ Range(ms) = {Message("ChangeCipherSpec", Nothing, <<>>),
                                  Message("Finished", server.secret, hash)}
           /\ cache' = IF server.resume \/ server.id = Nothing THEN cache
                       ELSE cache \cup {<<server.id, server.secret>>}
           /\ UNCHANGED <<faults, troubled>>
<1> DEFINE e == Heard(Decrypted, Arriving)
           s == [e EXCEPT !.phase = "data", !.expects = <<>>]
           ccs == Message("ChangeCipherSpec", Nothing, <<>>)
<1>1. /\ Arrives("handshake", {"Finished"}) /\ InTurn(Arriving)
      /\ server' = IF s.resume THEN s ELSE FinishedFlight(s)
      /\ cache' = IF s.resume \/ s.id = Nothing THEN cache ELSE cache \cup {<<s.id, s.secret>>}
      /\ UNCHANGED <<conn, faults, troubled>>
  BY DEF TakeFinished, count
<1>2. /\ e \in ProperServers
      /\ e = [server EXCEPT !.decryption = Advance(server.decryption), !.transcript = e.transcript]
      /\ e.transcript = Append(server.transcript, Hashed(Arriving))
  BY <1>1, DecryptedOf
<1> HIDE DEF e
<1>3. /\ s \in ProperServers /\ s.phase = "data" /\ s.decryption = Advance(server.decryption)
      /\ s.resume = server.resume /\ s.id = server.id /\ s.secret = server.secret
      /\ s.encryption = server.encryption /\ s.sent = server.sent /\ s.got = server.got
      /\ s.ended = server.ended /\ s.flight = server.flight /\ s.transcript = e.transcript
      /\ s.transcript \in Transcripts
  <2>1. s = [server EXCEPT !.decryption = Advance(server.decryption), !.transcript = e.transcript,
                           !.phase = "data", !.expects = <<>>]
    BY <1>2 DEF TypeInv, ProperServers
  <2>2. s \in ProperServers
    <3>1. <<>> \in Seq(Names)
      OBVIOUS
    <3> QED BY <1>2, <3>1 DEF ProperServers
  <2> HIDE DEF s
  <2> QED BY <2>1, <2>2 DEF TypeInv, ProperServers
<1> HIDE DEF s
<1> DEFINE f == FinishedFlight(s)
           finished == Message("Finished", s.secret, s.transcript)
<1>4. /\ f \in ProperServers
      /\ f = [s EXCEPT !.flight = f.flight, !.transcript = Append(s.transcript, <<"Finished", s.secret>>)]
      /\ f.flight = (s.flight \o <<ccs>>) \o <<finished>>
  BY <1>3, FinishedFlightOf
<1>5. ccs \in ProperMessages /\ finished \in ProperMessages
  BY <1>3, BareOf, NothingOf, MessageOf DEF Names, ProperServers
<1> HIDE DEF f, finished, ccs
<1>6. /\ f.phase = s.phase /\ f.decryption = s.decryption /\ f.resume = s.resume /\ f.id = s.id
      /\ f.secret = s.secret /\ f.encryption = s.encryption /\ f.sent = s.sent /\ f.got = s.got
      /\ f.ended = s.ended /\ f.transcript = Append(s.transcript, <<"Finished", s.secret>>)
  BY <1>3, <1>4 DEF ProperServers
<1> DEFINE ms == <<ccs>> \o <<finished>>
<1>7. /\ ms \in Seq(ProperMessages) /\ Range(ms) = {ccs, finished} /\ f.flight = s.flight \o ms
  <2>1. s.flight \in Seq(ProperMessages)
    BY <1>3 DEF ProperServers
  <2> QED BY <1>4, <1>5, <2>1, PairOf
<1> HIDE DEF ms
<1>8. server' = IF s.resume THEN s ELSE f
  BY <1>1 DEF f
<1>9. server' \in ProperServers
  BY <1>3, <1>4, <1>8
<1>10. ASSUME ~server.resume
       PROVE  \E m, hash :
                  /\ Says(m)
                  /\ hash = Append(server.transcript, Hashed(Arriving))
                  /\ server'.transcript = Append(hash, <<"Finished", server.secret>>)
                  /\ Range(m) = {Message("ChangeCipherSpec", Nothing, <<>>),
                                 Message("Finished", server.secret, hash)}
  <2>1. server' = f
    BY <1>3, <1>8, <1>10
  <2>2. /\ Says(ms)
        /\ s.transcript = Append(server.transcript, Hashed(Arriving))
        /\ server'.transcript = Append(s.transcript, <<"Finished", server.secret>>)
        /\ Range(ms) = {Message("ChangeCipherSpec", Nothing, <<>>),
                        Message("Finished", server.secret, s.transcript)}
    BY <1>2, <1>3, <1>6, <1>7, <2>1 DEF Says, ccs, finished
  <2> QED BY <2>2
<1>11. server.resume => /\ server'.flight = server.flight
                        /\ server'.transcript = Append(server.transcript, Hashed(Arriving))
  BY <1>2, <1>3, <1>8
<1>12. /\ server'.phase = "data"
       /\ server'.decryption = Advance(server.decryption)
       /\ UNCHANGED <<server.resume, server.id, server.secret, server.encryption,
                      server.sent, server.got, server.ended>>
  BY <1>3, <1>6, <1>8
<1>13. Took("handshake", {"Finished"})
  BY <1>1, <1>9, TookOf
<1> QED BY <1>1, <1>3, <1>10, <1>11, <1>12, <1>13

LEMMA DataTaken ==
    ASSUME TypeInv, TakeData
    PROVE  /\ Took("data", {"data"})
           /\ server'.got = Append(server.got, Arriving.id)
           /\ server'.decryption = Advance(server.decryption)
           /\ UNCHANGED <<server.phase, server.resume, server.id, server.secret, server.expects,
                          server.transcript, server.flight, server.encryption, server.sent, server.ended>>
           /\ UNCHANGED <<cache, faults, troubled>>
<1>1. /\ Arrives("data", {"data"}) /\ UNCHANGED <<cache, conn, faults, troubled>>
      /\ server' = [Decrypted EXCEPT !.got = Append(Decrypted.got, Arriving.id)]
  BY DEF TakeData, count
<1>2. /\ Arriving \in ProperMessages /\ Arriving.name = "data" /\ Decrypted \in ProperServers
      /\ Decrypted = [server EXCEPT !.decryption = Advance(server.decryption)]
  BY <1>1, ArrivesOf
<1>3. server \in ProperServers /\ Decrypted.got = server.got
  BY <1>2 DEF TypeInv, ProperServers
<1>4. Append(server.got, Arriving.id) \in Seq(Data)
  BY <1>2, <1>3, AppendOf DEF ProperServers, ProperMessages
<1>5. server' \in ProperServers
  BY <1>1, <1>2, <1>3, <1>4 DEF ProperServers
<1>6. server' = [server EXCEPT !.decryption = Advance(server.decryption), !.got = Append(server.got, Arriving.id)]
  BY <1>1, <1>2, <1>3 DEF ProperServers
<1>7. /\ server'.got = Append(server.got, Arriving.id)
      /\ server'.decryption = Advance(server.decryption)
      /\ UNCHANGED <<server.phase, server.resume, server.id, server.secret, server.expects,
                     server.transcript, server.flight, server.encryption, server.sent, server.ended>>
  BY <1>3, <1>6 DEF ProperServers
<1> QED BY <1>1, <1>5, <1>7, TookOf

LEMMA AlertTaken ==
    ASSUME TypeInv, TakeAlert
    PROVE  /\ \E phase \in {"handshake", "data"} : Took(phase, {"close_notify", "fatal"})
           /\ server'.phase = "over" /\ server'.flight = <<>>
           /\ server'.ended = (Arriving.name = "close_notify")
           /\ UNCHANGED <<server.resume, server.id, server.secret, server.transcript,
                          server.encryption, server.sent, server.got>>
           /\ cache' \subseteq cache
           /\ UNCHANGED <<faults, troubled>>
<1>1. PICK phase \in {"handshake", "data"} : Arrives(phase, {"close_notify", "fatal"})
  BY DEF TakeAlert
<1>2. /\ server' = [Ended(Decrypted) EXCEPT !.ended = (Arriving.name = "close_notify")]
      /\ cache' \subseteq cache /\ UNCHANGED <<conn, faults, troubled>>
  BY DEF TakeAlert, Forget, count
<1>3. /\ Decrypted \in ProperServers
      /\ Decrypted = [server EXCEPT !.decryption = Advance(server.decryption)]
  BY <1>1, ArrivesOf
<1>4. server \in ProperServers
  BY DEF TypeInv
<1>5. server' = [server EXCEPT !.decryption = Advance(server.decryption), !.phase = "over", !.flight = <<>>,
                               !.ended = (Arriving.name = "close_notify")]
  BY <1>2, <1>3, <1>4 DEF Ended, ProperServers
<1>6. <<>> \in Seq(ProperMessages) /\ Advance(server.decryption) \in Engines
  BY <1>4, AdvanceOf DEF ProperServers
<1>7. /\ server' \in ProperServers /\ server'.phase = "over" /\ server'.flight = <<>>
      /\ server'.ended = (Arriving.name = "close_notify")
      /\ UNCHANGED <<server.resume, server.id, server.secret, server.transcript,
                     server.encryption, server.sent, server.got>>
  BY <1>4, <1>5, <1>6 DEF ProperServers
<1> QED BY <1>1, <1>2, <1>7, TookOf

\* The server gives the connection up with a fatal alert.
Fatal == Message("fatal", Nothing, <<>>)

LEMMA EndedOf ==
    ASSUME NEW s \in ProperServers
    PROVE  /\ Ended(s) \in ProperServers /\ Ended(s).phase = "over" /\ Ended(s).flight = <<>>
           /\ Ended(s).resume = s.resume /\ Ended(s).id = s.id /\ Ended(s).secret = s.secret
           /\ Ended(s).transcript = s.transcript /\ Ended(s).sent = s.sent /\ Ended(s).got = s.got
           /\ Ended(s).ended = s.ended /\ Ended(s).encryption = s.encryption
<1>1. <<>> \in Seq(ProperMessages)
  OBVIOUS
<1> QED BY <1>1 DEF Ended, ProperServers

LEMMA ServerGaveUp ==
    ASSUME TypeInv, NEW s \in ProperServers, NEW m \in ProperMessages, server' = Sends(Ended(s), <<m>>)
    PROVE  /\ server' \in ProperServers /\ server'.phase = "over" /\ server'.flight = <<m>>
           /\ server'.resume = s.resume /\ server'.id = s.id /\ server'.secret = s.secret
           /\ server'.transcript = s.transcript /\ server'.sent = s.sent /\ server'.got = s.got
           /\ server'.ended = s.ended
<1> DEFINE e == Ended(s)
<1>1. /\ e \in ProperServers /\ e.phase = "over" /\ e.flight = <<>>
      /\ e.resume = s.resume /\ e.id = s.id /\ e.secret = s.secret
      /\ e.transcript = s.transcript /\ e.sent = s.sent /\ e.got = s.got
      /\ e.ended = s.ended
  BY EndedOf
<1> HIDE DEF e
<1>2. server' \in ProperServers /\ server' = [e EXCEPT !.flight = e.flight \o <<m>>]
  BY <1>1, SendsOf DEF e
<1>3. e.flight \o <<m>> = <<m>>
  <2> DEFINE t == <<m>>
  <2>1. t \in Seq(ProperMessages)
    BY SingleOf
  <2> HIDE DEF t
  <2>2. <<>> \o t = t
    BY <2>1, ConcatEmptySeq
  <2> QED BY <1>1, <2>2 DEF t
<1> QED BY <1>1, <1>2, <1>3 DEF ProperServers

LEMMA Rejected ==
    ASSUME TypeInv, Reject
    PROVE  /\ Took("hello", {"ClientHello"})
           /\ server'.phase = "over" /\ server'.flight = <<Fatal>>
           /\ UNCHANGED <<server.resume, server.id, server.secret, server.transcript, server.sent, server.got,
                          server.ended>>
           /\ cache' = cache /\ faults' \in 0 .. MaxFaults /\ troubled' \in BOOLEAN
<1>1. /\ Arrives("hello", {"ClientHello"}) /\ Fault /\ cache' = cache
      /\ server' = Sends(Ended(Decrypted), <<Fatal>>)
  BY DEF Reject, Fatal
<1>2. /\ Decrypted \in ProperServers
      /\ Decrypted = [server EXCEPT !.decryption = Advance(server.decryption)]
  BY <1>1, ArrivesOf
<1>3. /\ server' \in ProperServers /\ server'.phase = "over" /\ server'.flight = <<Fatal>>
      /\ server'.resume = Decrypted.resume /\ server'.id = Decrypted.id /\ server'.secret = Decrypted.secret
      /\ server'.transcript = Decrypted.transcript /\ server'.sent = Decrypted.sent
      /\ server'.got = Decrypted.got /\ server'.ended = Decrypted.ended
  BY <1>1, <1>2, FatalOf, ServerGaveUp DEF Fatal
<1>4. UNCHANGED <<server.resume, server.id, server.secret, server.transcript, server.sent, server.got,
                  server.ended>>
  BY <1>2, <1>3 DEF TypeInv, ProperServers
<1>5. faults' \in 0 .. MaxFaults /\ troubled' \in BOOLEAN /\ UNCHANGED conn
  BY <1>1, TlsAssumption DEF Fault, TypeInv
<1> QED BY <1>1, <1>3, <1>4, <1>5, TookOf

LEMMA ServerRefused ==
    ASSUME TypeInv, ServerRefuses
    PROVE  /\ up' \in Seq(ProperHalves) /\ Rising' \subseteq Rising
           /\ server.phase # "over"
           /\ server' \in ProperServers /\ server'.phase = "over" /\ server'.flight = <<Fatal>>
           /\ UNCHANGED <<server.resume, server.id, server.secret, server.transcript, server.sent, server.got,
                          server.ended>>
           /\ cache' \subseteq cache
           /\ Served /\ UNCHANGED <<down, faults, troubled>>
<1>1. /\ up' = Drop(up, 2) /\ Len(up) > 1 /\ server' = Sends(Ended(server), <<Fatal>>)
      /\ cache' \subseteq cache /\ UNCHANGED <<context, session, caller, link, down, count>>
      /\ server.phase # "over"
  BY DEF ServerRefuses, Forget, Fatal
<1>2. server \in ProperServers /\ up \in Seq(ProperHalves)
  BY DEF TypeInv
<1>3. /\ server' \in ProperServers /\ server'.phase = "over" /\ server'.flight = <<Fatal>>
      /\ UNCHANGED <<server.resume, server.id, server.secret, server.transcript, server.sent, server.got,
                     server.ended>>
  BY <1>1, <1>2, FatalOf, ServerGaveUp DEF Fatal
<1>4. up' \in Seq(ProperHalves) /\ Range(up') \subseteq Range(up)
  BY <1>1, <1>2, DropOf
<1> QED BY <1>1, <1>3, <1>4 DEF Rising, Served, caller, count

LEMMA CloseNotifySaid ==
    ASSUME TypeInv, CloseNotify
    PROVE  /\ server.phase = "data" /\ server.flight = <<>>
           /\ server' \in ProperServers /\ server'.phase = "over"
           /\ server'.flight = <<Message("close_notify", Nothing, <<>>)>>
           /\ UNCHANGED <<server.resume, server.id, server.secret, server.transcript, server.sent, server.got,
                          server.ended>>
           /\ Served /\ UNCHANGED <<up, down, cache, faults, troubled>>
<1>1. /\ server' = Sends(Ended(server), <<Message("close_notify", Nothing, <<>>)>>)
      /\ Talking /\ UNCHANGED <<context, session, caller, net, cache, count>>
  BY DEF CloseNotify
<1>2. server \in ProperServers /\ Message("close_notify", Nothing, <<>>) \in ProperMessages
  BY BareOf, NothingOf DEF TypeInv, Names
<1>3. /\ server' \in ProperServers /\ server'.phase = "over"
      /\ server'.flight = <<Message("close_notify", Nothing, <<>>)>>
      /\ UNCHANGED <<server.resume, server.id, server.secret, server.transcript, server.sent, server.got,
                     server.ended>>
  BY <1>1, <1>2, ServerGaveUp
<1> QED BY <1>1, <1>3 DEF Talking, Served, caller, net, count

LEMMA AskedAgain ==
    ASSUME TypeInv, AskAgain
    PROVE  /\ server.phase \in {"handshake", "data"}
           /\ server' \in ProperServers
           /\ server'.flight = server.flight \o <<Message("HelloRequest", Nothing, <<>>)>>
           /\ UNCHANGED <<server.phase, server.resume, server.id, server.secret, server.expects,
                          server.transcript, server.decryption, server.sent, server.got, server.ended>>
           /\ Served /\ UNCHANGED <<up, down, cache>>
           /\ faults' \in 0 .. MaxFaults /\ troubled' \in BOOLEAN
<1> DEFINE m == Message("HelloRequest", Nothing, <<>>)
<1>1. /\ server' = Sends(server, <<m>>) /\ Fault /\ server.phase \in {"handshake", "data"}
      /\ UNCHANGED <<context, session, caller, net, cache>>
  BY DEF AskAgain
<1>2. server \in ProperServers /\ m \in ProperMessages
  BY BareOf, NothingOf DEF TypeInv, Names
<1> HIDE DEF m
<1>3. server' \in ProperServers /\ server' = [server EXCEPT !.flight = server.flight \o <<m>>]
  BY <1>1, <1>2, SendsOf
<1>4. /\ server'.flight = server.flight \o <<m>>
      /\ UNCHANGED <<server.phase, server.resume, server.id, server.secret, server.expects,
                     server.transcript, server.decryption, server.sent, server.got, server.ended>>
  BY <1>2, <1>3 DEF ProperServers
<1>5. faults' \in 0 .. MaxFaults /\ troubled' \in BOOLEAN /\ UNCHANGED conn
  BY <1>1, TlsAssumption DEF Fault, TypeInv
<1> QED BY <1>1, <1>3, <1>4, <1>5 DEF Served, caller, net, m

LEMMA WasReset ==
    ASSUME TypeInv, Reset
    PROVE  /\ server' \in ProperServers /\ server'.phase = "over" /\ server'.flight = <<>>
           /\ UNCHANGED <<server.resume, server.id, server.secret, server.transcript, server.sent, server.got,
                          server.ended>>
           /\ link \in {"open", "ended"} /\ link' = "reset" /\ up' = <<>> /\ down' = <<>>
           /\ UNCHANGED <<context, session, call, todo, written, got, cache, conn>>
           /\ faults' \in 0 .. MaxFaults /\ troubled' \in BOOLEAN
<1>1. server \in ProperServers
  BY DEF TypeInv
<1>2. /\ server' \in ProperServers /\ server'.phase = "over" /\ server'.flight = <<>>
      /\ UNCHANGED <<server.resume, server.id, server.secret, server.transcript, server.sent, server.got,
                     server.ended>>
  BY <1>1, EndedOf DEF Reset
<1>3. faults' \in 0 .. MaxFaults /\ troubled' \in BOOLEAN /\ UNCHANGED conn
  BY TlsAssumption DEF Reset, Fault, TypeInv
<1> QED BY <1>2, <1>3 DEF Reset, caller

LEMMA DamagedOf ==
    ASSUME NEW halves \in Seq(ProperHalves), Damageable(halves)
    PROVE  /\ Damaged(halves) \in Seq(ProperHalves) /\ Len(Damaged(halves)) = Len(halves)
           /\ Len(halves) > 0 /\ halves[1].half = 1 /\ Damaged(halves)[1].half = 0
           /\ \A i \in DOMAIN halves : Damaged(halves)[i].record = halves[i].record
           /\ \A i \in DOMAIN halves : i > 1 => Damaged(halves)[i] = halves[i]
           /\ \A h \in Range(Damaged(halves)) : \E g \in Range(halves) : h.record = g.record
<1>1. /\ halves # <<>> /\ Head(halves) = halves[1] /\ halves[1] \in ProperHalves /\ halves[1].half = 1
      /\ Len(halves) > 0 /\ 1 \in 1 .. Len(halves)
  BY DEF Damageable
<1> DEFINE e == [halves[1] EXCEPT !.half = 0]
<1>2. e \in ProperHalves /\ e.record = halves[1].record /\ e.half = 0
  BY <1>1 DEF ProperHalves
<1>3. Damaged(halves) = [halves EXCEPT ![1] = e]
  BY DEF Damaged
<1> HIDE DEF e
<1>4. /\ [halves EXCEPT ![1] = e] \in Seq(ProperHalves)
      /\ Len([halves EXCEPT ![1] = e]) = Len(halves)
      /\ \A j \in 1 .. Len(halves) : [halves EXCEPT ![1] = e][j] = IF j = 1 THEN e ELSE halves[j]
  BY <1>1, <1>2, ExceptSeq
<1> DEFINE d == Damaged(halves)
<1>5. /\ d \in Seq(ProperHalves) /\ Len(d) = Len(halves) /\ d[1].half = 0
      /\ \A i \in 1 .. Len(halves) : d[i].record = halves[i].record
      /\ \A i \in 1 .. Len(halves) : i > 1 => d[i] = halves[i]
  BY <1>1, <1>2, <1>3, <1>4
<1> HIDE DEF d
<1>6. \A h \in Range(d) : \E g \in Range(halves) : h.record = g.record
  BY <1>5 DEF Range
<1> QED BY <1>1, <1>5, <1>6 DEF d

LEMMA DataSent ==
    ASSUME TypeInv, SendData
    PROVE  LET b == Bound(MaxSent)
           IN /\ server.phase = "data" /\ server.flight = <<>> /\ server.sent = 0
              /\ server' \in ProperServers /\ server'.sent = b /\ b \in Nat /\ 1 .. b \subseteq Data
              /\ server'.flight = [i \in 1 .. b |-> Message("data", i, <<>>)]
              /\ UNCHANGED <<server.phase, server.resume, server.id, server.secret, server.expects,
                             server.transcript, server.decryption, server.got, server.ended>>
              /\ Served /\ UNCHANGED <<up, down, cache, faults, troubled>>
<1> DEFINE b == Bound(MaxSent)
           ms == [i \in 1 .. b |-> Message("data", i, <<>>)]
<1>1. /\ Talking /\ server.sent = 0
      /\ server' = Sends([server EXCEPT !.sent = b], ms)
      /\ UNCHANGED <<context, session, caller, net, cache, count>>
  BY DEF SendData
<1>2. b \in Nat /\ b \in 0 .. MaxSent \cup {1} /\ 1 .. b \subseteq Data
  BY TlsAssumption DEF Bound, Data
<1>3. \A i \in 1 .. b : Message("data", i, <<>>) \in ProperMessages
  <2>1. <<>> \in Transcripts
    BY DEF Transcripts
  <2> QED BY <1>2, <2>1, MessageOf DEF Names
<1> HIDE DEF b
<1>4. ms \in [1 .. b -> ProperMessages]
  BY <1>3
<1> HIDE DEF ms
<1>5. ms \in Seq(ProperMessages)
  BY <1>2, <1>4, SeqDef
<1>6. server \in ProperServers /\ server.flight = <<>>
  BY <1>1 DEF TypeInv, Talking
<1>7. server.flight \o ms = ms
  BY <1>5, <1>6, ConcatEmptySeq
<1>8. server' = [server EXCEPT !.sent = b, !.flight = ms]
  BY <1>1, <1>6, <1>7 DEF Sends, ProperServers
<1>9. /\ server' \in ProperServers /\ server'.sent = b /\ server'.flight = ms
      /\ UNCHANGED <<server.phase, server.resume, server.id, server.secret, server.expects,
                     server.transcript, server.decryption, server.got, server.ended>>
  BY <1>2, <1>5, <1>6, <1>8 DEF ProperServers
<1> QED BY <1>1, <1>2, <1>9 DEF Talking, Served, caller, net, count, b, ms

\* What one message and another say is the same.
Alike(m, n) == m.name = n.name /\ m.id = n.id /\ m.hash = n.hash

LEMMA AlikeOf ==
    ASSUME NEW m \in ProperMessages, NEW part \in {"all", "head", "tail"}
    PROVE  [m EXCEPT !.part = part] \in ProperMessages /\ Alike([m EXCEPT !.part = part], m)
  BY DEF ProperMessages, Messages, Alike

\* Of what the server has to say, the first n messages are in the record, the last of
\* which may be there in part.
Dispatched(n, body) ==
    /\ n \in 1 .. Len(server.flight) /\ body \in Bodies /\ Len(body) = n
    /\ \A i \in 1 .. n : Alike(body[i], server.flight[i]) /\ Kind(server.flight[i]) = Kind(server.flight[n])
    /\ n # 1 => Kind(server.flight[n]) \in {"handshake", "application_data"}
    /\ down' = down \o Halves(Record(body, server.encryption))
    /\ \/ server'.flight = Drop(server.flight, n)
       \/ \E tail \in ProperMessages :
            /\ server'.flight = <<tail>> \o Drop(server.flight, n)
            /\ Alike(tail, server.flight[n]) /\ Kind(server.flight[n]) = "handshake"

LEMMA ServerSent ==
    ASSUME TypeInv, ServerSends
    PROVE  /\ \E n, body : Dispatched(n, body)
           /\ server.flight # <<>> /\ link = "open"
           /\ server' \in ProperServers /\ down' \in Seq(ProperHalves)
           /\ UNCHANGED <<server.phase, server.resume, server.id, server.secret, server.expects,
                          server.transcript, server.decryption, server.sent, server.got, server.ended>>
           /\ Served /\ UNCHANGED <<up, cache, faults, troubled>>
<1> DEFINE flight == server.flight
<1>1. PICK n \in {1, Len(flight)}, cut \in BOOLEAN :
           LET body == SubSeq(flight, 1, n)
               last == flight[n]
               rest == Drop(flight, n)
               key == IF last.name = "ChangeCipherSpec" THEN Engine(server.secret)
                      ELSE Advance(server.encryption)
           IN /\ \A i \in 1 .. n : Kind(body[i]) = Kind(last)
              /\ n # 1 => Kind(last) \in {"handshake", "application_data"}
              /\ cut => last.part = "all" /\ Kind(last) = "handshake"
              /\ down' = down \o Halves(Record(IF cut THEN [body EXCEPT ![n].part = "head"] ELSE body,
                                               server.encryption))
              /\ server' = [server EXCEPT !.encryption = key,
                     !.flight = IF cut THEN <<[last EXCEPT !.part = "tail"]>> \o rest ELSE rest]
  BY DEF ServerSends
<1>2. /\ server \in ProperServers /\ flight \in Seq(ProperMessages) /\ flight # <<>>
      /\ server.encryption \in Engines /\ server.secret \in Numbers
      /\ link = "open" /\ UNCHANGED <<context, session, caller, link, up, cache, count>>
  BY DEF TypeInv, ServerSends, ProperServers
<1>3. n \in 1 .. Len(flight)
  BY <1>2
<1> DEFINE front == SubSeq(flight, 1, n)
           last == flight[n]
           rest == Drop(flight, n)
           key == IF last.name = "ChangeCipherSpec" THEN Engine(server.secret) ELSE Advance(server.encryption)
           body == IF cut THEN [front EXCEPT ![n].part = "head"] ELSE front
           after == IF cut THEN <<[last EXCEPT !.part = "tail"]>> \o rest ELSE rest
<1> HIDE DEF flight
<1>4. /\ front \in Seq(ProperMessages) /\ Len(front) = n
      /\ \A i \in 1 .. n : front[i] = flight[i]
  BY <1>2, <1>3, FrontOf
<1>5. rest \in Seq(ProperMessages) /\ last \in ProperMessages
  BY <1>2, <1>3, DropOf
<1>6. /\ \A i \in 1 .. n : Kind(front[i]) = Kind(last)
      /\ n # 1 => Kind(last) \in {"handshake", "application_data"}
      /\ cut => last.part = "all" /\ Kind(last) = "handshake"
      /\ down' = down \o Halves(Record(body, server.encryption))
      /\ server' = [server EXCEPT !.encryption = key, !.flight = after]
  BY <1>1
<1>7. key \in Engines
  BY <1>2, EngineOf, AdvanceOf
<1> DEFINE first == [last EXCEPT !.part = "head"]
           tail == [last EXCEPT !.part = "tail"]
<1>8. /\ first \in ProperMessages /\ Alike(first, last)
      /\ tail \in ProperMessages /\ Alike(tail, last)
  BY <1>5, AlikeOf
<1>9. front[n] = last /\ n \in Nat
  BY <1>3, <1>4
<1> HIDE DEF front, rest, last, key
<1>10. [front EXCEPT ![n].part = "head"] = [front EXCEPT ![n] = first]
  BY <1>9
<1> HIDE DEF first, tail
<1>11. /\ [front EXCEPT ![n] = first] \in Seq(ProperMessages) /\ Len([front EXCEPT ![n] = first]) = n
       /\ \A j \in 1 .. n : [front EXCEPT ![n] = first][j] = IF j = n THEN first ELSE front[j]
  BY <1>3, <1>4, <1>8, ExceptSeq
<1>12. /\ body \in Seq(ProperMessages) /\ Len(body) = n
       /\ \A i \in 1 .. n : Alike(body[i], flight[i])
  <2>1. CASE cut
    BY <1>4, <1>8, <1>9, <1>10, <1>11, <2>1 DEF Alike
  <2>2. CASE ~cut
    BY <1>4, <2>2 DEF Alike
  <2> QED BY <2>1, <2>2
<1> HIDE DEF body
<1>13. body \in Bodies
  BY <1>3, <1>12 DEF Bodies
<1>14. after \in Seq(ProperMessages)
  <2> DEFINE t == <<tail>>
  <2>1. t \in Seq(ProperMessages)
    BY <1>8, SingleOf
  <2>2. t \o rest \in Seq(ProperMessages)
    <3> HIDE DEF t
    <3> QED BY <2>1, <1>5, ConcatOf
  <2>3. after = IF cut THEN t \o rest ELSE rest
    BY DEF tail
  <2> HIDE DEF t, after
  <2> QED BY <1>5, <2>2, <2>3
<1>15. after = rest \/ (cut /\ after = <<tail>> \o rest)
  BY DEF tail
<1> HIDE DEF after
<1>16. /\ server' \in ProperServers /\ server'.flight = after
       /\ UNCHANGED <<server.phase, server.resume, server.id, server.secret, server.expects,
                      server.transcript, server.decryption, server.sent, server.got, server.ended>>
  BY <1>2, <1>6, <1>7, <1>14 DEF ProperServers
<1>17. down' \in Seq(ProperHalves)
  <2> DEFINE halves == Halves(Record(body, server.encryption))
  <2>1. halves \in Seq(ProperHalves)
    BY <1>2, <1>13, HalvesOf
  <2> HIDE DEF halves
  <2>2. down \in Seq(ProperHalves) /\ down' = down \o halves
    BY <1>6 DEF TypeInv, halves
  <2> QED BY <2>1, <2>2, ConcatOf
<1>18. Dispatched(n, body)
  <2>1. \/ server'.flight = Drop(server.flight, n)
        \/ \E t \in ProperMessages :
             /\ server'.flight = <<t>> \o Drop(server.flight, n)
             /\ Alike(t, server.flight[n]) /\ Kind(server.flight[n]) = "handshake"
    BY <1>6, <1>8, <1>15, <1>16 DEF rest, flight, last
  <2> QED BY <1>3, <1>4, <1>6, <1>9, <1>12, <1>13, <2>1 DEF Dispatched, flight, last
<1> QED BY <1>2, <1>16, <1>17, <1>18 DEF Served, caller, count, flight

LEMMA ServerType ==
    ASSUME TypeInv, ServerStep \/ SendData \/ CloseNotify
    PROVE  TypeInv'
<1>1. ASSUME Served, server' \in ProperServers, UNCHANGED <<faults, troubled>>,
             up' \in Seq(ProperHalves), down' \in Seq(ProperHalves), cache' \subseteq Numbers \X Numbers
      PROVE  TypeInv'
  BY <1>1 DEF Served, TypeInv
<1>2. up \in Seq(ProperHalves) /\ down \in Seq(ProperHalves) /\ cache \subseteq Numbers \X Numbers
  BY DEF TypeInv
<1>3. CASE AnswerFull
  BY <1>1, <1>2, <1>3, AnsweredFull DEF Took
<1>4. CASE AnswerResumed
  BY <1>1, <1>2, <1>4, AnsweredResumed DEF Took
<1>5. CASE TakeMessage
  BY <1>1, <1>2, <1>5, MessageTaken DEF Took
<1>6. CASE TakeChangeCipherSpec
  BY <1>1, <1>2, <1>6, ChangeCipherSpecTaken DEF Took
<1>7. CASE TakeFinished
  <2>1. server.id \in Numbers /\ server.secret \in Numbers
    BY DEF TypeInv, ProperServers
  <2>2. cache' \subseteq Numbers \X Numbers
    BY <1>2, <1>7, <2>1, FinishedTaken
  <2> QED BY <1>1, <1>2, <1>7, <2>2, FinishedTaken DEF Took
<1>8. CASE TakeData
  BY <1>1, <1>2, <1>8, DataTaken DEF Took
<1>9. CASE TakeAlert
  BY <1>1, <1>2, <1>9, AlertTaken DEF Took
<1>10. CASE ServerRefuses
  BY <1>1, <1>2, <1>10, ServerRefused
<1>11. CASE ServerSends
  BY <1>1, <1>2, <1>11, ServerSent
<1>12. CASE ServerEnds
  BY <1>12 DEF ServerEnds, TypeInv, Links, caller, world, count
<1>13. CASE SendData
  BY <1>1, <1>2, <1>13, DataSent
<1>14. CASE CloseNotify
  BY <1>1, <1>2, <1>14, CloseNotifySaid
<1> QED BY <1>3, <1>4, <1>5, <1>6, <1>7, <1>8, <1>9, <1>10, <1>11, <1>12, <1>13, <1>14 DEF ServerStep

LEMMA TroubleType ==
    ASSUME TypeInv, CallInv, Trouble
    PROVE  TypeInv'
<1>1. ASSUME Served, server' \in ProperServers, faults' \in 0 .. MaxFaults, troubled' \in BOOLEAN,
             up' \in Seq(ProperHalves), down' \in Seq(ProperHalves), cache' = cache
      PROVE  TypeInv'
  BY <1>1 DEF Served, TypeInv
<1>2. up \in Seq(ProperHalves) /\ down \in Seq(ProperHalves)
  BY DEF TypeInv
<1>3. Fault => faults' \in 0 .. MaxFaults /\ troubled' \in BOOLEAN /\ UNCHANGED conn
  BY TlsAssumption DEF Fault, TypeInv
<1>4. CASE Reject
  BY <1>1, <1>2, <1>4, Rejected DEF Took
<1>5. CASE AskAgain
  BY <1>1, <1>2, <1>5, AskedAgain
<1>6. CASE Reset
  <2>1. up' \in Seq(ProperHalves) /\ down' \in Seq(ProperHalves)
    BY <1>6 DEF Reset
  <2> QED BY <1>6, <2>1, WasReset DEF TypeInv, Links
<1>7. CASE Damage
  <2>1. up' \in Seq(ProperHalves) /\ down' \in Seq(ProperHalves)
    BY <1>2, <1>7, DamagedOf DEF Damage
  <2> QED BY <1>3, <1>7, <2>1 DEF Damage, TypeInv, caller, world
<1>8. CASE ElementFails
  <2>1. Refused
    BY <1>8, ElementRefused
  <2>2. Fault
    BY <1>8 DEF ElementFails
  <2> QED BY <1>3, <2>1, <2>2 DEF Refused, TypeInv, Calls
<1>9. CASE ConnectTimeout
  BY <1>3, <1>9 DEF ConnectTimeout, TypeInv, Calls, net, world
<1> QED BY <1>4, <1>5, <1>6, <1>7, <1>8, <1>9 DEF Trouble

LEMMA TypeStep ==
    ASSUME TypeInv, CallInv, ShapeInv, [Next]_vars
    PROVE  TypeInv'
<1>1. CASE UNCHANGED vars
  BY <1>1 DEF vars, TypeInv
<1> QED BY <1>1, HandshakeType, RecordType, CallerType, ServerType, TroubleType DEF Next

-----------------------------------------------------------------------------
(* The calls *)

LEMMA CallKept ==
    ASSUME CallInv, link # "none", link' # "none",
           UNCHANGED <<call, todo, written, conn, context.state, context.tx, context.fatalAlert,
                       context.closeNotifySent>>
    PROVE  CallInv'
  BY DEF CallInv, Bound

LEMMA CallAfterFailure ==
    ASSUME CallInv, link # "none", link' # "none", call' = "failed",
           UNCHANGED <<written, conn, context.state, context.fatalAlert>>
    PROVE  CallInv'
  BY DEF CallInv, Last

LEMMA CallAfterServer ==
    ASSUME CallInv, Served, link # "none"
    PROVE  CallInv'
  BY CallKept DEF Served

LEMMA TookLinked ==
    ASSUME CallInv, NEW phase, NEW names, Took(phase, names)
    PROVE  link # "none"
<1>1. up # <<>>
  BY DEF Took, Range
<1> QED BY <1>1 DEF CallInv

LEMMA PhaseLinked ==
    ASSUME CallInv, server.phase # "hello" \/ server.flight # <<>> \/ up # <<>> \/ down # <<>>
    PROVE  link # "none"
  BY DEF CallInv, ServerInit

\* Nothing of the client is pending when it takes what it has received.
LEMMA ReadyState ==
    ASSUME CallInv, Ready \/ Reading
    PROVE  /\ \/ call = "connect" /\ context.state \in ServerStates
              \/ call = "read" /\ context.state = "APPLICATION_DATA"
           /\ context.tx = <<>> /\ link # "none" /\ Live
           /\ ~context.closeNotifySent /\ ~context.fatalAlert
<1>1. \/ call = "connect" /\ context.state \in ServerStates
      \/ call = "read" /\ context.state = "APPLICATION_DATA"
  BY DEF Ready, Reading, Listening
<1> QED BY <1>1 DEF CallInv, ServerStates, Live, Over, Last

LEMMA CallAfterSend ==
    ASSUME CallInv, NEW from, NEW to, NEW m, Sent(from, to, m),
           from \notin Over \cup {"APPLICATION_DATA"}, to \notin Over,
           from = "CLIENT_KEY_EXCHANGE" => to = "CLIENT_CERTIFICATE_VERIFY",
           from = "CLIENT_CHANGE_CIPHER_SPEC" => to = "CLIENT_FINISHED"
    PROVE  CallInv'
<1> USE DEF Over
<1>1. /\ link # "none" /\ conn > 0 /\ ~context.fatalAlert /\ ~context.closeNotifySent /\ written = 0
  BY DEF Sent, CallInv, Last
<1>2. /\ call = "connect" /\ call' \in {call, "failed"}
      /\ \/ context'.state = to
         \/ context'.state = "CLOSED" /\ call' = "failed"
      /\ call' = "failed" \/ context'.tx = <<>> \/ from \in {"CLIENT_KEY_EXCHANGE", "CLIENT_CHANGE_CIPHER_SPEC"}
      /\ ~context'.fatalAlert /\ ~context'.closeNotifySent /\ written' = 0 /\ link' # "none" /\ conn' > 0
  BY <1>1 DEF Sent, Untouched, Elsewhere
<1> QED BY <1>2 DEF CallInv, Last

LEMMA CallAfterParse ==
    ASSUME CallInv, NEW name, Parsed(name), UNCHANGED context.fatalAlert,
           context'.state # "CLOSED",
           context'.state = "CLOSING" => call = "read" /\ context.state = "APPLICATION_DATA",
           call = "read" => context'.state \in {"CLOSING", "APPLICATION_DATA"}
    PROVE  CallInv'
<1>1. /\ call \in {"connect", "read"} /\ context.tx = <<>> /\ link # "none" /\ Live
      /\ ~context.closeNotifySent /\ ~context.fatalAlert
  BY ReadyState DEF Parsed
<1>2. context.state \notin Over \cup {"APPLICATION_DATA"} => written = 0
  BY DEF CallInv
<1>3. call = "connect" => context.state # "APPLICATION_DATA"
  BY ReadyState DEF Parsed, ServerStates
<1>4. /\ call' = call /\ link' = link /\ conn' = conn /\ written' = written /\ context'.tx = <<>>
      /\ ~context'.closeNotifySent /\ ~context'.fatalAlert
  BY <1>1 DEF Parsed, Idle
<1> QED BY <1>1, <1>2, <1>3, <1>4 DEF CallInv, Live, Over

LEMMA StepCall ==
    ASSUME TypeInv, CallInv, ShapeInv, [Next]_vars
    PROVE  CallInv'
<1>1. CASE UNCHANGED vars
  BY <1>1 DEF vars, CallInv, Bound
<1>2. CASE HandshakeStep
  <2>1. CASE InitHandshake
    <3>1. context' = [context EXCEPT !.state = "CLIENT_HELLO"] /\ call = "connect" /\ context.state = "INIT"
          /\ UNCHANGED <<session, caller, net, world, count>>
      BY <2>1 DEF InitHandshake
    <3>2. /\ context'.state = "CLIENT_HELLO" /\ context'.tx = context.tx
          /\ context'.fatalAlert = context.fatalAlert /\ context'.closeNotifySent = context.closeNotifySent
      BY <3>1 DEF TypeInv, ProperContexts
    <3> QED BY <3>1, <3>2 DEF CallInv, Over, Last, caller, net, world, count
  <2>2. CASE FlushPending
    <3>1. /\ call = "connect" /\ context.tx # <<>> /\ call' \in {call, "failed"}
          /\ \/ context'.state = context.state
             \/ context'.state = "CLOSED" /\ call' = "failed"
          /\ call' = "failed" \/ context'.tx = <<>>
          /\ Untouched /\ Elsewhere
      BY <2>2, Flushed
    <3> QED BY <3>1 DEF CallInv, Untouched, Elsewhere, Over, Last
  <2>3. CASE SendClientHello
    BY <2>3, ClientHelloSent, CallAfterSend DEF Over
  <2>4. CASE SendCertificate
    <3>1. conn > 0
      BY <2>4 DEF SendCertificate, Proceed, InTurnToSend, CallInv
    <3> QED BY <2>4, <3>1, CertificateSent, CallAfterSend DEF Over
  <2>5. CASE SendClientKeyExchange
    BY <2>5, ClientKeyExchangeSent, CallAfterSend DEF Over
  <2>6. CASE SendCertificateVerify
    BY <2>6, CertificateVerifySent, CallAfterSend DEF Over
  <2>7. CASE SendChangeCipherSpec
    BY <2>7, ChangeCipherSpecSent, CallAfterSend DEF Over
  <2>8. CASE SendFinished
    BY <2>8, FinishedSentOf, CallAfterSend DEF Over
  <2>9. CASE ParseServerHello
    <3>1. call = "connect"
      BY <2>9, ServerHelloParsed, ReadyState DEF Parsed
    <3> QED BY <2>9, <3>1, ServerHelloParsed, CallAfterParse
  <2>10. ASSUME NEW name, NEW to, Moved(name, to), to \notin Over, context.state # "APPLICATION_DATA"
         PROVE  CallInv'
    <3>1. call = "connect"
      BY <2>10, ReadyState DEF Moved, Parsed
    <3> QED BY <2>10, <3>1, CallAfterParse DEF Moved, Over
  <2>11. CASE ParseCertificate
    BY <2>10, <2>11, MessagesParsed DEF Over
  <2>12. CASE ParseServerKeyExchange
    BY <2>10, <2>12, MessagesParsed DEF Over
  <2>13. CASE ParseCertificateRequest
    BY <2>10, <2>13, MessagesParsed DEF Over
  <2>14. CASE ParseServerHelloDone
    BY <2>10, <2>14, MessagesParsed DEF Over
  <2>15. CASE ParseFinished
    BY <2>10, <2>15, MessagesParsed DEF Over
  <2>16. CASE ParseHelloRequest
    <3>1. context.state \notin Over
      BY <2>16, MessagesParsed, ReadyState DEF Moved, Parsed, Live
    <3> QED BY <2>10, <2>16, <3>1, MessagesParsed
  <2>17. CASE ParseChangeCipherSpec
    <3>1. call = "connect"
      BY <2>17, ChangeCipherSpecParsed, ReadyState DEF Parsed
    <3> QED BY <2>17, <3>1, ChangeCipherSpecParsed, CallAfterParse
  <2>18. CASE Established
    BY <2>18 DEF Established, CallInv, Over, Last, net, world, count
  <2>19. CASE HandshakeFailed
    <3>1. link # "none"
      BY <2>19 DEF HandshakeFailed, CallInv
    <3> QED BY <2>19, <3>1, CallAfterFailure DEF HandshakeFailed, net, count
  <2> QED BY <1>2, <2>1, <2>2, <2>3, <2>4, <2>5, <2>6, <2>7, <2>8, <2>9, <2>11, <2>12, <2>13,
             <2>14, <2>15, <2>16, <2>17, <2>18, <2>19 DEF HandshakeStep
<1>3. ASSUME Refused
      PROVE  CallInv'
  BY <1>3 DEF Refused, CallInv, Over, Last
<1>4. CASE RecordStep
  <2>1. CASE ReceiveHeader
    <3>1. UNCHANGED <<context.state, context.tx, context.fatalAlert, context.closeNotifySent>>
      BY <2>1 DEF ReceiveHeader, TypeInv, ProperContexts
    <3> QED BY <2>1, <3>1, ReadyState, CallKept DEF ReceiveHeader, caller, count
  <2>2. CASE ReceiveRecord
    BY <2>2, RecordReceived, ReadyState, CallKept
  <2>3. CASE ReceiveBadRecord
    BY <1>3, <2>3, BadRecordRefused
  <2>4. CASE ReceiveFails
    <3>1. context'.state = "CLOSED"
      BY <2>4 DEF ReceiveFails, TypeInv, ProperContexts
    <3>2. link # "none" /\ conn > 0
      BY <2>4, ReadyState DEF ReceiveFails, CallInv
    <3> QED BY <2>4, <3>1, <3>2 DEF ReceiveFails, CallInv, Over, Last, net, count
  <2>5. CASE ParseAlert
    <3>1. CASE /\ Parsed("fatal") /\ context'.fatalAlert /\ context'.state = "CLOSED"
      <4>1. /\ call \in {"connect", "read"} /\ context.tx = <<>> /\ link # "none" /\ conn > 0
            /\ ~context.closeNotifySent
        BY <3>1, ReadyState DEF Parsed, CallInv
      <4> QED BY <3>1, <4>1 DEF Parsed, Idle, CallInv, Over
    <3>2. CASE /\ Parsed("close_notify")
               /\ context'.state = IF context.state = "APPLICATION_DATA" THEN "CLOSING" ELSE context.state
               /\ UNCHANGED <<context.fatalAlert, context.sessionId>>
      <4>1. \/ call = "connect" /\ context.state \in ServerStates
            \/ call = "read" /\ context.state = "APPLICATION_DATA"
        BY <3>2, ReadyState DEF Parsed
      <4> QED BY <3>2, <4>1, CallAfterParse DEF ServerStates
    <3> QED BY <2>5, <3>1, <3>2, AlertParsed
  <2>6. CASE ParseData
    <3>1. link # "none"
      BY <2>6, ReadyState DEF ParseData
    <3> QED BY <2>6, <3>1, DataParsed DEF CallInv, Over, Last
  <2>7. CASE ParseRefused
    BY <1>3, <2>7, MessageRefused
  <2>8. CASE RefuseRenegotiation
    BY <1>3, <2>8, MessageRefused
  <2>9. CASE CallEnds
    BY <2>9 DEF CallEnds, CallInv, Over, Last, net, world, count
  <2> QED BY <1>4, <2>1, <2>2, <2>3, <2>4, <2>5, <2>6, <2>7, <2>8, <2>9 DEF RecordStep
<1>5. CASE CallerStep
  <2>1. CASE Open
    <3>1. /\ context'.state = "INIT" /\ context'.tx = <<>> /\ ~context'.fatalAlert
          /\ ~context'.closeNotifySent
      BY <2>1 DEF Open, FreshContext
    <3>2. conn' > 0
      BY <2>1 DEF Open, TypeInv, Numbers
    <3>3. written' = 0 /\ call' = "connect" /\ link' = "open"
      BY <2>1 DEF Open, CallInv
    <3> QED BY <3>1, <3>2, <3>3 DEF CallInv, Over
  <2>2. ASSUME NEW n \in 1 .. 2, StartWrite(n)
        PROVE  CallInv'
    <3>1. /\ call = "none" /\ link # "none" /\ written + n <= Bound(MaxWritten) /\ n > 0
          /\ call' = "write" /\ todo' = n
          /\ UNCHANGED <<context, written, link, conn>> /\ Bound(MaxWritten)' = Bound(MaxWritten)
      BY <2>2 DEF StartWrite, Bound, net, world, count
    <3> QED BY <3>1 DEF CallInv, Last, Over
  <2>3. CASE WriteData
    <3>1. /\ call = "write" /\ context.state = "APPLICATION_DATA" /\ written + todo <= Bound(MaxWritten)
          /\ Untouched
          /\ \/ /\ context'.state = "APPLICATION_DATA" /\ context'.tx = <<>> /\ CountWritten
             \/ /\ context'.state = "APPLICATION_DATA" /\ context'.tx # <<>>
                /\ UNCHANGED <<call, todo, written>>
             \/ /\ context'.state = "CLOSED" /\ call' = "failed" /\ UNCHANGED <<todo, written>>
          /\ UNCHANGED <<link, conn>>
      BY <2>3, DataWritten
    <3>2. /\ ~context.fatalAlert /\ ~context.closeNotifySent /\ todo > 0 /\ link # "none" /\ conn > 0
          /\ written \in Nat /\ todo \in Nat /\ Bound(MaxWritten)' = Bound(MaxWritten)
          /\ Bound(MaxWritten) \in Nat
      BY <3>1, TlsAssumption DEF CallInv, Over, Last, TypeInv, Bound
    <3>3. ~context'.fatalAlert /\ ~context'.closeNotifySent /\ link' # "none" /\ conn' > 0
      BY <3>1, <3>2 DEF Untouched
    <3>4. CASE context'.state = "APPLICATION_DATA" /\ context'.tx = <<>> /\ CountWritten
      <4>1. /\ call' \in {"none", "write"}
            /\ call' = "write" => todo' > 0 /\ written' + todo' = written + todo
        BY <3>2, <3>4 DEF CountWritten
      <4> QED BY <3>1, <3>2, <3>3, <3>4, <4>1 DEF CallInv, Over
    <3>5. CASE context'.state = "APPLICATION_DATA" /\ context'.tx # <<>> /\ UNCHANGED <<call, todo, written>>
      BY <3>1, <3>2, <3>3, <3>5 DEF CallInv, Over
    <3>6. CASE context'.state = "CLOSED" /\ call' = "failed" /\ UNCHANGED <<todo, written>>
      BY <3>1, <3>2, <3>3, <3>6 DEF CallInv, Over
    <3> QED BY <3>1, <3>4, <3>5, <3>6
  <2>4. CASE StartRead
    BY <2>4 DEF StartRead, CallInv, Last, net, count
  <2>5. CASE ReadTimeout
    BY <2>5, ReadyState DEF ReadTimeout, CallInv, Last, net, count, Over
  <2>6. CASE StartShutdown
    <3>1. /\ context'.state = "CLOSING" /\ context'.tx = context.tx
          /\ context'.fatalAlert = context.fatalAlert /\ context'.closeNotifySent = context.closeNotifySent
      BY <2>6 DEF StartShutdown, TypeInv, ProperContexts
    <3> QED BY <2>6, <3>1 DEF StartShutdown, CallInv, Over, Last, net, count
  <2>7. CASE SendCloseNotify
    <3>1. context.state \in Over /\ link # "none" /\ conn > 0
      BY <2>7 DEF SendCloseNotify, CallInv
    <3> QED BY <2>7, <3>1, CloseNotifySent DEF CallInv, Over, Last
  <2>8. CASE Close
    <3>1. context' = FreshContext(NoSession) /\ server' = ServerInit
          /\ call' = "none" /\ todo' = 0 /\ written' = 0 /\ got' = <<>>
          /\ link' = "none" /\ up' = <<>> /\ down' = <<>>
      BY <2>8 DEF Close
    <3>2. context'.tx = <<>> /\ ~context'.fatalAlert /\ ~context'.closeNotifySent /\ context'.state = "INIT"
      BY <3>1 DEF FreshContext
    <3> HIDE DEF FreshContext, ServerInit
    <3>3. (FreshContext(NoSession))' = FreshContext(NoSession) /\ ServerInit' = ServerInit
      BY DEF FreshContext, ServerInit, NoSession
    <3> QED BY <3>1, <3>2, <3>3 DEF CallInv, Over
  <2> QED BY <1>5, <2>1, <2>2, <2>3, <2>4, <2>5, <2>6, <2>7, <2>8 DEF CallerStep
<1>6. CASE ServerStep \/ SendData \/ CloseNotify
  <2>1. CASE AnswerFull
    BY <2>1, AnsweredFull, TookLinked, CallAfterServer DEF Took
  <2>2. CASE AnswerResumed
    BY <2>2, AnsweredResumed, TookLinked, CallAfterServer DEF Took
  <2>3. CASE TakeMessage
    BY <2>3, MessageTaken, TookLinked, CallAfterServer DEF Took
  <2>4. CASE TakeChangeCipherSpec
    BY <2>4, ChangeCipherSpecTaken, TookLinked, CallAfterServer DEF Took
  <2>5. CASE TakeFinished
    BY <2>5, FinishedTaken, TookLinked, CallAfterServer DEF Took
  <2>6. CASE TakeData
    BY <2>6, DataTaken, TookLinked, CallAfterServer DEF Took
  <2>7. CASE TakeAlert
    BY <2>7, AlertTaken, TookLinked, CallAfterServer DEF Took
  <2>8. CASE ServerRefuses
    <3>1. up # <<>>
      BY <2>8 DEF ServerRefuses
    <3> QED BY <2>8, <3>1, ServerRefused, PhaseLinked, CallAfterServer
  <2>9. CASE ServerSends
    BY <2>9, ServerSent, PhaseLinked, CallAfterServer
  <2>10. CASE ServerEnds
    BY <2>10, PhaseLinked, CallKept DEF ServerEnds, caller, count
  <2>11. CASE SendData
    BY <2>11, DataSent, PhaseLinked, CallAfterServer
  <2>12. CASE CloseNotify
    BY <2>12, CloseNotifySaid, PhaseLinked, CallAfterServer
  <2> QED BY <1>6, <2>1, <2>2, <2>3, <2>4, <2>5, <2>6, <2>7, <2>8, <2>9, <2>10, <2>11, <2>12
          DEF ServerStep
<1>7. CASE Trouble
  <2>1. CASE Reject
    BY <2>1, Rejected, TookLinked, CallAfterServer DEF Took
  <2>2. CASE AskAgain
    BY <2>2, AskedAgain, PhaseLinked, CallAfterServer
  <2>3. CASE Reset
    BY <2>3, WasReset, CallKept
  <2>4. CASE Damage
    <3>1. up # <<>> \/ down # <<>>
      BY <2>4 DEF Damage, Damageable
    <3> QED BY <2>4, <3>1, PhaseLinked, CallKept DEF Damage, caller, Fault
  <2>5. CASE ElementFails
    BY <1>3, <2>5, ElementRefused
  <2>6. CASE ConnectTimeout
    BY <2>6, ReadyState, CallAfterFailure DEF ConnectTimeout, Fault, net
  <2> QED BY <1>7, <2>1, <2>2, <2>3, <2>4, <2>5, <2>6 DEF Trouble
<1> QED BY <1>1, <1>2, <1>4, <1>5, <1>6, <1>7 DEF Next

=============================================================================
