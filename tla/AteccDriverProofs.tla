------------------------- MODULE AteccDriverProofs --------------------------
(* Theorems about AteccDriver: whatever fails, a call that succeeds returns *)
(* what was computed from its own arguments.                                *)
EXTENDS AteccDriver, TLAPS

(***************************************************************************)
(* The inductive invariant.                                                *)
(***************************************************************************)

\* What is executed is no command of an earlier call or step.
IsCurrent(request) ==
    \/ request \in {Nothing, SelfTest}
    \/ request.cmd \in {Command, "damaged"} /\ request.args = job

Receiving == {"wait", "count", "rest"}
Ending == {"idle", "return"}

\* An element that was sent a command, or one after the first of a call, executes
\* nothing else: the command before it has been answered.
RunInv ==
    (at \in Receiving \/ (step > 1 /\ at # "ready")) => IsCurrent(running)

\* A frame that says of the current command what is the case.
RightAnswer(frame) ==
    /\ frame.status = "ok" =>
        /\ Command = "nonce"  => msgDigBuf \in {None, job.digest}
        /\ Command = "sign"   => frame.digest = job.digest
        /\ Command = "genkey" => frame.key = slotKey /\ slotKey # None
        /\ Command = "ecdh"   => frame.key = out.public /\ frame.peer = job.peer
        /\ Command = "verify" => job.signed = job.digest
    /\ frame.status = "mismatch" => Command = "verify" /\ job.signed # job.digest

ReplyInv == at \in Receiving /\ running = Nothing => RightAnswer(reply)

PacketInv ==
    at \in Ending /\ status # "failed" =>
        /\ running = Nothing /\ RightAnswer(packet)
        /\ status = "success" => packet.status = "ok"
        /\ status = "mismatch" => packet.status = "mismatch"

\* Past the nonce command the buffer has the digest of this call, if any.
DigestInv ==
    at # "ready" /\ Command \in {"sign", "verify"} => msgDigBuf \in {None, job.digest}

\* Past the genkey command the slot has the key whose public part was returned.
KeyInv ==
    at # "ready" /\ Command = "ecdh" => slotKey = out.public /\ out.public # None

VerdictInv == at # "ready" => ~out.verified

Right == SignatureIsOfDigest /\ SecretIsOfKey /\ VerdictIsOfDigest

Inv == /\ RunInv /\ ReplyInv /\ PacketInv /\ DigestInv /\ KeyInv /\ VerdictInv /\ Right

-----------------------------------------------------------------------------
(***************************************************************************)
(* Types.                                                                  *)
(***************************************************************************)

AllCommands == {"random", "nonce", "sign", "genkey", "ecdh", "verify"}

\* The commands of a call, by their number.
LEMMA CommandOf ==
    ASSUME TypeOK
    PROVE  /\ job.op \in {"sign", "ecdhe", "verify"}
           /\ job.op = "sign" =>
                /\ step \in {1, 2, 3} /\ Len(Commands[job.op]) = 3
                /\ step = 1 => Command = "random"
                /\ step = 2 => Command = "nonce"
                /\ step = 3 => Command = "sign"
           /\ job.op = "ecdhe" =>
                /\ step \in {1, 2} /\ Len(Commands[job.op]) = 2
                /\ step = 1 => Command = "genkey"
                /\ step = 2 => Command = "ecdh"
           /\ job.op = "verify" =>
                /\ step \in {1, 2} /\ Len(Commands[job.op]) = 2
                /\ step = 1 => Command = "nonce"
                /\ step = 2 => Command = "verify"
<1>1. job.op \in {"sign", "ecdhe", "verify"}
  BY DEF TypeOK, CallTypeOK, Jobs, SignJobs, EcdheJobs, VerifyJobs
<1>2. step \in 1..3 /\ step <= Len(Commands[job.op])
  BY DEF TypeOK, CallTypeOK
<1>3. CASE job.op = "sign"
  <2>1. Commands[job.op] = <<"random", "nonce", "sign">>
    BY <1>3 DEF Commands
  <2> QED
    BY <1>2, <1>3, <2>1 DEF Command
<1>4. CASE job.op = "ecdhe"
  <2>1. Commands[job.op] = <<"genkey", "ecdh">>
    BY <1>4 DEF Commands
  <2>2. Len(Commands[job.op]) = 2
    BY <2>1
  <2>3. step \in {1, 2}
    BY <1>2, <2>2
  <2> QED
    BY <1>4, <2>1, <2>2, <2>3 DEF Command
<1>5. CASE job.op = "verify"
  <2>1. Commands[job.op] = <<"nonce", "verify">>
    BY <1>5 DEF Commands
  <2>2. Len(Commands[job.op]) = 2
    BY <2>1
  <2>3. step \in {1, 2}
    BY <1>2, <2>2
  <2> QED
    BY <1>5, <2>1, <2>2, <2>3 DEF Command
<1> QED
  BY <1>1, <1>3, <1>4, <1>5

\* Every step of a call is one of the six commands.
LEMMA CommandTyped ==
    ASSUME TypeOK
    PROVE  Command \in AllCommands
BY CommandOf DEF AllCommands

\* What is computed from stored values has their types.
LEMMA ExecuteTyped ==
    ASSUME TypeOK, running # Nothing, Execute(running)
    PROVE  /\ reply' \in Frames
           /\ msgDigBuf' \in Digests \cup {None} /\ slotKey' \in Keys \cup {None}
<1>1. running \in Requests \cup {SelfTest}
  BY DEF TypeOK, ElementTypeOK
<1>2. \A word \in Statuses : Frame(word) \in Frames
  BY DEF Frame, Frames
<1>3. ElementTypeOK
  BY DEF TypeOK
<1>4. CASE running = SelfTest
  BY <1>2, <1>3, <1>4 DEF Execute, SelfTest, ElementTypeOK, Statuses, stores
<1>5. CASE running \in [cmd: {"random", "nonce", "sign", "damaged"}, args: SignJobs]
  BY <1>2, <1>3, <1>5, ZenonT(40)
  DEF Execute, SignJobs, ElementTypeOK, Statuses, Frames, Frame, stores
<1>6. CASE running \in [cmd: {"genkey", "ecdh", "damaged"}, args: EcdheJobs]
  <2>1. CASE running.cmd = "genkey"
    <3>1. slotKey' \in Keys /\ reply' = [Frame("ok") EXCEPT !.key = slotKey']
          /\ msgDigBuf' = msgDigBuf
      BY <2>1 DEF Execute
    <3> QED
      BY <1>3, <3>1 DEF ElementTypeOK, Statuses, Frames, Frame
  <2>2. CASE running.cmd = "ecdh"
    <3>1. /\ reply' = IF slotKey = None THEN Frame("error")
                      ELSE [Frame("ok") EXCEPT !.key = slotKey, !.peer = running.args.peer]
          /\ msgDigBuf' = msgDigBuf /\ slotKey' = slotKey
      BY <2>2 DEF Execute, stores
    <3>2. running.args.peer \in Peers
      BY <1>6 DEF EcdheJobs
    <3> QED
      BY <1>3, <3>1, <3>2 DEF ElementTypeOK, Statuses, Frames, Frame
  <2>3. CASE running.cmd = "damaged"
    BY <1>2, <1>3, <2>3 DEF Execute, ElementTypeOK, Statuses, stores
  <2> QED
    BY <1>6, <2>1, <2>2, <2>3
<1>7. CASE running \in [cmd: {"nonce", "verify", "damaged"}, args: VerifyJobs]
  BY <1>2, <1>3, <1>7
  DEF Execute, VerifyJobs, ElementTypeOK, Statuses, Frames, Frame, stores
<1> QED
  BY <1>1, <1>4, <1>5, <1>6, <1>7 DEF Requests

\* A delay keeps the types of the element.
LEMMA ElapseTyped ==
    ASSUME TypeOK, Elapse, faults' \in 0..MaxFaults
    PROVE  ElementTypeOK'
<1>1. CASE running = Nothing
  BY <1>1 DEF TypeOK, ElementTypeOK, Elapse, io, stores
<1>2. CASE running # Nothing /\ left > 0
  BY <1>2, LimitsAssumption DEF TypeOK, ElementTypeOK, Elapse, stores
<1>3. CASE running # Nothing /\ ~(left > 0)
  BY <1>3, ExecuteTyped DEF TypeOK, ElementTypeOK, Elapse
<1> QED
  BY <1>1, <1>2, <1>3

\* Faults are counted up to their bound.
LEMMA FaultTyped ==
    ASSUME TypeOK, Fault
    PROVE  faults' \in 0..MaxFaults
BY LimitsAssumption DEF TypeOK, ElementTypeOK, Fault

\* What the driver sends is a request.
LEMMA SentTyped ==
    ASSUME TypeOK, Send
    PROVE  running' \in Requests \cup {SelfTest, Nothing} /\ left' \in 0..MaxExec
           /\ reply' \in Frames /\ sent' \in 0..2 /\ power' = power
<1> DEFINE request == [cmd |-> Command, args |-> job]
<1>1. request \in Requests /\ [request EXCEPT !.cmd = "damaged"] \in Requests
  <2>1. CASE job.op = "sign"
    BY <2>1, CommandOf DEF TypeOK, CallTypeOK, Requests, Jobs, SignJobs, EcdheJobs, VerifyJobs
  <2>2. CASE job.op = "ecdhe"
    BY <2>2, CommandOf DEF TypeOK, CallTypeOK, Requests, Jobs, SignJobs, EcdheJobs, VerifyJobs
  <2>3. CASE job.op = "verify"
    BY <2>3, CommandOf DEF TypeOK, CallTypeOK, Requests, Jobs, SignJobs, EcdheJobs, VerifyJobs
  <2> QED
    BY <2>1, <2>2, <2>3, CommandOf
<1>2. Garbage \in Frames
  BY DEF Garbage, Frame, Frames, Statuses
<1>3. InTime \subseteq 0..MaxExec /\ Late \subseteq 0..MaxExec
  BY LimitsAssumption DEF InTime, Late
<1> HIDE DEF request
<1>4. \A r, times : Sent(r, times) => /\ running' = r /\ left' \in times
                                     /\ reply' = Garbage /\ sent' = 2 /\ power' = power
  BY DEF Sent
<1>5. \/ running' \in {request, [request EXCEPT !.cmd = "damaged"]}
         /\ left' \in InTime \cup Late /\ reply' = Garbage /\ sent' = 2 /\ power' = power
      \/ UNCHANGED io
  BY <1>4 DEF Send, request
<1> QED
  BY <1>1, <1>2, <1>3, <1>5 DEF TypeOK, ElementTypeOK, io

\* What a command returns has the type of the output parameter it goes to.
LEMMA CopyTyped ==
    ASSUME TypeOK, CopyOutput
    PROVE  out' \in [digest: Digests \cup {None}, public: Keys \cup {None},
                     secretKey: Keys \cup {None}, secretPeer: Peers \cup {None},
                     verified: BOOLEAN]
BY CommandTyped, ZenonT(40) DEF AllCommands, TypeOK, CallTypeOK, DriverTypeOK, CopyOutput, Frames

\* The end of hal_i2c_wake keeps the types.
LEMMA WokenTyped ==
    ASSUME TypeOK, NEW outcome, Woken(outcome)
    PROVE  /\ at' \in {"send", "pulse", "idle"} /\ postWaited' \in BOOLEAN
           /\ status' \in {"success", "mismatch", "failed"}
BY DEF TypeOK, DriverTypeOK, Woken

\* The end of a poll keeps the types.
LEMMA PollTyped ==
    ASSUME TypeOK, PollAgain
    PROVE  /\ at' \in {"count", "idle"}
           /\ retries' \in 0..RxRetries /\ polls' \in 0..MaxPolls
           /\ status' \in {"success", "mismatch", "failed"}
BY LimitsAssumption DEF TypeOK, DriverTypeOK, PollAgain

\* A step keeps the types.
LEMMA TypedStep ==
    ASSUME TypeOK, [Next]_vars
    PROVE  TypeOK'
<1>1. CASE Call
  <2>1. CallTypeOK'
    <3>1. job' \in Jobs /\ step' = 1 /\ out' = NoOutput /\ result' = "none"
      BY <1>1 DEF Call
    <3>2. Len(Commands[job'.op]) >= 1
      BY <3>1 DEF Jobs, SignJobs, EcdheJobs, VerifyJobs, Commands
    <3> QED
      BY <3>1, <3>2 DEF CallTypeOK, NoOutput
  <2>2. DriverTypeOK'
    BY <1>1, LimitsAssumption
    DEF TypeOK, DriverTypeOK, ElementTypeOK, Wakes, Replies, Call
  <2>3. ElementTypeOK'
    BY <1>1, FaultTyped
    DEF TypeOK, ElementTypeOK, io, stores, Call
  <2> QED
    BY <2>1, <2>2, <2>3 DEF TypeOK
<1>2. CASE WakePulse
  <2>1. CallTypeOK'
    BY <1>2 DEF TypeOK, CallTypeOK, WakePulse
  <2>2. DriverTypeOK'
    BY <1>2, LimitsAssumption
    DEF TypeOK, DriverTypeOK, ElementTypeOK, Wakes, Replies, WakePulse
  <2>3. ElementTypeOK'
    BY <1>2, FaultTyped, LimitsAssumption
    DEF TypeOK, ElementTypeOK, Frame, Frames, Statuses, io, stores, WakePulse
  <2> QED
    BY <2>1, <2>2, <2>3 DEF TypeOK
<1>3. CASE WakeReplyRead
  <2>1. CallTypeOK'
    BY <1>3 DEF TypeOK, CallTypeOK, WakeReplyRead
  <2>2. DriverTypeOK'
    <3>1. \E outcome \in Outcomes : Woken(outcome)
      BY <1>3 DEF WakeReplyRead, Outcomes
    <3>2. /\ at' \in {"send", "pulse", "idle"} /\ postWaited' \in BOOLEAN
          /\ status' \in {"success", "mismatch", "failed"}
      BY <3>1, WokenTyped
    <3>3. /\ retries' \in 0..RxRetries /\ baud' \in {"configured", "slow"}
          /\ UNCHANGED <<polls, counted, packet>>
      BY <1>3, LimitsAssumption DEF TypeOK, DriverTypeOK, WakeReplyRead
    <3> QED
      BY <3>2, <3>3 DEF TypeOK, DriverTypeOK, Wakes
  <2>3. ElementTypeOK'
    BY <1>3, FaultTyped
    DEF TypeOK, ElementTypeOK, stores, WakeReplyRead
  <2> QED
    BY <2>1, <2>2, <2>3 DEF TypeOK
<1>4. CASE WakeReplyFails
  <2>1. CallTypeOK'
    BY <1>4 DEF TypeOK, CallTypeOK, WakeReplyFails
  <2>2. DriverTypeOK'
    BY <1>4, LimitsAssumption
    DEF TypeOK, DriverTypeOK, ElementTypeOK, Wakes, Replies, WakeReplyFails
  <2>3. ElementTypeOK'
    BY <1>4, FaultTyped
    DEF TypeOK, ElementTypeOK, io, stores, WakeReplyFails
  <2> QED
    BY <2>1, <2>2, <2>3 DEF TypeOK
<1>5. CASE WakeReplyUnread
  <2>1. CallTypeOK'
    BY <1>5 DEF TypeOK, CallTypeOK, WakeReplyUnread
  <2>2. DriverTypeOK'
    <3>1. \E outcome \in Outcomes : Woken(outcome)
      BY <1>5 DEF WakeReplyUnread, Residues
    <3>2. /\ at' \in {"send", "pulse", "idle"} /\ postWaited' \in BOOLEAN
          /\ status' \in {"success", "mismatch", "failed"}
      BY <3>1, WokenTyped
    <3>3. /\ retries' \in 0..RxRetries /\ baud' \in {"configured", "slow"}
          /\ UNCHANGED <<polls, counted, packet>>
      BY <1>5, LimitsAssumption DEF TypeOK, DriverTypeOK, WakeReplyUnread
    <3> QED
      BY <3>2, <3>3 DEF TypeOK, DriverTypeOK, Wakes
  <2>3. ElementTypeOK'
    <3>1. faults' \in 0..MaxFaults
      BY <1>5, FaultTyped DEF TypeOK, ElementTypeOK, WakeReplyUnread
    <3>2. CASE Elapse
      BY <3>1, <3>2, ElapseTyped
    <3>3. CASE ~Elapse
      BY <1>5, <3>1, <3>3 DEF TypeOK, ElementTypeOK, WakeReplyUnread, io, stores
    <3> QED
      BY <3>2, <3>3
  <2> QED
    BY <2>1, <2>2, <2>3 DEF TypeOK
<1>6. CASE Send
  <2>1. CallTypeOK'
    BY <1>6 DEF TypeOK, CallTypeOK, Send
  <2>2. DriverTypeOK'
    BY <1>6, LimitsAssumption
    DEF TypeOK, DriverTypeOK, ElementTypeOK, Wakes, Replies, Send
  <2>3. ElementTypeOK'
    BY <1>6, SentTyped, FaultTyped
    DEF TypeOK, ElementTypeOK, io, stores, Send
  <2> QED
    BY <2>1, <2>2, <2>3 DEF TypeOK
<1>7. CASE Wait
  <2>1. CallTypeOK'
    BY <1>7 DEF TypeOK, CallTypeOK, Wait
  <2>2. DriverTypeOK'
    BY <1>7, LimitsAssumption
    DEF TypeOK, DriverTypeOK, ElementTypeOK, Wakes, Replies, Wait
  <2>3. ElementTypeOK'
    <3>1. faults' \in 0..MaxFaults
      BY <1>7, FaultTyped DEF TypeOK, ElementTypeOK, Wait
    <3>2. CASE Elapse
      BY <3>1, <3>2, ElapseTyped
    <3>3. CASE ~Elapse
      BY <1>7, <3>1, <3>3 DEF TypeOK, ElementTypeOK, Wait, io, stores
    <3> QED
      BY <3>2, <3>3
  <2> QED
    BY <2>1, <2>2, <2>3 DEF TypeOK
<1>8. CASE CountRead
  <2>1. CallTypeOK'
    BY <1>8 DEF TypeOK, CallTypeOK, CountRead
  <2>2. DriverTypeOK'
    <3>1. /\ UNCHANGED <<postWaited, packet, baud>> /\ counted' \in BOOLEAN
          /\ \/ PollAgain
             \/ at' = "rest" /\ UNCHANGED <<retries, polls, status>>
      BY <1>8 DEF CountRead
    <3> QED
      BY <3>1, PollTyped DEF TypeOK, DriverTypeOK, Replies
  <2>3. ElementTypeOK'
    BY <1>8, FaultTyped
    DEF TypeOK, ElementTypeOK, stores, CountRead
  <2> QED
    BY <2>1, <2>2, <2>3 DEF TypeOK
<1>9. CASE CountFails
  <2>1. CallTypeOK'
    BY <1>9 DEF TypeOK, CallTypeOK, CountFails
  <2>2. DriverTypeOK'
    BY <1>9, LimitsAssumption
    DEF TypeOK, DriverTypeOK, ElementTypeOK, PollAgain, Wakes, Replies, CountFails
  <2>3. ElementTypeOK'
    <3>1. faults' \in 0..MaxFaults
      BY <1>9, FaultTyped DEF TypeOK, ElementTypeOK, CountFails
    <3>2. CASE Elapse
      BY <3>1, <3>2, ElapseTyped
    <3>3. CASE ~Elapse
      BY <1>9, <3>1, <3>3 DEF TypeOK, ElementTypeOK, CountFails, io, stores
    <3> QED
      BY <3>2, <3>3
  <2> QED
    BY <2>1, <2>2, <2>3 DEF TypeOK
<1>10. CASE RestRead
  <2>1. CallTypeOK'
    BY <1>10 DEF TypeOK, CallTypeOK, RestRead
  <2>2. DriverTypeOK'
    BY <1>10, LimitsAssumption
    DEF TypeOK, DriverTypeOK, ElementTypeOK, Checked, Frames, Frame, Garbage, Statuses,
        Wakes, Replies, RestRead
  <2>3. ElementTypeOK'
    BY <1>10, FaultTyped
    DEF TypeOK, ElementTypeOK, stores, RestRead
  <2> QED
    BY <2>1, <2>2, <2>3 DEF TypeOK
<1>11. CASE RestFails
  <2>1. CallTypeOK'
    BY <1>11 DEF TypeOK, CallTypeOK, RestFails
  <2>2. DriverTypeOK'
    BY <1>11, LimitsAssumption
    DEF TypeOK, DriverTypeOK, ElementTypeOK, PollAgain, Wakes, Replies, RestFails
  <2>3. ElementTypeOK'
    BY <1>11, FaultTyped
    DEF TypeOK, ElementTypeOK, stores, RestFails
  <2> QED
    BY <2>1, <2>2, <2>3 DEF TypeOK
<1>12. CASE Idle
  <2>1. CallTypeOK'
    BY <1>12 DEF TypeOK, CallTypeOK, Idle
  <2>2. DriverTypeOK'
    BY <1>12, LimitsAssumption
    DEF TypeOK, DriverTypeOK, ElementTypeOK, Wakes, Replies, Idle
  <2>3. ElementTypeOK'
    <3>1. faults' \in 0..MaxFaults
      BY <1>12, FaultTyped DEF TypeOK, ElementTypeOK, Idle
    <3>2. CASE Elapse
      BY <3>1, <3>2, ElapseTyped
    <3>3. CASE ~Elapse
      BY <1>12, <3>1, <3>3 DEF TypeOK, ElementTypeOK, Idle, io, stores
    <3> QED
      BY <3>2, <3>3
  <2> QED
    BY <2>1, <2>2, <2>3 DEF TypeOK
<1>13. CASE NextCommand
  <2>1. CallTypeOK'
    <3>1. out' \in [digest: Digests \cup {None}, public: Keys \cup {None},
                    secretKey: Keys \cup {None}, secretPeer: Peers \cup {None},
                    verified: BOOLEAN]
      BY <1>13, CopyTyped DEF TypeOK, CallTypeOK, NextCommand
    <3>2. step + 1 \in 1..3 /\ step + 1 <= Len(Commands[job.op])
      <4>1. step < Len(Commands[job.op])
        BY <1>13 DEF NextCommand
      <4>2. CASE job.op = "sign"
        <5>1. step \in {1, 2, 3} /\ Len(Commands[job.op]) = 3
          BY <4>2, CommandOf
        <5>2. step \in {1, 2}
          BY <4>1, <5>1
        <5> QED
          BY <5>1, <5>2
      <4>3. CASE job.op = "ecdhe"
        BY <4>1, <4>3, CommandOf
      <4>4. CASE job.op = "verify"
        BY <4>1, <4>4, CommandOf
      <4> QED
        BY <4>2, <4>3, <4>4, CommandOf
    <3> QED
      BY <1>13, <3>1, <3>2 DEF TypeOK, CallTypeOK, NextCommand
  <2>2. DriverTypeOK'
    BY <1>13, LimitsAssumption
    DEF TypeOK, DriverTypeOK, ElementTypeOK, Wakes, Replies, NextCommand
  <2>3. ElementTypeOK'
    BY <1>13, FaultTyped
    DEF TypeOK, ElementTypeOK, io, stores, NextCommand
  <2> QED
    BY <2>1, <2>2, <2>3 DEF TypeOK
<1>14. CASE CallReturns
  <2>1. CallTypeOK'
    <3>1. out' \in [digest: Digests \cup {None}, public: Keys \cup {None},
                    secretKey: Keys \cup {None}, secretPeer: Peers \cup {None},
                    verified: BOOLEAN]
      BY <1>14, CopyTyped DEF TypeOK, CallTypeOK, CallReturns
    <3> QED
      BY <1>14, <3>1 DEF TypeOK, CallTypeOK, CallReturns
  <2>2. DriverTypeOK'
    BY <1>14, LimitsAssumption
    DEF TypeOK, DriverTypeOK, ElementTypeOK, Wakes, Replies, CallReturns
  <2>3. ElementTypeOK'
    BY <1>14, FaultTyped
    DEF TypeOK, ElementTypeOK, io, stores, CallReturns
  <2> QED
    BY <2>1, <2>2, <2>3 DEF TypeOK
<1>15. CASE Watchdog
  <2>1. CallTypeOK'
    BY <1>15 DEF TypeOK, CallTypeOK, Watchdog, host
  <2>2. DriverTypeOK'
    BY <1>15, LimitsAssumption
    DEF TypeOK, DriverTypeOK, ElementTypeOK, Wakes, Replies, Watchdog, host
  <2>3. ElementTypeOK'
    BY <1>15, FaultTyped
    DEF TypeOK, ElementTypeOK, Garbage, Frame, Frames, Statuses, Nothing, Watchdog
  <2> QED
    BY <2>1, <2>2, <2>3 DEF TypeOK
<1>16. CASE UNCHANGED vars
  BY <1>16 DEF TypeOK, CallTypeOK, DriverTypeOK, ElementTypeOK, vars, host, io, stores
<1> QED
  BY <1>1, <1>2, <1>3, <1>4, <1>5, <1>6, <1>7, <1>8, <1>9, <1>10, <1>11, <1>12, <1>13,
      <1>14, <1>15, <1>16 DEF Next, Execution

\* Every variable has its type; the counters of retries and polls stay in their ranges.
THEOREM Typed == Spec => []TypeOK
<1>1. Init => TypeOK
  <2> SUFFICES ASSUME Init PROVE TypeOK
    OBVIOUS
  <2>1. Len(Commands[job.op]) >= 1
    BY DEF Init, Jobs, SignJobs, EcdheJobs, VerifyJobs, Commands
  <2>2. CallTypeOK
    BY <2>1 DEF Init, CallTypeOK, NoOutput
  <2>3. Garbage \in Frames
    BY DEF Garbage, Frame, Frames, Statuses
  <2>4. DriverTypeOK
    <3>1. 0 \in 0..RxRetries /\ 0 \in 0..MaxPolls
      BY LimitsAssumption
    <3> QED
      BY <2>3, <3>1 DEF Init, DriverTypeOK
  <2>5. ElementTypeOK
    BY <2>3, LimitsAssumption DEF Init, ElementTypeOK
  <2> QED
    BY <2>2, <2>4, <2>5 DEF TypeOK
<1>2. TypeOK /\ [Next]_vars => TypeOK'
  BY TypedStep
<1> QED
  BY <1>1, <1>2, PTL DEF Spec

-----------------------------------------------------------------------------
(***************************************************************************)
(* A call that succeeds is right.                                          *)
(***************************************************************************)

\* What an execution of the current command leaves is right, and takes nothing
\* away from what the call has reached.
LEMMA ExecuteRight ==
    ASSUME TypeOK, DigestInv, KeyInv, at # "ready", IsCurrent(running), running # Nothing,
           Execute(running), UNCHANGED <<job, step, out>>
    PROVE  /\ RightAnswer(reply)'
           /\ Command \in {"sign", "verify"} => msgDigBuf' \in {None, job.digest}
           /\ Command = "ecdh" => slotKey' = slotKey
<1>1. Command' = Command
  BY DEF Command
<1>2. CASE running = SelfTest
  BY <1>1, <1>2 DEF Execute, SelfTest, stores, Frame, RightAnswer, DigestInv
<1>3. CASE running.cmd = "damaged"
  BY <1>1, <1>3 DEF Execute, stores, Frame, RightAnswer, DigestInv
<1>4. ASSUME running.cmd = Command, running.args = job
      PROVE  /\ RightAnswer(reply)'
             /\ Command \in {"sign", "verify"} => msgDigBuf' \in {None, job.digest}
             /\ Command = "ecdh" => slotKey' = slotKey
  <2>1. CASE Command = "random"
    BY <1>1, <1>4, <2>1 DEF Execute, stores, Frame, RightAnswer
  <2>2. CASE Command = "nonce"
    BY <1>1, <1>4, <2>2 DEF Execute, stores, Frame, RightAnswer
  <2>3. CASE Command = "sign"
    BY <1>1, <1>4, <2>3 DEF Execute, stores, Frame, RightAnswer, DigestInv
  <2>4. CASE Command = "genkey"
    <3>1. slotKey' \in Keys /\ reply' = [Frame("ok") EXCEPT !.key = slotKey']
      BY <1>4, <2>4 DEF Execute
    <3>2. slotKey' # None
      BY <3>1, NoneAssumption
    <3> QED
      BY <1>1, <2>4, <3>1, <3>2 DEF Frame, RightAnswer
  <2>5. CASE Command = "ecdh"
    BY <1>1, <1>4, <2>5 DEF Execute, stores, Frame, RightAnswer, KeyInv
  <2>6. CASE Command = "verify"
    BY <1>1, <1>4, <2>6 DEF Execute, stores, Frame, RightAnswer, DigestInv
  <2> QED
    BY <2>1, <2>2, <2>3, <2>4, <2>5, <2>6, CommandTyped DEF AllCommands
<1> QED
  BY <1>2, <1>3, <1>4 DEF IsCurrent

\* So a delay keeps what is known of the element in the middle of a call.
LEMMA ElapseRight ==
    ASSUME TypeOK, Inv, at # "ready", Elapse, UNCHANGED <<job, step, out>>
    PROVE  /\ IsCurrent(running) => IsCurrent(running)'
           /\ IsCurrent(running) /\ (running = Nothing => RightAnswer(reply))
                => (running' = Nothing => RightAnswer(reply)')
           /\ Command \in {"sign", "verify"} => msgDigBuf' \in {None, job.digest}
           /\ Command = "ecdh" => slotKey' = slotKey
<1>1. Command' = Command
  BY DEF Command
<1>2. CASE running = Nothing \/ left > 0
  <2>1. UNCHANGED <<running, reply, stores>>
    BY <1>2 DEF Elapse, io, stores
  <2> QED
    BY <1>1, <2>1 DEF Inv, DigestInv, IsCurrent, RightAnswer, stores
<1>3. CASE ~(running = Nothing \/ left > 0)
  <2>1. running' = Nothing /\ Execute(running)
    BY <1>3 DEF Elapse
  <2>2. Command \in {"sign", "verify", "ecdh"} => IsCurrent(running)
    BY CommandOf DEF Inv, RunInv
  <2> QED
    BY <1>3, <2>1, <2>2, ExecuteRight DEF Inv, IsCurrent
<1> QED
  BY <1>2, <1>3

\* The command after a genkey or a nonce command, and no other, needs it.
LEMMA NextOf ==
    ASSUME TypeOK, step < Len(Commands[job.op]), job' = job, step' = step + 1
    PROVE  /\ Command \notin {"sign", "ecdh", "verify"}
           /\ Command' \in {"sign", "verify"} => Command = "nonce"
           /\ Command' = "ecdh" => Command = "genkey"
<1>1. CASE job.op = "sign"
  <2>1. step \in {1, 2, 3} /\ Len(Commands[job.op]) = 3
    BY <1>1, CommandOf
  <2>2. step \in {1, 2}
    BY <2>1
  <2> QED
    BY <1>1, <2>2, CommandOf DEF Command, Commands
<1>2. CASE job.op = "ecdhe"
  <2>1. step \in {1, 2} /\ Len(Commands[job.op]) = 2
    BY <1>2, CommandOf
  <2>2. step = 1
    BY <2>1
  <2> QED
    BY <1>2, <2>2, CommandOf DEF Command, Commands
<1>3. CASE job.op = "verify"
  <2>1. step \in {1, 2} /\ Len(Commands[job.op]) = 2
    BY <1>3, CommandOf
  <2>2. step = 1
    BY <2>1
  <2> QED
    BY <1>3, <2>2, CommandOf DEF Command, Commands
<1> QED
  BY <1>1, <1>2, <1>3, CommandOf

\* A step keeps the invariant.
LEMMA RightStep ==
    ASSUME TypeOK, Inv, [Next]_vars
    PROVE  Inv'
<1>1. CASE Call
  <2>1. RunInv'
    BY <1>1
    DEF Inv, RunInv, IsCurrent, Receiving, Call, io, stores, NoOutput
  <2>2. ReplyInv'
    BY <1>1
    DEF Inv, ReplyInv, RunInv, RightAnswer, Receiving, Call, io, stores, NoOutput
  <2>3. PacketInv'
    BY <1>1
    DEF Inv, PacketInv, RightAnswer, Ending, Call, io, stores, NoOutput
  <2>4. DigestInv' /\ KeyInv'
    <3>1. job' \in Jobs /\ step' = 1
      BY <1>1 DEF Call
    <3>2. Command' \in {"random", "genkey", "nonce"}
      BY <3>1 DEF Command, Commands, Jobs, SignJobs, EcdheJobs, VerifyJobs
    <3> QED
      BY <3>2 DEF DigestInv, KeyInv
  <2>5. VerdictInv' /\ Right'
    BY <1>1
    DEF Inv, VerdictInv, Right, SignatureIsOfDigest, SecretIsOfKey, VerdictIsOfDigest,
        Succeeded, Call, io, stores, NoOutput
  <2> QED
    BY <2>1, <2>2, <2>3, <2>4, <2>5 DEF Inv
<1>2. CASE WakePulse
  <2>0. Command' = Command
    BY <1>2 DEF WakePulse, Command
  <2>1. RunInv'
    BY <1>2, <2>0
    DEF Inv, RunInv, IsCurrent, Receiving, WakePulse, io, stores
  <2>2. ReplyInv'
    BY <1>2, <2>0
    DEF Inv, ReplyInv, RunInv, RightAnswer, Receiving, WakePulse, io, stores
  <2>3. PacketInv'
    BY <1>2, <2>0
    DEF Inv, PacketInv, RightAnswer, Ending, WakePulse, io, stores
  <2>4. DigestInv' /\ KeyInv'
    BY <1>2, <2>0
    DEF Inv, DigestInv, KeyInv, WakePulse, io, stores
  <2>5. VerdictInv' /\ Right'
    BY <1>2, <2>0
    DEF Inv, VerdictInv, Right, SignatureIsOfDigest, SecretIsOfKey, VerdictIsOfDigest,
        Succeeded, WakePulse, io, stores
  <2> QED
    BY <2>1, <2>2, <2>3, <2>4, <2>5 DEF Inv
<1>3. CASE WakeReplyRead
  <2>0. Command' = Command
    BY <1>3 DEF WakeReplyRead, Command
  <2>1. RunInv'
    BY <1>3, <2>0
    DEF Inv, RunInv, IsCurrent, Receiving, WakeReplyRead, stores, Woken
  <2>2. ReplyInv'
    BY <1>3, <2>0
    DEF Inv, ReplyInv, RunInv, RightAnswer, Receiving, WakeReplyRead, stores, Woken
  <2>3. PacketInv'
    BY <1>3, <2>0
    DEF Inv, PacketInv, RightAnswer, Ending, WakeReplyRead, stores, Woken
  <2>4. DigestInv' /\ KeyInv'
    BY <1>3, <2>0
    DEF Inv, DigestInv, KeyInv, WakeReplyRead, stores, Woken
  <2>5. VerdictInv' /\ Right'
    BY <1>3, <2>0
    DEF Inv, VerdictInv, Right, SignatureIsOfDigest, SecretIsOfKey, VerdictIsOfDigest,
        Succeeded, WakeReplyRead, stores, Woken
  <2> QED
    BY <2>1, <2>2, <2>3, <2>4, <2>5 DEF Inv
<1>4. CASE WakeReplyFails
  <2>0. Command' = Command
    BY <1>4 DEF WakeReplyFails, Command
  <2>1. RunInv'
    BY <1>4, <2>0
    DEF Inv, RunInv, IsCurrent, Receiving, WakeReplyFails, io, stores
  <2>2. ReplyInv'
    BY <1>4, <2>0
    DEF Inv, ReplyInv, RunInv, RightAnswer, Receiving, WakeReplyFails, io, stores
  <2>3. PacketInv'
    BY <1>4, <2>0
    DEF Inv, PacketInv, RightAnswer, Ending, WakeReplyFails, io, stores
  <2>4. DigestInv' /\ KeyInv'
    BY <1>4, <2>0
    DEF Inv, DigestInv, KeyInv, WakeReplyFails, io, stores
  <2>5. VerdictInv' /\ Right'
    BY <1>4, <2>0
    DEF Inv, VerdictInv, Right, SignatureIsOfDigest, SecretIsOfKey, VerdictIsOfDigest,
        Succeeded, WakeReplyFails, io, stores
  <2> QED
    BY <2>1, <2>2, <2>3, <2>4, <2>5 DEF Inv
<1>5. CASE WakeReplyUnread
  <2>0. /\ Elapse \/ UNCHANGED <<io, stores>>
        /\ at # "ready" /\ UNCHANGED <<job, step, out>> /\ Command' = Command
    BY <1>5 DEF WakeReplyUnread, io, stores, Woken, Command
  <2>1. RunInv'
    BY <1>5, <2>0, ElapseRight
    DEF Inv, RunInv, IsCurrent, Receiving, WakeReplyUnread, io, stores, Woken
  <2>2. ReplyInv'
    BY <1>5, <2>0, ElapseRight
    DEF Inv, ReplyInv, RunInv, RightAnswer, Receiving, WakeReplyUnread, io, stores, Woken
  <2>3. PacketInv'
    BY <1>5, <2>0, ElapseRight
    DEF Inv, PacketInv, RightAnswer, Ending, WakeReplyUnread, io, stores, Woken
  <2>4. DigestInv' /\ KeyInv'
    BY <1>5, <2>0, ElapseRight
    DEF Inv, DigestInv, KeyInv, WakeReplyUnread, io, stores, Woken
  <2>5. VerdictInv' /\ Right'
    BY <1>5, <2>0, ElapseRight
    DEF Inv, VerdictInv, Right, SignatureIsOfDigest, SecretIsOfKey, VerdictIsOfDigest,
        Succeeded, WakeReplyUnread, io, stores, Woken
  <2> QED
    BY <2>1, <2>2, <2>3, <2>4, <2>5 DEF Inv
<1>6. CASE Send
  <2>0. Command' = Command
    BY <1>6 DEF Send, Command
  <2>1. RunInv'
    BY <1>6, <2>0
    DEF Inv, RunInv, IsCurrent, Receiving, Send, io, stores, Sent
  <2>2. ReplyInv'
    <3>1. at' = "wait" => running' # Nothing
      <4>1. Command # "none"
        BY CommandTyped DEF AllCommands
      <4>2. at' = "wait" => \/ running' = [cmd |-> Command, args |-> job]
                            \/ running' = [cmd |-> "damaged", args |-> job]
        BY <1>6 DEF Send, Sent
      <4> QED
        BY <4>1, <4>2 DEF Nothing
    <3>2. at' \in {"wait", "idle"}
      BY <1>6 DEF Send
    <3> QED
      BY <3>1, <3>2 DEF ReplyInv, Receiving
  <2>3. PacketInv'
    BY <1>6, <2>0
    DEF Inv, PacketInv, RightAnswer, Ending, Send, io, stores, Sent
  <2>4. DigestInv' /\ KeyInv'
    BY <1>6, <2>0
    DEF Inv, DigestInv, KeyInv, Send, io, stores, Sent
  <2>5. VerdictInv' /\ Right'
    BY <1>6, <2>0
    DEF Inv, VerdictInv, Right, SignatureIsOfDigest, SecretIsOfKey, VerdictIsOfDigest,
        Succeeded, Send, io, stores, Sent
  <2> QED
    BY <2>1, <2>2, <2>3, <2>4, <2>5 DEF Inv
<1>7. CASE Wait
  <2>0. /\ Elapse \/ UNCHANGED <<io, stores>>
        /\ at # "ready" /\ UNCHANGED <<job, step, out>> /\ Command' = Command
    BY <1>7 DEF Wait, Command
  <2>1. RunInv'
    BY <1>7, <2>0, ElapseRight
    DEF Inv, RunInv, IsCurrent, Receiving, Wait
  <2>2. ReplyInv'
    BY <1>7, <2>0, ElapseRight
    DEF Inv, ReplyInv, RunInv, RightAnswer, Receiving, Wait
  <2>3. PacketInv'
    BY <1>7, <2>0, ElapseRight
    DEF Inv, PacketInv, RightAnswer, Ending, Wait
  <2>4. DigestInv' /\ KeyInv'
    BY <1>7, <2>0, ElapseRight
    DEF Inv, DigestInv, KeyInv, Wait
  <2>5. VerdictInv' /\ Right'
    BY <1>7, <2>0, ElapseRight
    DEF Inv, VerdictInv, Right, SignatureIsOfDigest, SecretIsOfKey, VerdictIsOfDigest,
        Succeeded, Wait
  <2> QED
    BY <2>1, <2>2, <2>3, <2>4, <2>5 DEF Inv
<1>8. CASE CountRead
  <2>0. Command' = Command
    BY <1>8 DEF CountRead, Command
  <2>1. RunInv'
    BY <1>8, <2>0
    DEF Inv, RunInv, IsCurrent, Receiving, CountRead, stores, PollAgain
  <2>2. ReplyInv'
    BY <1>8, <2>0
    DEF Inv, ReplyInv, RunInv, RightAnswer, Receiving, CountRead, stores, PollAgain
  <2>3. PacketInv'
    BY <1>8, <2>0
    DEF Inv, PacketInv, RightAnswer, Ending, CountRead, stores, PollAgain
  <2>4. DigestInv' /\ KeyInv'
    BY <1>8, <2>0
    DEF Inv, DigestInv, KeyInv, CountRead, stores, PollAgain
  <2>5. VerdictInv' /\ Right'
    BY <1>8, <2>0
    DEF Inv, VerdictInv, Right, SignatureIsOfDigest, SecretIsOfKey, VerdictIsOfDigest,
        Succeeded, CountRead, stores, PollAgain
  <2> QED
    BY <2>1, <2>2, <2>3, <2>4, <2>5 DEF Inv
<1>9. CASE CountFails
  <2>0. /\ Elapse \/ UNCHANGED <<io, stores>>
        /\ at # "ready" /\ UNCHANGED <<job, step, out>> /\ Command' = Command
    BY <1>9 DEF CountFails, io, stores, PollAgain, Command
  <2>1. RunInv'
    BY <1>9, <2>0, ElapseRight
    DEF Inv, RunInv, IsCurrent, Receiving, CountFails, io, stores, PollAgain
  <2>2. ReplyInv'
    BY <1>9, <2>0, ElapseRight
    DEF Inv, ReplyInv, RunInv, RightAnswer, Receiving, CountFails, io, stores, PollAgain
  <2>3. PacketInv'
    BY <1>9, <2>0, ElapseRight
    DEF Inv, PacketInv, RightAnswer, Ending, CountFails, io, stores, PollAgain
  <2>4. DigestInv' /\ KeyInv'
    BY <1>9, <2>0, ElapseRight
    DEF Inv, DigestInv, KeyInv, CountFails, io, stores, PollAgain
  <2>5. VerdictInv' /\ Right'
    BY <1>9, <2>0, ElapseRight
    DEF Inv, VerdictInv, Right, SignatureIsOfDigest, SecretIsOfKey, VerdictIsOfDigest,
        Succeeded, CountFails, io, stores, PollAgain
  <2> QED
    BY <2>1, <2>2, <2>3, <2>4, <2>5 DEF Inv
<1>10. CASE RestRead
  <2>0. Command' = Command
    BY <1>10 DEF RestRead, Command
  <2>1. RunInv'
    BY <1>10, <2>0
    DEF Inv, RunInv, IsCurrent, Receiving, RestRead, stores, Checked
  <2>2. ReplyInv'
    BY <1>10, <2>0
    DEF Inv, ReplyInv, RunInv, RightAnswer, Receiving, RestRead, stores, Checked
  <2>3. PacketInv'
    <3>1. packet' \in {reply, Garbage} /\ status' = Checked(packet')
      BY <1>10 DEF RestRead
    <3>2. running = Nothing /\ RightAnswer(reply)
      BY <1>10 DEF RestRead, Listens, Inv, ReplyInv, Receiving
    <3>3. UNCHANGED <<running, job, out, msgDigBuf, slotKey>>
      BY <1>10 DEF RestRead, stores
    <3>4. CASE packet' = reply
      BY <2>0, <3>1, <3>2, <3>3, <3>4 DEF Checked, RightAnswer, PacketInv
    <3>5. CASE packet' = Garbage
      BY <3>1, <3>5 DEF Checked, Garbage, Frame, PacketInv
    <3> QED
      BY <3>1, <3>4, <3>5
  <2>4. DigestInv' /\ KeyInv'
    BY <1>10, <2>0
    DEF Inv, DigestInv, KeyInv, RestRead, stores, Checked
  <2>5. VerdictInv' /\ Right'
    BY <1>10, <2>0
    DEF Inv, VerdictInv, Right, SignatureIsOfDigest, SecretIsOfKey, VerdictIsOfDigest,
        Succeeded, RestRead, stores, Checked
  <2> QED
    BY <2>1, <2>2, <2>3, <2>4, <2>5 DEF Inv
<1>11. CASE RestFails
  <2>0. Command' = Command
    BY <1>11 DEF RestFails, Command
  <2>1. RunInv'
    BY <1>11, <2>0
    DEF Inv, RunInv, IsCurrent, Receiving, RestFails, stores, PollAgain
  <2>2. ReplyInv'
    BY <1>11, <2>0
    DEF Inv, ReplyInv, RunInv, RightAnswer, Receiving, RestFails, stores, PollAgain
  <2>3. PacketInv'
    BY <1>11, <2>0
    DEF Inv, PacketInv, RightAnswer, Ending, RestFails, stores, PollAgain
  <2>4. DigestInv' /\ KeyInv'
    BY <1>11, <2>0
    DEF Inv, DigestInv, KeyInv, RestFails, stores, PollAgain
  <2>5. VerdictInv' /\ Right'
    BY <1>11, <2>0
    DEF Inv, VerdictInv, Right, SignatureIsOfDigest, SecretIsOfKey, VerdictIsOfDigest,
        Succeeded, RestFails, stores, PollAgain
  <2> QED
    BY <2>1, <2>2, <2>3, <2>4, <2>5 DEF Inv
<1>12. CASE Idle
  <2>0. /\ Elapse \/ UNCHANGED <<running, reply, stores>>
        /\ at # "ready" /\ UNCHANGED <<job, step, out>> /\ Command' = Command
    BY <1>12 DEF Idle, io, stores, Command
  <2>1. RunInv'
    BY <1>12, <2>0, ElapseRight
    DEF Inv, RunInv, IsCurrent, Receiving, Idle, io, stores
  <2>2. ReplyInv'
    BY <1>12, <2>0, ElapseRight
    DEF Inv, ReplyInv, RunInv, RightAnswer, Receiving, Idle, io, stores
  <2>3. PacketInv'
    <3>1. running = Nothing => UNCHANGED <<running, stores>>
      BY <2>0 DEF Elapse, io, stores
    <3>2. at = "idle" /\ UNCHANGED <<packet, status>>
      BY <1>12 DEF Idle
    <3> QED
      BY <2>0, <3>1, <3>2 DEF Inv, PacketInv, RightAnswer, Ending, stores
  <2>4. DigestInv' /\ KeyInv'
    BY <1>12, <2>0, ElapseRight
    DEF Inv, DigestInv, KeyInv, Idle, io, stores
  <2>5. VerdictInv' /\ Right'
    BY <1>12, <2>0, ElapseRight
    DEF Inv, VerdictInv, Right, SignatureIsOfDigest, SecretIsOfKey, VerdictIsOfDigest,
        Succeeded, Idle, io, stores
  <2> QED
    BY <2>1, <2>2, <2>3, <2>4, <2>5 DEF Inv
<1>13. CASE NextCommand
  <2>1. /\ at = "return" /\ status = "success" /\ step < Len(Commands[job.op])
        /\ CopyOutput /\ at' = "pulse" /\ step' = step + 1 /\ job' = job
        /\ UNCHANGED <<running, msgDigBuf, slotKey>>
    BY <1>13 DEF NextCommand, io, stores
  <2>2. running = Nothing /\ RightAnswer(packet) /\ packet.status = "ok"
    BY <2>1 DEF Inv, PacketInv, Ending
  <2>3. /\ Command \notin {"sign", "ecdh", "verify"}
        /\ Command' \in {"sign", "verify"} => Command = "nonce"
        /\ Command' = "ecdh" => Command = "genkey"
    BY <2>1, NextOf
  <2>4. RunInv' /\ ReplyInv' /\ PacketInv'
    BY <2>1, <2>2 DEF RunInv, ReplyInv, PacketInv, IsCurrent, Receiving, Ending
  <2>5. DigestInv'
    BY <2>1, <2>2, <2>3 DEF DigestInv, RightAnswer
  <2>6. KeyInv'
    <3> SUFFICES ASSUME Command' = "ecdh" PROVE slotKey' = out'.public /\ out'.public # None
      BY DEF KeyInv
    <3>1. Command = "genkey"
      BY <2>3
    <3>2. out' = [out EXCEPT !.public = packet.key]
      BY <2>1, <3>1 DEF CopyOutput
    <3> QED
      BY <2>1, <2>2, <3>1, <3>2 DEF RightAnswer, TypeOK, CallTypeOK
  <2>7. VerdictInv'
    BY <2>1, <2>3 DEF CopyOutput, Inv, VerdictInv, TypeOK, CallTypeOK
  <2>8. Right'
    BY <2>1 DEF Right, SignatureIsOfDigest, SecretIsOfKey, VerdictIsOfDigest, Succeeded
  <2> QED
    BY <2>4, <2>5, <2>6, <2>7, <2>8 DEF Inv
<1>14. CASE CallReturns
  <2>1. RunInv'
    BY <1>14
    DEF Inv, RunInv, IsCurrent, Receiving, CallReturns, io, stores
  <2>2. ReplyInv'
    BY <1>14
    DEF Inv, ReplyInv, RunInv, RightAnswer, Receiving, CallReturns, io, stores
  <2>3. PacketInv'
    BY <1>14
    DEF Inv, PacketInv, RightAnswer, Ending, CallReturns, io, stores
  <2>4. DigestInv' /\ KeyInv'
    BY <1>14
    DEF Inv, DigestInv, KeyInv, CallReturns, io, stores
  <2>5. VerdictInv'
    BY <1>14 DEF CallReturns, VerdictInv
  <2>6. /\ at = "return" /\ at' = "ready" /\ job' = job
        /\ status # "failed" => running = Nothing /\ RightAnswer(packet)
        /\ status = "success" => packet.status = "ok"
        /\ status = "mismatch" => packet.status = "mismatch"
    BY <1>14 DEF CallReturns, Inv, PacketInv, Ending
  <2>7. ASSUME status = "success" PROVE Right'
    <3>1. step = Len(Commands[job.op]) /\ CopyOutput
      BY <1>14, <2>7 DEF CallReturns
    <3>2. RightAnswer(packet) /\ packet.status = "ok"
      BY <2>6, <2>7
    <3>3. CASE job.op = "sign"
      <4>1. Command = "sign"
        BY <3>1, <3>3, CommandOf
      <4>2. out' = [out EXCEPT !.digest = packet.digest]
        BY <3>1, <4>1 DEF CopyOutput
      <4> QED
        BY <2>6, <3>2, <3>3, <4>1, <4>2
        DEF RightAnswer, Right, SignatureIsOfDigest, SecretIsOfKey, VerdictIsOfDigest,
            Succeeded,
            TypeOK, CallTypeOK
    <3>4. CASE job.op = "ecdhe"
      <4>1. Command = "ecdh"
        BY <3>1, <3>4, CommandOf
      <4>2. out' = [out EXCEPT !.secretKey = packet.key, !.secretPeer = packet.peer]
        BY <3>1, <4>1 DEF CopyOutput
      <4>3. out.public # None
        BY <2>6, <4>1 DEF Inv, KeyInv
      <4> QED
        BY <2>6, <3>2, <3>4, <4>1, <4>2, <4>3
        DEF RightAnswer, Right, SignatureIsOfDigest, SecretIsOfKey, VerdictIsOfDigest,
            Succeeded,
            TypeOK, CallTypeOK
    <3>5. CASE job.op = "verify"
      <4>1. Command = "verify"
        BY <3>1, <3>5, CommandOf
      <4>2. out' = [out EXCEPT !.verified = TRUE]
        BY <3>1, <4>1 DEF CopyOutput
      <4> QED
        BY <2>6, <3>2, <3>5, <4>1, <4>2
        DEF RightAnswer, Right, SignatureIsOfDigest, SecretIsOfKey, VerdictIsOfDigest,
            Succeeded,
            TypeOK, CallTypeOK
    <3> QED
      BY <3>3, <3>4, <3>5, CommandOf
  <2>8. ASSUME status # "success" PROVE Right'
    <3>1. out' = out /\ (result' = "success" => status = "mismatch" /\ Command = "verify")
      BY <1>14, <2>8 DEF CallReturns
    <3>2. result' = "success" => job.op = "verify" /\ job.signed # job.digest
      <4>1. result' = "success" => Command = "verify" /\ job.signed # job.digest
        BY <2>6, <3>1 DEF RightAnswer
      <4> QED
        BY <4>1, CommandOf
    <3>3. ~out.verified
      BY <2>6 DEF Inv, VerdictInv
    <3> QED
      BY <2>6, <3>1, <3>2, <3>3
      DEF Right, SignatureIsOfDigest, SecretIsOfKey, VerdictIsOfDigest, Succeeded
  <2> QED
    BY <2>1, <2>2, <2>3, <2>4, <2>5, <2>7, <2>8 DEF Inv
<1>15. CASE Watchdog
  <2>0. UNCHANGED <<host, Command>>
    BY <1>15 DEF Watchdog, host, Command
  <2>1. RunInv'
    BY <1>15, <2>0
    DEF Inv, RunInv, IsCurrent, Receiving, Watchdog, host, Garbage, Frame
  <2>2. ReplyInv'
    BY <1>15, <2>0
    DEF Inv, ReplyInv, RunInv, RightAnswer, Receiving, Watchdog, host, Garbage, Frame
  <2>3. PacketInv'
    BY <1>15, <2>0
    DEF Inv, PacketInv, RightAnswer, Ending, Watchdog, host
  <2>4. DigestInv' /\ KeyInv'
    BY <1>15, <2>0
    DEF Inv, DigestInv, KeyInv, Watchdog, host
  <2>5. VerdictInv' /\ Right'
    BY <1>15, <2>0
    DEF Inv, VerdictInv, Right, SignatureIsOfDigest, SecretIsOfKey, VerdictIsOfDigest,
        Succeeded, Watchdog, host
  <2> QED
    BY <2>1, <2>2, <2>3, <2>4, <2>5 DEF Inv
<1>16. CASE UNCHANGED vars
  BY <1>16 DEF Inv, RunInv, ReplyInv, PacketInv, DigestInv, KeyInv, VerdictInv, Right,
      SignatureIsOfDigest, SecretIsOfKey, VerdictIsOfDigest, Succeeded,
     IsCurrent, RightAnswer, Command, vars, host, io, stores
<1> QED
  BY <1>1, <1>2, <1>3, <1>4, <1>5, <1>6, <1>7, <1>8, <1>9, <1>10, <1>11, <1>12, <1>13,
      <1>14, <1>15, <1>16 DEF Next, Execution

\* The invariant holds before the first call.
LEMMA RightInit ==
    ASSUME Init
    PROVE  Inv
BY DEF Init, Inv, RunInv, ReplyInv, PacketInv, DigestInv, KeyInv, VerdictInv, Receiving,
    Ending,
   Right, SignatureIsOfDigest, SecretIsOfKey, VerdictIsOfDigest, Succeeded

\* Only current commands are executed, and what has been reached of a call stays right.
THEOREM Invariance == Spec => []Inv
<1>1. Init => Inv
  BY RightInit
<1>2. TypeOK /\ Inv /\ [Next]_vars => Inv'
  BY RightStep
<1> QED
  BY <1>1, <1>2, Typed, PTL DEF Spec

\* A signature that atcatls_sign returns is of the digest of that call, whatever
\* fails on the bus, whenever the watchdog fires, and however long executions take.
THEOREM SignatureRight == Spec => []SignatureIsOfDigest
<1>1. Inv => SignatureIsOfDigest
  BY DEF Inv, Right
<1> QED
  BY <1>1, Invariance, PTL

\* The public key and the secret that atcatls_ecdhe returns belong together.
THEOREM SecretRight == Spec => []SecretIsOfKey
<1>1. Inv => SecretIsOfKey
  BY DEF Inv, Right
<1> QED
  BY <1>1, Invariance, PTL

\* atcatls_verify that succeeds has the verdict of the element on this signature.
THEOREM VerdictRight == Spec => []VerdictIsOfDigest
<1>1. Inv => VerdictIsOfDigest
  BY DEF Inv, Right
<1> QED
  BY <1>1, Invariance, PTL

=========================
