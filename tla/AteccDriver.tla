---------------------------- MODULE AteccDriver -----------------------------
(***************************************************************************)
(* CryptoAuthLib as the TLS callbacks of main.c use it: atcatls_sign,      *)
(* atcatls_ecdhe and atcatls_verify, the commands they are made of,        *)
(* atca_execute_command, and the I2C HAL below it.  The secure element and *)
(* the bus are external: the element sleeps, wakes, executes and forgets,  *)
(* a transfer can fail and a frame can be damaged.                         *)
(*                                                                         *)
(* A step of the driver is one I2C transfer with what follows it up to the *)
(* next one.  The driver has one caller, the MQTT task.                    *)
(***************************************************************************)
EXTENDS Integers, Sequences

CONSTANTS
    Digests,         \* SHA-256 digests to sign or verify
    Keys,            \* private keys the element may generate, and their public keys
    Peers,           \* public keys of peers
    None,            \* none of these
    RxRetries,       \* cfg->rx_retries
    MaxPolls,        \* ATCA_POLLING_MAX_TIME_MSEC / ATCA_POLLING_FREQUENCY_TIME_MSEC
    MaxExec,         \* bound: delays of the driver that an execution may last
    MaxFaults        \* bound: transfers that fail, slow executions, watchdogs

ASSUME NoneAssumption == None \notin Digests \cup Keys \cup Peers
ASSUME LimitsAssumption ==
    /\ RxRetries \in Nat \ {0} /\ MaxPolls \in Nat /\ MaxFaults \in Nat
    /\ MaxExec \in Nat /\ MaxExec >= MaxPolls

VARIABLES
    at,              \* the transfer or the delay the driver is at
    job,             \* the call of the TLS callback, with its arguments
    step,            \* which of its commands is executed
    retries, polls,  \* the locals retries and max_delay_count
    postWaited,      \* atwake is at its second attempt
    counted,         \* the length byte received was that of the reply
    packet,          \* packet->data
    status,          \* the local status of atca_execute_command
    result,          \* how the last call returned
    out,             \* its output parameters
    baud,            \* the speed of the bus: the configured one, or 100 kHz
    power,           \* of the element
    running,         \* what the element is executing
    left,            \* and for how many more delays
    reply, sent,     \* its output buffer, and how much of it has been read
    msgDigBuf,       \* its Message Digest Buffer
    slotKey,         \* the key in slot TLS_SLOT_ECDHE_PRIV
    faults           \* bound

host == <<at, job, step, retries, polls, postWaited, counted, packet, status, result,
          out, baud>>
io == <<power, running, left, reply, sent>>
stores == <<msgDigBuf, slotKey>>
vars == <<host, io, stores, faults>>

\* The calls, with the arguments of each.  A signature to verify is known by the
\* digest it is of.
SignJobs == [op: {"sign"}, digest: Digests]
EcdheJobs == [op: {"ecdhe"}, peer: Peers]
VerifyJobs == [op: {"verify"}, digest: Digests, signed: Digests]
Jobs == SignJobs \cup EcdheJobs \cup VerifyJobs

\* The commands of atcatls_sign, atcatls_ecdhe and atcatls_verify in order.
Commands == [sign   |-> <<"random", "nonce", "sign">>,
             ecdhe  |-> <<"genkey", "ecdh">>,
             verify |-> <<"nonce", "verify">>]

Command == Commands[job.op][step]

\* What the element can be asked to execute: a command with its arguments, one
\* that was damaged on the bus, or its self test after a wake from sleep.
Requests == [cmd: {"random", "nonce", "sign", "damaged"}, args: SignJobs]
            \cup [cmd: {"genkey", "ecdh", "damaged"}, args: EcdheJobs]
            \cup [cmd: {"nonce", "verify", "damaged"}, args: VerifyJobs]
SelfTest == [cmd |-> "selftest"]
Nothing == [cmd |-> "none"]

\* A frame in the output buffer: a status alone, or data that was computed from
\* the arguments, the Message Digest Buffer and the key of the slot.
Statuses == {"woken", "ok", "mismatch", "error", "garbage"}
Frame(word) == [status |-> word, digest |-> None, key |-> None, peer |-> None]
Frames == [status: Statuses, digest: Digests \cup {None}, key: Keys \cup {None},
           peer: Peers \cup {None}]
Garbage == Frame("garbage")

NoOutput == [digest |-> None, public |-> None, secretKey |-> None, secretPeer |-> None,
             verified |-> FALSE]

Wakes == {"pulse", "wakeReply"}
Replies == {"count", "rest"}

CallTypeOK ==
    /\ job \in Jobs /\ step \in 1..3 /\ step <= Len(Commands[job.op])
    /\ result \in {"none", "success", "failed"}
    /\ out \in [digest: Digests \cup {None}, public: Keys \cup {None},
                secretKey: Keys \cup {None}, secretPeer: Peers \cup {None},
                verified: BOOLEAN]

DriverTypeOK ==
    /\ at \in {"ready", "send", "wait", "idle", "return"} \cup Wakes \cup Replies
    /\ retries \in 0..RxRetries /\ polls \in 0..MaxPolls
    /\ postWaited \in BOOLEAN /\ counted \in BOOLEAN
    /\ packet \in Frames
    /\ status \in {"success", "mismatch", "failed"}
    /\ baud \in {"configured", "slow"}
    /\ at = "wakeReply" => retries > 0

ElementTypeOK ==
    /\ power \in {"sleep", "idle", "awake"}
    /\ running \in Requests \cup {SelfTest, Nothing} /\ left \in 0..MaxExec
    /\ reply \in Frames /\ sent \in 0..2
    /\ msgDigBuf \in Digests \cup {None} /\ slotKey \in Keys \cup {None}
    /\ faults \in 0..MaxFaults

TypeOK == CallTypeOK /\ DriverTypeOK /\ ElementTypeOK

\* main has used the element before the scheduler started: the bus has the
\* configured speed, the element is idle, or asleep after a reset of the board.
Init ==
    /\ at = "ready" /\ job \in Jobs /\ step = 1
    /\ retries = 0 /\ polls = 0 /\ postWaited = FALSE /\ counted = FALSE
    /\ packet = Garbage /\ status = "success" /\ result = "none" /\ out = NoOutput
    /\ baud = "configured"
    /\ power \in {"sleep", "idle"} /\ running = Nothing /\ left = 0
    /\ reply = Garbage /\ sent = 2
    /\ msgDigBuf = None /\ slotKey = None
    /\ faults = 0

-----------------------------------------------------------------------------
(* The element. *)

\* It acknowledges its address.
Listens == power = "awake" /\ running = Nothing

Fault == faults < MaxFaults /\ faults' = faults + 1

\* What a command leaves in the output buffer and in the element.  Without a
\* digest, or a key, the command cannot be executed.
Execute(r) ==
    CASE r.cmd = "selftest" -> reply' = Frame("woken") /\ UNCHANGED stores
      [] r.cmd = "damaged"  -> reply' = Frame("error") /\ UNCHANGED stores
      [] r.cmd = "random"   -> reply' = Frame("ok") /\ UNCHANGED stores
      [] r.cmd = "nonce"    -> /\ reply' = Frame("ok")
                               /\ msgDigBuf' = r.args.digest /\ UNCHANGED slotKey
      [] r.cmd = "genkey"   -> /\ slotKey' \in Keys /\ UNCHANGED msgDigBuf
                               /\ reply' = [Frame("ok") EXCEPT !.key = slotKey']
      [] r.cmd = "sign"     -> /\ reply' = IF msgDigBuf = None THEN Frame("error")
                                           ELSE [Frame("ok") EXCEPT !.digest = msgDigBuf]
                               /\ msgDigBuf' \in {None, msgDigBuf} /\ UNCHANGED slotKey
      [] r.cmd = "ecdh"     -> /\ reply' = IF slotKey = None THEN Frame("error")
                                           ELSE [Frame("ok") EXCEPT !.key = slotKey,
                                                                    !.peer = r.args.peer]
                               /\ UNCHANGED stores
      [] r.cmd = "verify"   -> /\ reply' = IF msgDigBuf = None THEN Frame("error")
                                           ELSE IF msgDigBuf = r.args.signed
                                                THEN Frame("ok") ELSE Frame("mismatch")
                               /\ msgDigBuf' \in {None, msgDigBuf} /\ UNCHANGED slotKey

\* A delay of the driver, long enough for the element to get on.
Elapse ==
    IF running = Nothing THEN UNCHANGED <<io, stores>>
    ELSE IF left > 0
    THEN left' = left - 1 /\ UNCHANGED <<power, running, reply, sent, stores>>
    ELSE running' = Nothing /\ sent' = 0 /\ Execute(running) /\ UNCHANGED <<power, left>>

\* The watchdog of an element that stays awake puts it to sleep, where it
\* forgets everything but its keys.
Watchdog ==
    /\ power = "awake" /\ Fault
    /\ power' = "sleep" /\ running' = Nothing /\ reply' = Garbage /\ sent' = 2
    /\ msgDigBuf' = None
    /\ UNCHANGED <<host, left, slotKey>>

-----------------------------------------------------------------------------
(* The driver. *)

\* A TLS callback calls atcatls_sign, atcatls_ecdhe or atcatls_verify.  The
\* latter reaches atcab_verify_extern, which clears its result.
Call ==
    /\ at = "ready" /\ at' = "pulse"
    /\ job' \in Jobs /\ step' = 1 /\ postWaited' = FALSE
    /\ out' = NoOutput /\ result' = "none"
    /\ UNCHANGED <<retries, polls, counted, packet, status, baud, io, stores, faults>>

\* hal_i2c_wake up to the wake pulse, a write to address 0 that nobody
\* acknowledges.  An element that sleeps may run its self test first; one that is
\* awake takes no notice.
WakePulse ==
    /\ at = "pulse" /\ at' = "wakeReply"
    /\ baud' = "slow" /\ retries' = RxRetries
    /\ \/ /\ power \in {"idle", "sleep"} /\ power' = "awake"
          /\ reply' = Frame("woken") /\ sent' = 0
          /\ UNCHANGED <<running, left, faults>>
       \/ /\ power = "sleep" /\ power' = "awake"
          /\ running' = SelfTest /\ left' = 0
          /\ UNCHANGED <<reply, sent, faults>>
       \/ power = "awake" /\ UNCHANGED <<io, faults>>
       \/ power # "awake" /\ Fault /\ UNCHANGED io
    /\ UNCHANGED <<job, step, polls, postWaited, counted, packet, status, result, out, stores>>

\* What hal_check_wake makes of four bytes.
Outcomes == {"success", "selfTestError", "wakeFailed"}

\* atwake and atca_execute_command after hal_i2c_wake: a first failure is tried
\* again after the time a self test takes, but not the report that it failed.
Woken(outcome) ==
    \/ outcome = "success" /\ at' = "send" /\ UNCHANGED <<postWaited, status>>
    \/ /\ outcome = "wakeFailed" /\ ~postWaited
       /\ at' = "pulse" /\ postWaited' = TRUE /\ UNCHANGED status
    \/ /\ outcome = "wakeFailed" /\ postWaited
       /\ at' = "idle" /\ status' = "failed" /\ UNCHANGED postWaited
    \/ outcome = "selfTestError" /\ at' = "idle" /\ status' = "failed" /\ UNCHANGED postWaited

Answered == reply.status = "woken" /\ sent = 0

\* Four bytes are read, which may be the answer to the wake, and the speed is
\* restored.  A fault damages them, or fails the self test they report.
WakeReplyRead ==
    /\ at = "wakeReply" /\ Listens
    /\ baud' = "configured" /\ retries' = retries - 1 /\ sent' = 2
    /\ \/ Answered /\ Woken("success") /\ UNCHANGED faults
       \/ ~Answered /\ Woken("wakeFailed") /\ UNCHANGED faults
       \/ Fault /\ \E outcome \in {"selfTestError", "wakeFailed"} : Woken(outcome)
    /\ UNCHANGED <<job, step, polls, counted, packet, result, out,
                   power, running, left, reply, stores>>

\* The read fails and is tried again.
WakeReplyFails ==
    /\ at = "wakeReply" /\ retries > 1
    /\ IF Listens THEN Fault ELSE UNCHANGED faults
    /\ retries' = retries - 1
    /\ UNCHANGED <<at, job, step, polls, postWaited, counted, packet, status, result, out, baud,
                   io, stores>>

\* What hal_check_wake makes of data[4] when it was never written.  What is on the
\* stack may be the answer to an earlier wake, and none of those has reported a
\* failed self test unless there was a fault.
Residues == IF faults = 0 THEN Outcomes \ {"selfTestError"} ELSE Outcomes

\* The last read fails too.  The bus stays slow.
WakeReplyUnread ==
    /\ at = "wakeReply" /\ retries = 1
    /\ IF Listens THEN Fault ELSE UNCHANGED faults
    /\ retries' = 0
    /\ \E outcome \in Residues : Woken(outcome)
    /\ IF at' = "pulse" THEN Elapse ELSE UNCHANGED <<io, stores>>
    /\ UNCHANGED <<job, step, polls, counted, packet, result, out, baud>>

Sent(request, times) ==
    /\ running' = request /\ left' \in times
    /\ reply' = Garbage /\ sent' = 2 /\ UNCHANGED power

\* Executions that end while the driver polls, and those that do not.
InTime == 0..MaxPolls
Late == MaxPolls + 1 .. MaxExec

\* hal_i2c_send.  A transfer that failed for the driver may have reached the
\* element all the same.
Send ==
    /\ at = "send" /\ polls' = MaxPolls
    /\ LET request == [cmd |-> Command, args |-> job] IN
       \/ /\ Listens /\ at' = "wait" /\ Sent(request, InTime)
          /\ UNCHANGED <<status, faults>>
       \/ /\ Listens /\ Fault /\ at' = "wait" /\ UNCHANGED status
          /\ Sent(request, Late) \/ Sent([request EXCEPT !.cmd = "damaged"], InTime)
       \/ /\ Listens /\ Fault /\ at' = "idle" /\ status' = "failed"
          /\ Sent(request, InTime) \/ UNCHANGED io
       \/ /\ ~Listens /\ at' = "idle" /\ status' = "failed" /\ UNCHANGED <<io, faults>>
    /\ UNCHANGED <<job, step, retries, postWaited, counted, packet, result, out, baud, stores>>

\* The initial delay, and the entry of hal_i2c_receive.
Wait ==
    /\ at = "wait" /\ at' = "count" /\ retries' = RxRetries /\ Elapse
    /\ UNCHANGED <<job, step, polls, postWaited, counted, packet, status, result, out, baud,
                   faults>>

\* mutant: the polls are not counted.
PollAgainUncounted ==
    /\ at' = "count" /\ retries' = RxRetries
    /\ UNCHANGED <<polls, status>>

\* hal_i2c_receive has failed: the next poll, or the end of polling.  The delay
\* matters to an element that is executing (Elapse in CountFails) only.
PollAgain ==
    IF polls > 0
    THEN /\ at' = "count" /\ polls' = polls - 1 /\ retries' = RxRetries
         /\ UNCHANGED status
    ELSE at' = "idle" /\ status' = "failed" /\ UNCHANGED <<polls, retries>>

\* The length byte is read, or what the element sends at that place: a byte that
\* is no length of a reply fails the poll.
CountRead ==
    /\ at = "count" /\ Listens /\ sent' = (IF sent = 0 THEN 1 ELSE 2)
    /\ \/ /\ sent = 0 /\ counted' = TRUE /\ at' = "rest"
          /\ UNCHANGED <<retries, polls, status, faults>>
       \/ /\ IF sent = 0 THEN Fault ELSE UNCHANGED faults
          /\ counted' = FALSE
          /\ \/ PollAgain
             \/ at' = "rest" /\ UNCHANGED <<retries, polls, status>>
    /\ UNCHANGED <<job, step, postWaited, packet, result, out, baud, power, running, left,
                   reply, stores>>

\* The read of the length byte fails: the element is busy, or the bus.
CountFails ==
    /\ at = "count"
    /\ IF Listens THEN Fault ELSE UNCHANGED faults
    /\ IF retries > 1 THEN /\ retries' = retries - 1
                           /\ UNCHANGED <<at, polls, status, io, stores>>
       ELSE PollAgain /\ Elapse
    /\ UNCHANGED <<job, step, postWaited, counted, packet, result, out, baud>>

\* mutant: the checksum is not looked at
CheckedErrorOnly(frame) ==
    CASE frame.status \in {"ok", "garbage"} -> "success"
      [] frame.status = "mismatch"          -> "mismatch"
      [] OTHER                              -> "failed"

\* atCheckCrc and isATCAError.  Only a whole undamaged frame has the right checksum.
Checked(frame) ==
    CASE frame.status = "ok"       -> "success"
      [] frame.status = "mismatch" -> "mismatch"
      [] OTHER                     -> "failed"

\* The rest is read and checked.
RestRead ==
    /\ at = "rest" /\ Listens /\ at' = "idle" /\ sent' = 2
    /\ \/ packet' = (IF counted /\ sent = 1 THEN reply ELSE Garbage) /\ UNCHANGED faults
       \/ packet' = Garbage /\ Fault
    /\ status' = Checked(packet')
    /\ UNCHANGED <<job, step, retries, polls, postWaited, counted, result, out, baud,
                   power, running, left, reply, stores>>

RestFails ==
    /\ at = "rest"
    /\ IF Listens THEN Fault /\ sent' \in {sent, 2} ELSE UNCHANGED <<sent, faults>>
    /\ PollAgain
    /\ UNCHANGED <<job, step, postWaited, counted, packet, result, out, baud,
                   power, running, left, reply, stores>>

\* mutant: a command that failed does not put the element into idle.
IdleOnSuccess ==
    /\ at = "idle" /\ at' = "return"
    /\ \/ /\ Listens /\ power' = IF status = "success" THEN "idle" ELSE power
          /\ UNCHANGED <<running, left, reply, sent, stores, faults>>
       \/ ~Listens /\ Elapse /\ UNCHANGED faults
    /\ UNCHANGED <<job, step, retries, polls, postWaited, counted, packet, status, result,
                   out, baud>>

\* atidle, whose result atca_execute_command ignores.
Idle ==
    /\ at = "idle" /\ at' = "return"
    /\ \/ /\ Listens /\ power' = "idle"
          /\ UNCHANGED <<running, left, reply, sent, stores, faults>>
       \/ Listens /\ Fault /\ UNCHANGED <<io, stores>>
       \/ ~Listens /\ Elapse /\ UNCHANGED faults
    /\ UNCHANGED <<job, step, retries, polls, postWaited, counted, packet, status, result,
                   out, baud>>

\* What atcab_xxx copies from the packet of a command that succeeded.
CopyOutput ==
    out' = CASE Command = "sign"   -> [out EXCEPT !.digest = packet.digest]
             [] Command = "genkey" -> [out EXCEPT !.public = packet.key]
             [] Command = "ecdh"   -> [out EXCEPT !.secretKey = packet.key,
                                                  !.secretPeer = packet.peer]
             [] Command = "verify" -> [out EXCEPT !.verified = TRUE]
             [] OTHER              -> out

\* mutant: the next command is executed whether this one succeeded or not.
NextCommandAnyway ==
    /\ at = "return" /\ step < Len(Commands[job.op])
    /\ IF status = "success" THEN CopyOutput ELSE UNCHANGED out
    /\ at' = "pulse" /\ step' = step + 1 /\ postWaited' = FALSE
    /\ UNCHANGED <<job, retries, polls, counted, packet, status, result, baud, io, stores, faults>>

\* A command succeeded and the call has another one to execute.
NextCommand ==
    /\ at = "return" /\ status = "success" /\ step < Len(Commands[job.op])
    /\ CopyOutput
    /\ at' = "pulse" /\ step' = step + 1 /\ postWaited' = FALSE
    /\ UNCHANGED <<job, retries, polls, counted, packet, status, result, baud, io, stores, faults>>

\* mutant: a verification that failed in any way is a verdict.
CallReturnsVerdict ==
    /\ at = "return" /\ at' = "ready"
    /\ \/ /\ status = "success" /\ step = Len(Commands[job.op])
          /\ CopyOutput /\ result' = "success"
       \/ /\ status # "success" /\ UNCHANGED out
          /\ result' = IF Command = "verify" THEN "success" ELSE "failed"
    /\ UNCHANGED <<job, step, retries, polls, postWaited, counted, packet, status, baud,
                   io, stores, faults>>

\* The call ends with its last command or with one that failed.  A signature that
\* does not match is no failure.
CallReturns ==
    /\ at = "return" /\ at' = "ready"
    /\ \/ /\ status = "success" /\ step = Len(Commands[job.op])
          /\ CopyOutput /\ result' = "success"
       \/ /\ status # "success" /\ UNCHANGED out
          /\ result' = IF status = "mismatch" /\ Command = "verify" THEN "success"
                       ELSE "failed"
    /\ UNCHANGED <<job, step, retries, polls, postWaited, counted, packet, status, baud,
                   io, stores, faults>>

Execution == \/ WakePulse \/ WakeReplyRead \/ WakeReplyFails \/ WakeReplyUnread
             \/ Send \/ Wait \/ CountRead \/ CountFails \/ RestRead \/ RestFails
             \/ Idle \/ NextCommand \/ CallReturns

Next == Call \/ Execution \/ Watchdog

Spec == Init /\ [][Next]_vars

\* The MQTT task runs whatever the element does.
FairSpec == Spec /\ WF_vars(Execution)

-----------------------------------------------------------------------------
(* What makes the driver correct. *)

Succeeded(op) == at = "ready" /\ result = "success" /\ job.op = op

\* atcatls_sign returns a signature of the digest it was given: not of one that an
\* earlier call or a retried command left in the Message Digest Buffer, and not
\* made of bytes that answer something else.
SignatureIsOfDigest == Succeeded("sign") => out.digest = job.digest

\* atcatls_ecdhe returns a public key and a secret that belong together, and to
\* this peer, although the element generates a key in one command and uses what
\* it finds in the slot in another.
SecretIsOfKey ==
    Succeeded("ecdhe") => /\ out.public # None /\ out.secretKey = out.public
                          /\ out.secretPeer = job.peer

\* atcatls_verify says whether this signature is one of this digest: a fault makes
\* the call fail, it never decides.
VerdictIsOfDigest == Succeeded("verify") => (out.verified <=> job.signed = job.digest)

\* Every call returns, whatever fails.
CallsReturn == at # "ready" ~> at = "ready"

\* Once the bus is good calls succeed: no state that faults leave the element or
\* the bus in (awake, asleep, half read, slow) lasts.
Recovers == []<>(at # "ready") => <>[](result # "failed")

\* "The device might be performing a POST. Wait for it to complete and try again"
\* (atwake): with a good bus an element that was asleep fails no call.
GoodBusSucceeds == faults = 0 => result # "failed"
=============================================================================
