------------------------------- MODULE CtapHid -------------------------------
(***************************************************************************)
(* CTAPHID framing: package ctap2's call / sendRequest / readResponse and  *)
(* NewClient over one open HID device, together with the device's input    *)
(* queue and an authenticator at the other end.                            *)
(*                                                                         *)
(* Calls are numbered 1, 2, ...; byte i of the request of call n, and of   *)
(* the authenticator's answer to it, is the pair <<n, i>>, so a byte that  *)
(* ends up in the wrong answer or at the wrong place can be told apart.    *)
(* The first byte of a CBOR answer is its status: <<n, 1>> is success and  *)
(* <<n, 0>> any other status.                                              *)
(***************************************************************************)
EXTENDS Integers, Sequences, FiniteSets

CONSTANTS
    InitBody,       \* payload bytes of an initialization packet (57)
    ContBody,       \* payload bytes of a continuation packet (59)
    SeqSpace,       \* sequence numbers before they wrap (0x80)
    MaxLen,         \* largest length the 16-bit length field holds (0xFFFF)
    NonceLen,       \* bytes of a CTAPHID_INIT request (8)
    InitLen,        \* bytes of a complete CTAPHID_INIT answer (17)
    ReqLens,        \* request lengths the facade produces
    RespLens,       \* answer lengths the authenticator produces
    Statuses,       \* keep-alive status bytes
    MaxKeepAlives,  \* bound: keep-alives the authenticator sends per request
    MaxForeign,     \* bound: reports other programs cause on the shared device
    MaxCalls,       \* bound: calls made
    Platforms       \* what can go wrong on each kind of computer: sets of
                    \* FaultKinds

FaultKinds == {"timeout",    \* Read gives up after 3s (Windows, macOS)
               "lost",       \* ... and takes a report with it (Windows)
               "latest",     \* the backend keeps only the newest report (macOS)
               "write",      \* Write fails now and then
               "foreign",    \* another program talks to the same authenticator
               "error",      \* the authenticator answers with CTAPHID_ERROR
               "die"}        \* the authenticator is unplugged

ASSUME CtapHidAssumption ==
    /\ InitBody \in Nat \ {0} /\ ContBody \in Nat \ {0}
    /\ SeqSpace \in 1..128 /\ MaxLen \in Nat \ {0} /\ Statuses \subseteq Nat
    /\ NonceLen \in Nat \ {0} /\ InitLen \in (NonceLen + 1)..MaxLen
    /\ ReqLens \subseteq Nat \ {0} /\ RespLens \subseteq 0..MaxLen
    /\ MaxKeepAlives \in Nat /\ MaxForeign \in Nat /\ MaxCalls \in Nat \ {0}
    /\ Platforms \subseteq SUBSET FaultKinds

VARIABLES
    pc,         \* where the one running call is
    phase,      \* how far getSession got with this connection
    conn,       \* number of the open connection
    cid,        \* channel the connection uses
    tx,         \* locals of sendRequest
    rx,         \* locals of readResponse
    callbacks,  \* status bytes handed to OnKeepAlive in this call
    n,          \* number of the current (or last) call
    out,        \* history: how every finished call ended
    alive,      \* the authenticator is still plugged in
    toDev,      \* reports written and not yet taken by the authenticator
    dev,        \* the authenticator's own state
    devOut,     \* reports the authenticator has still to send
    fromDev,    \* reports the operating system holds for Read
    asked,      \* history: length of the request of each call
    given,      \* history: the authenticator's answer to each call
    foreign,    \* reports other programs have caused so far
    platform    \* what can go wrong on this computer

client == <<pc, phase, conn, cid, tx, rx, callbacks, n, out, asked>>
authenticator == <<alive, dev, devOut, given>>
world == <<foreign, platform>>
vars == <<client, authenticator, toDev, fromDev, world>>

-----------------------------------------------------------------------------
(* Packets *)

Broadcast == 0                  \* channelBroadcast
Alien == -1                     \* a channel some other program was given
CmdInit == 1000                 \* command bytes have the high bit set, so no
CmdCBOR == 1001                 \* sequence number equals one
CmdKeepAlive == 1002
CmdError == 1003
Commands == {CmdInit, CmdCBOR, CmdKeepAlive, CmdError}
Runt == -1                      \* a report too short to be what it should be

Calls == 1..MaxCalls
Pad == <<0, 0>>
Byte == (0..MaxCalls) \X Nat

\* A report. "tag" is the byte after the channel: a command in an
\* initialization packet, a sequence number in a continuation packet, which
\* has no length field.
Packet(c, t, len, body) == [cid |-> c, tag |-> t, len |-> len, body |-> body]

Least(a, b) == IF a < b THEN a ELSE b
Drop(s, k) == SubSeq(s, k + 1, Len(s))

\* The bytes s[from..to], zero-filled to the size of a packet's payload.
Padded(s, size) == [i \in 1..size |-> IF i <= Len(s) THEN s[i] ELSE Pad]

Request(q, len) == [i \in 1..len |-> <<q, i>>]

\* The bytes of an answer of the given length and status.
ByteOf(q, ok, i) == IF i = 1 /\ ~ok THEN <<q, 0>> ELSE <<q, i>>
AnswerBytes(q, a) == [i \in 1..a.len |-> ByteOf(q, a.ok, i)]

NoAnswer == [len |-> 0, ok |-> FALSE, sent |-> FALSE]

\* A message as the CTAPHID standard cuts it into packets, by position: the
\* authenticator's side of the framing, independent of sendRequest's loop.
Frames(c, cmd, msg) ==
    LET k == IF Len(msg) <= InitBody THEN 0
             ELSE (Len(msg) - InitBody + ContBody - 1) \div ContBody
        first == Packet(c, cmd, Len(msg), Padded(msg, InitBody))
        rest == [j \in 1..k |->
                    Packet(c, (j - 1) % SeqSpace, 0,
                           Padded(Drop(msg, InitBody + (j - 1) * ContBody), ContBody))]
    IN <<first>> \o rest

-----------------------------------------------------------------------------
(* The client *)

NoTx == [left |-> << >>, len |-> 0, first |-> TRUE, contSeq |-> 0]
NoRx == [begun |-> FALSE, body |-> << >>, expected |-> 0, seq |-> 0, lastKA |-> -1]
Idle == [st |-> "idle", cid |-> 0, cmd |-> 0, need |-> 0, got |-> << >>,
         seq |-> 0, kas |-> 0]

Init ==
    /\ pc = "idle" /\ phase = "init" /\ conn = 1 /\ cid = Broadcast
    /\ tx = NoTx /\ rx = NoRx /\ callbacks = << >> /\ n = 0 /\ out = << >>
    /\ alive = TRUE /\ toDev = << >> /\ dev = Idle /\ devOut = << >>
    /\ fromDev = << >> /\ foreign = 0 /\ platform \in Platforms
    /\ asked = [q \in Calls |-> 0]
    /\ given = [q \in Calls |-> NoAnswer]

\* The command byte of the call in progress: NewClient's is CTAPHID_INIT on
\* the broadcast channel, every other call is sendCBOR's.
Cmd == IF phase = "init" THEN CmdInit ELSE CmdCBOR

\* What the caller is told: "ok" with the answer, "refused" when the
\* authenticator answered with an error, "unsent" when the request was not
\* even started, "failed" for anything else.
Outcome(res, body) == [call |-> n', conn |-> conn, phase |-> phase,
                       res |-> res, body |-> body]

\* A call returns. NewClient's success moves on to GetInfo, GetInfo's to a
\* cached session; a failure of either closes the device (connectReal,
\* getSession), and a failure of any later call leaves the session cached.
AfterFailure == IF phase = "live" THEN "idle" ELSE "closed"

Return(res, body, channel) ==
    /\ out' = Append(out, Outcome(res, body))
    /\ cid' = channel
    /\ phase' = IF res # "ok" THEN phase
                ELSE IF phase = "init" THEN "info" ELSE "live"
    /\ pc' = IF res = "ok" THEN "idle" ELSE AfterFailure
    /\ tx' = NoTx /\ rx' = NoRx /\ callbacks' = << >>
    /\ UNCHANGED conn

Fail == Return("failed", << >>, cid)

\* Lengths of the request of the next call: a nonce, GetInfo's lone command
\* byte, or whatever MakeCredential and the others encode.
NextLens == CASE phase = "init" -> {NonceLen}
              [] phase = "info" -> {1}
              [] OTHER -> ReqLens

StartCall ==
    /\ pc = "idle" /\ n < MaxCalls
    /\ \E len \in NextLens :
          /\ len <= MaxLen
          /\ asked' = [asked EXCEPT ![n + 1] = len]
          /\ tx' = [NoTx EXCEPT !.left = Request(n + 1, len), !.len = len]
    /\ pc' = "send" /\ n' = n + 1
    /\ UNCHANGED <<phase, conn, cid, rx, callbacks, out, authenticator, toDev,
                   fromDev, world>>

\* A request that does not fit the length field is refused unsent.
RequestTooLong ==
    /\ pc = "idle" /\ n < MaxCalls
    /\ \E len \in NextLens : len > MaxLen
    /\ n' = n + 1
    /\ Return("unsent", << >>, cid)
    /\ UNCHANGED <<asked, authenticator, toDev, fromDev, world>>

\* The packet sendRequest builds next, and how many payload bytes it carries.
RoomInNext == IF tx.first THEN InitBody ELSE ContBody
BytesInNext == Least(Len(tx.left), RoomInNext)
\* Wrong on purpose: continuation packets numbered from 1.
TagOfNextFromOne == IF tx.first THEN Cmd ELSE (tx.contSeq + 1) % SeqSpace

TagOfNext == IF tx.first THEN Cmd ELSE tx.contSeq % SeqSpace
\* Wrong on purpose: every packet counts as a continuation packet.
LeftAfterNextShort == Drop(tx.left, Least(Len(tx.left), ContBody))

LeftAfterNext == Drop(tx.left, BytesInNext)
NextPacket == Packet(cid, TagOfNext, IF tx.first THEN tx.len ELSE 0,
                     Padded(SubSeq(tx.left, 1, BytesInNext), RoomInNext))

\* Wrong on purpose: a counter wider than a byte.
NextByteWide(b) == b + 1

\* A byte counter wraps past the sequence space: it is masked when used.
NextByte(b) == (b + 1) % (2 * SeqSpace)

\* One turn of sendRequest's loop.
SendPacket ==
    /\ pc = "send" /\ alive
    /\ toDev' = Append(toDev, NextPacket)
    /\ tx' = [tx EXCEPT !.left = LeftAfterNext, !.first = FALSE,
                        !.contSeq = IF tx.first THEN @ ELSE NextByte(@)]
    /\ pc' = IF LeftAfterNext # << >> THEN "send" ELSE "recv"
    /\ UNCHANGED <<phase, conn, cid, rx, callbacks, n, out, asked, authenticator,
                   fromDev, world>>

\* Write fails; the packets already written stay written, and a Write that
\* gave up waiting may be sent all the same.
WriteFails ==
    /\ pc = "send" /\ (~alive \/ "write" \in platform)
    /\ \/ UNCHANGED toDev
       \/ alive /\ "timeout" \in platform /\ toDev' = Append(toDev, NextPacket)
    /\ UNCHANGED <<n, asked, authenticator, fromDev, world>>
    /\ Fail

\* Read fails: an unplugged device, or three seconds without a report. On Windows
\* the Read may take a report with it, while it is being cancelled or, where it
\* was not, later: that report is then one the authenticator owes already, for
\* a request it has, and is lost here when the Read gives up.
ReadFails ==
    /\ pc = "recv"
    /\ \/ fromDev = << >> /\ (~alive \/ "timeout" \in platform) /\ UNCHANGED fromDev
       \/ fromDev # << >> /\ "lost" \in platform /\ fromDev' = Tail(fromDev)
    /\ UNCHANGED <<n, asked, authenticator, toDev, world>>
    /\ Fail

\* Read returns the oldest report the operating system holds.
Report == Head(fromDev)
Reads ==
    /\ pc = "recv" /\ fromDev # << >>
    /\ fromDev' = Tail(fromDev)
    /\ UNCHANGED <<n, asked, authenticator, toDev, world>>

\* Wrong on purpose: the channel of a report is not looked at.
OnAnyChannel(p) == TRUE

OnOurChannel(p) == p.cid = cid
SeqExpected(p) == p.tag = rx.seq % SeqSpace
IsKeepAlive(p) == OnOurChannel(p) /\ ~rx.begun /\ p.tag = CmdKeepAlive

\* What readResponse gives up on: a report of another channel, a command it
\* does not wait for, a continuation packet out of order, a runt.
ReadRefused ==
    /\ Reads
    /\ \/ ~OnOurChannel(Report)
       \/ ~rx.begun /\ Report.tag \notin {Cmd, CmdKeepAlive, CmdError}
       \/ rx.begun /\ ~SeqExpected(Report)
    /\ Fail

\* CTAPHID_ERROR: the authenticator's error is the call's.
ReadError ==
    /\ Reads
    /\ OnOurChannel(Report) /\ ~rx.begun /\ Report.tag = CmdError
    /\ Return("refused", << >>, cid)

\* A keep-alive whose status differs from the last one's calls OnKeepAlive,
\* which connectReal sets once NewClient has returned.
StatusOf(p) == p.body[1][2]
KeepAliveNews(status) == phase # "init" /\ status # rx.lastKA

ReadKeepAlive ==
    /\ Reads
    /\ IsKeepAlive(Report)
    /\ LET status == StatusOf(Report)
       IN \/ /\ KeepAliveNews(status)
             /\ rx' = [rx EXCEPT !.lastKA = status]
             /\ callbacks' = Append(callbacks, status)
          \/ /\ ~KeepAliveNews(status)
             /\ UNCHANGED <<rx, callbacks>>
    /\ UNCHANGED <<pc, phase, conn, cid, tx, out>>

\* Wrong on purpose: the nonce is not compared.
EchoesAnyNonce(answer) == TRUE

\* NewClient on the answer to CTAPHID_INIT: long enough, our nonce echoed,
\* then the channel number the authenticator allocated.
EchoesNonce(answer) == SubSeq(answer, 1, NonceLen) = Request(n, NonceLen)

ReturnInit(answer) ==
    \/ /\ Len(answer) >= InitLen /\ EchoesNonce(answer)
       /\ Return("ok", answer, answer[NonceLen + 1][1])
    \/ /\ Len(answer) < InitLen \/ ~EchoesNonce(answer)
       /\ Fail

\* sendCBOR on an answer: its first byte is the status.
ReturnCBOR(answer) ==
    \/ /\ answer = << >>
       /\ Fail
    \/ /\ answer # << >> /\ answer[1][2] # 1
       /\ Return("refused", answer, cid)
    \/ /\ answer # << >> /\ answer[1][2] = 1
       /\ Return("ok", answer, cid)

\* Wrong on purpose: the first packet is taken for the whole answer.
ReceivedFirst(body, expected) ==
    LET answer == SubSeq(body, 1, Least(Len(body), expected))
    IN IF phase = "init" THEN ReturnInit(answer) ELSE ReturnCBOR(answer)

\* Wrong on purpose: the zero filling of the last packet is handed back.
ReceivedPadded(body, expected) ==
    /\ Len(body) >= expected
    /\ IF phase = "init" THEN ReturnInit(body) ELSE ReturnCBOR(body)

\* The loop of readResponse ends once the bytes received, the zero filling
\* of the last packet included, reach the length announced.
Received(body, expected) ==
    /\ Len(body) >= expected
    /\ LET answer == SubSeq(body, 1, expected)
       IN IF phase = "init" THEN ReturnInit(answer) ELSE ReturnCBOR(answer)

ReadFirst ==
    /\ Reads
    /\ OnOurChannel(Report) /\ ~rx.begun /\ Report.tag = Cmd
    /\ \/ Received(Report.body, Report.len)
       \/ /\ Len(Report.body) < Report.len
          /\ rx' = [rx EXCEPT !.begun = TRUE, !.body = Report.body,
                              !.expected = Report.len]
          /\ UNCHANGED <<pc, phase, conn, cid, tx, callbacks, out>>

ReadContinuation ==
    /\ Reads
    /\ OnOurChannel(Report) /\ rx.begun /\ SeqExpected(Report)
    /\ \/ Received(rx.body \o Report.body, rx.expected)
       \/ /\ Len(rx.body \o Report.body) < rx.expected
          /\ rx' = [rx EXCEPT !.body = @ \o Report.body, !.seq = NextByte(@)]
          /\ UNCHANGED <<pc, phase, conn, cid, tx, callbacks, out>>

\* The caller tries again and getSession connects anew: the new handle's
\* queue starts empty, the authenticator goes on where it was.
Reopen ==
    /\ pc = "closed" /\ alive /\ n < MaxCalls
    /\ pc' = "idle" /\ phase' = "init" /\ conn' = conn + 1 /\ cid' = Broadcast
    /\ fromDev' = << >>
    /\ UNCHANGED <<tx, rx, callbacks, n, out, asked, authenticator, toDev, world>>

ClientStep ==
    \/ SendPacket \/ WriteFails \/ ReadFails \/ ReadRefused \/ ReadError
    \/ ReadKeepAlive \/ ReadFirst \/ ReadContinuation

-----------------------------------------------------------------------------
(* The authenticator and the operating system's queue: not under src/; what *)
(* the CTAPHID standard and the fake of the tests make of them.             *)

\* The queue the backend reads from: Linux and Windows keep every report, the
\* macOS backend's onReport only the newest.
Queued(q, p) == IF "latest" \in platform THEN <<p>> ELSE Append(q, p)

\* An initialization packet starts a new request, whatever was in progress; a
\* continuation packet adds to the one being gathered.
Gathered(d, body) ==
    [d EXCEPT !.got = @ \o body,
              !.st = IF Len(d.got \o body) >= d.need THEN "work" ELSE "gather"]

DevTake ==
    /\ alive /\ toDev # << >> /\ dev.st # "work"
    /\ toDev' = Tail(toDev)
    /\ LET p == Head(toDev)
       IN \/ /\ p.tag \in Commands
             /\ dev' = Gathered([Idle EXCEPT !.cid = p.cid, !.cmd = p.tag,
                                             !.need = p.len], p.body)
          \/ /\ dev.st = "gather" /\ p.cid = dev.cid /\ p.tag = dev.seq
             /\ dev' = Gathered([dev EXCEPT !.seq = (@ + 1) % SeqSpace], p.body)
    /\ UNCHANGED <<client, alive, devOut, given, fromDev, world>>

\* The call whose request the authenticator works on.
Asked == dev.got[1][1]

DevKeepAlive ==
    /\ alive /\ dev.st = "work" /\ dev.cmd = CmdCBOR /\ dev.kas < MaxKeepAlives
    /\ \E s \in Statuses :
          devOut' = devOut \o Frames(dev.cid, CmdKeepAlive, <<<<0, s>>>>)
    /\ dev' = [dev EXCEPT !.kas = @ + 1]
    /\ UNCHANGED <<client, alive, given, toDev, fromDev, world>>

DevAnswer ==
    /\ alive /\ dev.st = "work"
    /\ \E len \in IF dev.cmd = CmdInit THEN {InitLen} ELSE RespLens,
          ok \in IF dev.cmd = CmdInit THEN {TRUE} ELSE BOOLEAN :
          LET answer == [len |-> len, ok |-> ok, sent |-> TRUE]
          IN /\ devOut' = devOut \o Frames(dev.cid, dev.cmd, AnswerBytes(Asked, answer))
             /\ given' = [given EXCEPT ![Asked] = answer]
    /\ dev' = Idle
    /\ UNCHANGED <<client, alive, toDev, fromDev, world>>

DevError ==
    /\ alive /\ dev.st = "work" /\ "error" \in platform
    /\ devOut' = devOut \o Frames(dev.cid, CmdError, <<Pad>>)
    /\ dev' = Idle
    /\ UNCHANGED <<client, alive, given, toDev, fromDev, world>>

DevEmit ==
    /\ alive /\ devOut # << >>
    /\ devOut' = Tail(devOut)
    /\ fromDev' = Queued(fromDev, Head(devOut))
    /\ UNCHANGED <<client, alive, dev, given, toDev, world>>

\* Another program's traffic reaches our queue too: the answer to its own
\* CTAPHID_INIT, an answer on its channel, a mangled report.
ForeignReports ==
    {Packet(Broadcast, CmdInit, InitLen, [i \in 1..InitBody |-> <<0, i>>]),
     Packet(Alien, CmdCBOR, 1, Padded(<<Pad>>, InitBody)),
     Packet(Alien, Runt, 0, << >>)}

ForeignReport ==
    /\ "foreign" \in platform /\ alive /\ foreign < MaxForeign
    /\ \E p \in ForeignReports : fromDev' = Queued(fromDev, p)
    /\ foreign' = foreign + 1
    /\ UNCHANGED <<client, authenticator, toDev, platform>>

Unplug ==
    /\ "die" \in platform /\ alive
    /\ alive' = FALSE
    /\ UNCHANGED <<client, dev, devOut, given, toDev, fromDev, world>>

-----------------------------------------------------------------------------
Next ==
    \/ StartCall \/ RequestTooLong \/ SendPacket \/ WriteFails \/ ReadFails
    \/ ReadRefused \/ ReadError \/ ReadKeepAlive \/ ReadFirst
    \/ ReadContinuation \/ Reopen
    \/ DevTake \/ DevKeepAlive \/ DevAnswer \/ DevError \/ DevEmit
    \/ ForeignReport \/ Unplug

Spec == Init /\ [][Next]_vars

\* Go runs the one goroutine of a call; nothing makes anybody start one.
ClientFairness == WF_vars(ClientStep)

\* Where Read has no timeout, a call depends on the authenticator: one that is
\* plugged in processes what it is sent, and ends its wait for the user with
\* an answer or an error (CTAP2 has it time out).
Waits == "timeout" \notin platform
DeviceFairness ==
    /\ WF_vars(Waits /\ DevTake)
    /\ WF_vars(Waits /\ (DevAnswer \/ DevError))
    /\ WF_vars(Waits /\ DevEmit)

FairSpec == Spec /\ ClientFairness /\ DeviceFairness

-----------------------------------------------------------------------------
(* Properties *)

Phases == {"init", "info", "live"}
Results == {"ok", "refused", "unsent", "failed"}
Outcomes == [call : Calls, conn : 1..MaxCalls, phase : Phases, res : Results,
             body : Seq(Byte)]
Reports == [cid : -1..MaxCalls, tag : Int, len : 0..MaxLen, body : Seq(Byte)]

ClientTypeOK ==
    /\ pc \in {"idle", "send", "recv", "closed"} /\ phase \in Phases
    /\ conn \in 1..MaxCalls /\ n \in 0..MaxCalls /\ cid \in 0..MaxCalls
    /\ tx \in [left : Seq(Byte), len : 0..MaxLen, first : BOOLEAN,
               contSeq : 0..(2 * SeqSpace - 1)]
    /\ rx \in [begun : BOOLEAN, body : Seq(Byte), expected : 0..MaxLen,
               seq : 0..(2 * SeqSpace - 1), lastKA : Statuses \cup {-1}]
    /\ callbacks \in Seq(Statuses)
    /\ out \in Seq(Outcomes) /\ Len(out) <= n

DeviceTypeOK ==
    /\ toDev \in Seq(Reports) /\ devOut \in Seq(Reports) /\ fromDev \in Seq(Reports)
    /\ dev \in [st : {"idle", "gather", "work"}, cid : -1..MaxCalls, cmd : Int,
                need : 0..MaxLen, got : Seq(Byte), seq : 0..(SeqSpace - 1),
                kas : 0..MaxKeepAlives]
    /\ asked \in [Calls -> 0..MaxLen]
    /\ given \in [Calls -> [len : 0..MaxLen, ok : BOOLEAN, sent : BOOLEAN]]
    /\ alive \in BOOLEAN /\ foreign \in 0..MaxForeign /\ platform \in Platforms

\* Every variable has the values the code gives it. The channel's own packets
\* are well formed, counters stay within their byte.
TypeOK == ClientTypeOK /\ DeviceTypeOK

Clean(k, c) == \A j \in 1..k : out[j].conn = c => out[j].res # "failed"

\* No report of channel c is under way in either direction.
Quiet(c) ==
    /\ \A i \in DOMAIN toDev : toDev[i].cid # c
    /\ \A i \in DOMAIN devOut : devOut[i].cid # c
    /\ \A i \in DOMAIN fromDev : fromDev[i].cid # c
    /\ dev.st # "idle" => dev.cid # c

\* A call that ends in an answer or in the authenticator's error has consumed
\* everything the exchange produced: as long as no call on the connection
\* failed, nothing of its channel is left over between two calls.
NoResidue ==
    pc = "idle" /\ phase # "init" /\ Clean(Len(out), conn) => Quiet(cid)

\* What a call hands back is, byte for byte and at its full length, the
\* answer the authenticator gave to that very request, and its verdict is the
\* authenticator's, as long as no earlier call on the connection failed.
OwnAnswer(o) ==
    o.body # << >> =>
        /\ given[o.call].sent
        /\ o.body = AnswerBytes(o.call, given[o.call])
        /\ o.res = "ok" <=> given[o.call].ok

AnswersItsRequest ==
    \A k \in DOMAIN out : Clean(k - 1, out[k].conn) => OwnAnswer(out[k])

\* The authenticator only ever starts on a request that is whole: the bytes
\* of one call, all of them, in order.
WholeRequest ==
    dev.st = "work" =>
        SubSeq(dev.got, 1, dev.need) = Request(Asked, asked[Asked])

\* A connection past NewClient uses the channel allocated to its own
\* CTAPHID_INIT, never one allocated to another program or connection.
ChannelIsOurs ==
    phase # "init" =>
        \E k \in DOMAIN out :
            /\ out[k].conn = conn /\ out[k].phase = "init" /\ out[k].res = "ok"
            /\ cid = out[k].call

\* The call whose answer, whole, an outcome handed back.
AnswerOf(o) ==
    LET q == o.body[1][1]
    IN IF o.body = << >> THEN 0
       ELSE IF q \in Calls /\ o.body = AnswerBytes(q, given[q]) THEN q ELSE -1

\* Whatever fails and whatever is tried afterwards, a call hands back one of
\* the authenticator's answers, to this request or to an earlier one on the
\* connection, whole, in order and none twice; only where the backend drops
\* reports may it be put together from several.
Channel == INSTANCE Exchange WITH
    calls <- n,
    first <- 1 + Cardinality({k \in DOMAIN out : out[k].conn < conn}),
    answered <- {q \in Calls : given[q].sent},
    results <- [k \in DOMAIN out |-> AnswerOf(out[k])],
    garbling <- "latest" \in platform

ImplementsExchange == Channel!Spec

\* A call that has started returns, if the authenticator sends keep-alives
\* finitely often: each restarts the wait, and no timeout is for the call.
CallReturns == pc \in {"send", "recv"} ~> pc \in {"idle", "closed"}
=============================================================================
