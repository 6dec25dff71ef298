---------------------------- MODULE CtapHidProofs ----------------------------
(***************************************************************************)
(* Proofs about the CTAPHID framing for every packet size, request and     *)
(* answer length and number of calls.                                      *)
(***************************************************************************)
EXTENDS CtapHid, FiniteSetTheorems, SequenceTheorems, TLAPS

-----------------------------------------------------------------------------
(* The inductive invariant behind the safety properties. A byte says what  *)
(* call it belongs to and where, so a packet says it by its first byte.    *)

Running == pc \in {"send", "recv"}
Room(i) == IF i = 1 THEN InitBody ELSE ContBody
CommandOn(c) == IF c = Broadcast THEN CmdInit ELSE CmdCBOR

CallOf(p) == p.body[1][1]
PosOf(p) == IF p.body[1][2] = 0 THEN 1 ELSE p.body[1][2]
After(p) == PosOf(p) + Room(PosOf(p))

\* The packet holds the bytes of its call's message from its position on.
Carries(p, len, ok) ==
    LET i == PosOf(p)
    IN /\ i \in 1..len /\ Len(p.body) = Room(i)
       /\ \A j \in 1..Room(i) :
             i + j - 1 <= len => p.body[j] = ByteOf(CallOf(p), ok, i + j - 1)
       /\ IF i = 1 THEN p.tag = CommandOn(p.cid) /\ p.len = len
          ELSE p.tag \in 0..(SeqSpace - 1)

\* What the history says of the calls, the last of which may be running.
History ==
    /\ Len(out) = IF Running THEN n - 1 ELSE n
    /\ \A k \in DOMAIN out : out[k].call = k /\ out[k].conn <= conn
    /\ conn <= n + 1 /\ (pc # "idle" => conn <= n) /\ (pc = "closed" => phase # "live")
    /\ phase = "init" => cid = Broadcast
    /\ rx.begun => pc = "recv"

\* What is written and what is gathered is never empty, nor a keep-alive, and
\* a keep-alive has a status.
HasStatus(p) ==
    p.tag = CmdKeepAlive => p.body # << >> /\ StatusOf(p) \in Statuses

Filled ==
    /\ \A k \in DOMAIN toDev : toDev[k].body # << >> /\ toDev[k].tag # CmdKeepAlive
    /\ dev.st # "idle" => dev.got # << >> /\ dev.cmd # CmdKeepAlive
    /\ \A k \in DOMAIN devOut : HasStatus(devOut[k])
    /\ \A k \in DOMAIN fromDev : HasStatus(fromDev[k])

TypeInv == TypeOK /\ History /\ Filled

IsRequest(p) ==
    /\ CallOf(p) \in 1..n /\ p.cid \in 0..(CallOf(p) - 1)
    /\ Carries(p, asked[CallOf(p)], TRUE)

\* What is written is in order, and each packet but the first of a request
\* follows the one before it, or what the authenticator has gathered.
Follows(p, before) == CallOf(p) = CallOf(before) /\ PosOf(p) = After(before)
Gathers(q, i) == dev.st = "gather" /\ Asked = q /\ Len(dev.got) = i - 1

RequestsInLine ==
    /\ \A k \in DOMAIN toDev : IsRequest(toDev[k])
    /\ \A k, l \in DOMAIN toDev : k < l =>
          /\ CallOf(toDev[k]) <= CallOf(toDev[l])
          /\ PosOf(toDev[l]) = 1 => CallOf(toDev[k]) < CallOf(toDev[l])
    /\ \A k \in DOMAIN toDev : PosOf(toDev[k]) # 1 =>
          IF k = 1 THEN Gathers(CallOf(toDev[k]), PosOf(toDev[k]))
          ELSE Follows(toDev[k], toDev[k - 1])

\* The authenticator has gathered the bytes of one call, from the first on,
\* and what it is sent after that comes later.
GatheredInOrder ==
    dev.st # "idle" =>
        /\ Asked \in 1..n /\ dev.cid \in 0..(Asked - 1)
        /\ dev.cmd = CommandOn(dev.cid) /\ dev.need = asked[Asked]
        /\ \A j \in 1..Len(dev.got) : j <= dev.need => dev.got[j] = <<Asked, j>>
        /\ dev.st = "gather" <=> Len(dev.got) < dev.need
        /\ \A k \in DOMAIN toDev :
              /\ Asked <= CallOf(toDev[k])
              /\ PosOf(toDev[k]) = 1 => Asked < CallOf(toDev[k])

\* What is under way to the authenticator is later than what it answered.
Unanswered ==
    \A q \in Calls : given[q].sent =>
        /\ q <= n
        /\ \A k \in DOMAIN toDev : q < CallOf(toDev[k])
        /\ dev.st # "idle" => q < Asked

\* What is left to be sent follows what has been written.
SendsTheRest ==
    pc = "send" =>
        LET i == asked[n] - Len(tx.left) + 1
        IN /\ tx.len = asked[n] /\ i \in 1..asked[n]
           /\ \A j \in 1..Len(tx.left) : tx.left[j] = <<n, i + j - 1>>
           /\ tx.first <=> i = 1
           /\ IF tx.first
              THEN /\ \A k \in DOMAIN toDev : CallOf(toDev[k]) < n
                   /\ dev.st # "idle" => Asked < n
                   /\ ~given[n].sent
              ELSE IF toDev = << >> THEN Gathers(n, i)
              ELSE CallOf(toDev[Len(toDev)]) = n /\ After(toDev[Len(toDev)]) = i

Requests == RequestsInLine /\ GatheredInOrder /\ Unanswered /\ SendsTheRest

\* The reports on their way to Read. Those of an answer that is not empty
\* say so; of the others it is enough that they stand alone.
Way == fromDev \o devOut
Owned(p) == p.body # << >> /\ CallOf(p) # 0
AtCut(i) == i = 1 \/ \E d \in 0..i : i = 1 + InitBody + d * ContBody

IsAnswer(p) ==
    /\ CallOf(p) \in 1..n /\ p.cid \in 0..(CallOf(p) - 1) /\ given[CallOf(p)].sent
    /\ Carries(p, given[CallOf(p)].len, given[CallOf(p)].ok) /\ AtCut(PosOf(p))

IsNotice(p) ==
    /\ p.cid \in 0..(n - 1) /\ Len(p.body) = InitBody
    /\ \/ p.tag = CmdKeepAlive
       \/ p.tag = CmdError
       \/ p.tag = CommandOn(p.cid) /\ p.len = 0

IsOnWay(p) ==
    p \in ForeignReports \/ IF Owned(p) THEN IsAnswer(p) ELSE IsNotice(p)

\* One packet of an answer is before another.
Before(p, q) ==
    Owned(p) /\ Owned(q) =>
        \/ CallOf(p) < CallOf(q)
        \/ CallOf(p) = CallOf(q) /\ PosOf(p) < PosOf(q)

AnswersInLine ==
    /\ \A k \in DOMAIN Way : IsOnWay(Way[k])
    /\ \A k, l \in DOMAIN Way : k < l => Before(Way[k], Way[l])

\* Once readResponse has begun on the running call's own answer, it has the
\* beginning of it, or a packet was dropped, and what is still to come will
\* not make it long enough.
ReadsOwn == rx.begun /\ rx.body[1][1] = n
Exact == \A j \in 1..Len(rx.body) : rx.body[j] = ByteOf(n, given[n].ok, j)

Receiving ==
    rx.begun =>
        /\ rx.body # << >>
        /\ rx.body[1][1] = n =>
              /\ given[n].sent /\ rx.expected = given[n].len /\ Len(rx.body) < rx.expected
              /\ Len(rx.body) >= InitBody /\ AtCut(Len(rx.body) + 1)
              /\ \A k \in DOMAIN Way : Owned(Way[k]) =>
                    /\ CallOf(Way[k]) = n /\ PosOf(Way[k]) > Len(rx.body)
                    /\ Exact \/ PosOf(Way[k]) > Len(rx.body) + 1

\* As long as no call on the connection failed, what moves on its channel
\* belongs to the running call: first its request and keep-alives, then,
\* after these, its error, or an empty answer, or the packets of its answer.
Asking ==
    \/ pc = "send"
    \/ \E k \in DOMAIN toDev : toDev[k].cid = cid
    \/ dev.st # "idle" /\ dev.cid = cid

OneExchange ==
    /\ ~Running => Quiet(cid)
    /\ \A k \in DOMAIN toDev : toDev[k].cid = cid => CallOf(toDev[k]) = n
    /\ dev.st # "idle" /\ dev.cid = cid => Asked = n
    /\ rx.begun => ReadsOwn /\ ~Asking
    /\ \A k \in DOMAIN Way : Way[k].cid = cid =>
          /\ Owned(Way[k]) => CallOf(Way[k]) = n
          /\ IF Way[k].tag = CmdKeepAlive THEN ~rx.begun ELSE ~Asking
    /\ \A k, l \in DOMAIN Way :
          /\ k < l /\ Way[k].cid = cid /\ Way[l].cid = cid
          /\ Way[k].tag # CmdKeepAlive
          => Owned(Way[k]) /\ Owned(Way[l])

CleanSoFar == phase # "init" /\ Clean(Len(out), conn) => OneExchange

Answers == AnswersInLine /\ Receiving /\ ChannelIsOurs

\* What was handed back is of calls that were answered. What is being read, and
\* what is still on the way, is of later calls and of this connection.
HandedBack ==
    /\ \A k, l \in DOMAIN out : k < l => out[k].conn <= out[l].conn
    /\ \A k \in DOMAIN out : out[k].body # << >> =>
          out[k].body[1][1] \in Calls /\ given[out[k].body[1][1]].sent

ReadsAnswer == rx.begun /\ rx.body[1][1] # 0

Begun ==
    /\ rx.begun /\ phase # "init" => cid < rx.body[1][1]
    /\ ReadsAnswer =>
          /\ rx.body[1][1] \in 1..n /\ given[rx.body[1][1]].sent
          /\ rx.expected = given[rx.body[1][1]].len /\ Len(rx.body) < rx.expected
          /\ Len(rx.body) >= InitBody /\ AtCut(Len(rx.body) + 1)

NoneTwice ==
    \A k \in DOMAIN out :
       /\ \A l \in DOMAIN Way : Owned(Way[l]) => AnswerOf(out[k]) < CallOf(Way[l])
       /\ ReadsAnswer => AnswerOf(out[k]) < rx.body[1][1]

\* Where the backend keeps every report, the packets of an answer come one
\* after the other, but for the first ones, and what readResponse has of an
\* answer is the beginning of it, of which the rest comes next.
Unbroken ==
    \A k, l \in DOMAIN Way :
       k < l /\ Owned(Way[k]) /\ Owned(Way[l]) /\ PosOf(Way[l]) # 1 =>
          \E m \in DOMAIN Way : m < l /\ Owned(Way[m]) /\ Follows(Way[l], Way[m])

Assembles ==
    ReadsAnswer =>
       /\ \A j \in 1..Len(rx.body) :
             rx.body[j] = ByteOf(rx.body[1][1], given[rx.body[1][1]].ok, j)
       /\ \A l \in DOMAIN Way :
             Owned(Way[l]) /\ PosOf(Way[l]) # 1 =>
                \/ \E k \in DOMAIN Way : k < l /\ Owned(Way[k])
                \/ CallOf(Way[l]) = rx.body[1][1] /\ PosOf(Way[l]) = Len(rx.body) + 1

HandsBack ==
    /\ HandedBack /\ Begun /\ NoneTwice
    /\ "latest" \notin platform => Unbroken /\ Assembles

IInv ==
    /\ TypeInv /\ Requests /\ Answers
    /\ CleanSoFar /\ AnswersItsRequest /\ HandsBack

-----------------------------------------------------------------------------
(* Arithmetic of packets *)

LEMMA DivBound ==
    ASSUME NEW x \in Nat, NEW c \in Nat \ {0}
    PROVE  x \div c \in Nat /\ (x \div c) * c <= x
  BY SMT

LEMMA TimesAtLeast ==
    ASSUME NEW a \in Nat, NEW b \in Nat, NEW c \in Nat \ {0}, a <= b
    PROVE  a * c <= b * c /\ a <= a * c /\ a * c \in Nat
  BY SMT

LEMMA Successor ==
    ASSUME NEW a \in Nat, NEW b \in Nat, a <= b
    PROVE  a <= b + 1
  OBVIOUS

\* Below the number of continuation packets there are bytes left to send.
LEMMA CeilingBound ==
    ASSUME NEW x \in Nat, NEW c \in Nat \ {0},
           NEW j \in 1..((x + c - 1) \div c)
    PROVE  (j - 1) * c \in Nat /\ (j - 1) * c < x /\ j - 1 <= (j - 1) * c
  <1> DEFINE k == (x + c - 1) \div c
  <1>1. k \in Nat /\ k * c <= x + c - 1
    <2>1. x + c - 1 \in Nat
      OBVIOUS
    <2> QED
      BY <2>1, DivBound
  <1>2. k - 1 \in Nat /\ j - 1 \in Nat /\ j - 1 <= k - 1
    BY <1>1
  <1>3. (j - 1) * c <= (k - 1) * c /\ j - 1 <= (j - 1) * c /\ (j - 1) * c \in Nat
    BY <1>2, TimesAtLeast
  <1>4. (k - 1) * c = k * c - c
    BY <1>1
  <1> HIDE DEF k
  <1>5. k * c \in Nat
    BY <1>1
  <1> QED
    BY <1>1, <1>3, <1>4, <1>5


LEMMA DropProperties ==
    ASSUME NEW S, NEW s \in Seq(S), NEW k \in 0..Len(s)
    PROVE  /\ Drop(s, k) \in Seq(S) /\ Len(Drop(s, k)) = Len(s) - k
           /\ \A j \in 1..(Len(s) - k) : Drop(s, k)[j] = s[k + j]
  BY SubSeqProperties DEF Drop

LEMMA FirstBytes ==
    ASSUME NEW S, NEW s \in Seq(S), NEW k \in 0..Len(s)
    PROVE  /\ SubSeq(s, 1, k) \in Seq(S) /\ Len(SubSeq(s, 1, k)) = k
           /\ \A j \in 1..k : SubSeq(s, 1, k)[j] = s[j]
  BY SubSeqProperties

LEMMA NotEmpty ==
    ASSUME NEW S, NEW s \in Seq(S), Len(s) >= 1
    PROVE  s # << >>
  OBVIOUS

LEMMA Single ==
    ASSUME NEW S, NEW x \in S
    PROVE  <<x>> \in Seq(S) /\ Len(<<x>>) = 1 /\ <<x>>[1] = x /\ <<x>> # << >>
  OBVIOUS

LEMMA Joined ==
    ASSUME NEW S, NEW a \in Seq(S), NEW b \in Seq(S)
    PROVE  /\ a \o b \in Seq(S) /\ Len(a \o b) = Len(a) + Len(b)
           /\ \A j \in 1..Len(a) : (a \o b)[j] = a[j]
           /\ \A j \in 1..Len(b) : (a \o b)[Len(a) + j] = b[j]
  OBVIOUS

LEMMA PaddedProperties ==
    ASSUME NEW s \in Seq(Byte), NEW size \in Nat
    PROVE  /\ Padded(s, size) \in Seq(Byte) /\ Len(Padded(s, size)) = size
           /\ \A j \in 1..size :
                 Padded(s, size)[j] = IF j <= Len(s) THEN s[j] ELSE Pad
  <1>1. Pad \in Byte
    BY CtapHidAssumption DEF Pad, Byte
  <1>2. \A i \in 1..size : (IF i <= Len(s) THEN s[i] ELSE Pad) \in Byte
    BY <1>1
  <1> QED
    BY <1>2 DEF Padded

\* No sequence number is a command byte.
LEMMA NumbersAreNotCommands ==
    ASSUME NEW t \in 0..(SeqSpace - 1)
    PROVE  t \in 0..127 /\ t \notin Commands /\ t # Runt
  BY CtapHidAssumption DEF Commands, CmdInit, CmdCBOR, CmdKeepAlive, CmdError, Runt

\* The packets of a message, by the position of their first byte.
LEMMA FramesProperties ==
    ASSUME NEW c, NEW cmd, NEW msg \in Seq(Byte), NEW fr, fr = Frames(c, cmd, msg)
    PROVE  /\ fr \in Seq(Range(fr)) /\ Len(fr) >= 1
           /\ fr[1] = Packet(c, cmd, Len(msg), Padded(msg, InitBody))
           /\ Len(msg) <= InitBody => Len(fr) = 1
           /\ \A k \in 2..Len(fr) : \E d \in Nat :
                 /\ d = (k - 2) * ContBody /\ k - 2 <= d /\ InitBody + d < Len(msg)
                 /\ fr[k] = Packet(c, (k - 2) % SeqSpace, 0,
                                   Padded(Drop(msg, InitBody + d), ContBody))
  <1> DEFINE L == Len(msg)
             m == IF L <= InitBody THEN 0 ELSE (L - InitBody + ContBody - 1) \div ContBody
             first == Packet(c, cmd, L, Padded(msg, InitBody))
             P(j) == Packet(c, (j - 1) % SeqSpace, 0,
                            Padded(Drop(msg, InitBody + (j - 1) * ContBody), ContBody))
             rest == [j \in 1..m |-> P(j)]
  <1>1. L \in Nat /\ m \in Nat
    <2>1. CASE L > InitBody
      <3>1. L - InitBody + ContBody - 1 \in Nat /\ ContBody \in Nat \ {0}
        BY <2>1, CtapHidAssumption
      <3> QED
        BY <3>1, <2>1, DivBound
    <2> QED
      BY <2>1, CtapHidAssumption
  <1>2. fr = <<first>> \o rest
    BY DEF Frames
  <1>3. \A j \in 1..m :
           /\ (j - 1) * ContBody \in Nat /\ InitBody + (j - 1) * ContBody < L
           /\ j - 1 <= (j - 1) * ContBody
    <2> TAKE j \in 1..m
    <2>1. L > InitBody /\ L - InitBody \in Nat /\ ContBody \in Nat \ {0} /\ InitBody \in Nat
      BY CtapHidAssumption
    <2>2. m = ((L - InitBody) + ContBody - 1) \div ContBody
      BY <2>1
    <2> HIDE DEF m, L
    <2>3. PICK x \in Nat : x = L - InitBody
      BY <2>1
    <2>4. (j - 1) * ContBody \in Nat /\ (j - 1) * ContBody < x /\ j - 1 <= (j - 1) * ContBody
      BY <2>1, <2>2, <2>3, CeilingBound
    <2> QED
      BY <2>1, <2>3, <2>4, <1>1
  <1> DEFINE R == {first} \cup {P(j) : j \in 1..m}
  <1>4. rest \in Seq(R) /\ Len(rest) = m /\ \A j \in 1..m : rest[j] = P(j)
    <2> HIDE DEF m, P, first
    <2> QED
      BY <1>1
  <1>5. <<first>> \in Seq(R) /\ Len(<<first>>) = 1
    OBVIOUS
  <1> HIDE DEF m, P, first, rest, R
  <1>6. /\ fr \in Seq(R) /\ Len(fr) = 1 + m /\ fr[1] = first
        /\ \A k \in 2..(1 + m) : fr[k] = rest[k - 1]
    BY <1>1, <1>2, <1>4, <1>5
  <1>7. fr \in Seq(Range(fr))
    BY <1>6 DEF Range
  <1>8. L <= InitBody => m = 0
    BY DEF m
  <1>9. ASSUME NEW k \in 2..Len(fr)
        PROVE  \E d \in Nat :
                 /\ d = (k - 2) * ContBody /\ k - 2 <= d /\ InitBody + d < Len(msg)
                 /\ fr[k] = Packet(c, (k - 2) % SeqSpace, 0,
                                   Padded(Drop(msg, InitBody + d), ContBody))
    <2>1. PICK j \in 1..m : j = k - 1
      BY <1>1, <1>6
    <2>2. fr[k] = P(j) /\ j - 1 = k - 2
      BY <1>1, <1>4, <1>6, <2>1
    <2>3. fr[k] = Packet(c, (k - 2) % SeqSpace, 0,
                         Padded(Drop(msg, InitBody + (k - 2) * ContBody), ContBody))
      BY <2>2 DEF P
    <2> QED
      BY <1>3, <2>2, <2>3
  <1> QED
    BY <1>1, <1>6, <1>7, <1>8, <1>9 DEF first


LEMMA FramesTyped ==
    ASSUME NEW c \in -1..MaxCalls, NEW cmd \in Int, NEW msg \in Seq(Byte),
           Len(msg) <= MaxLen, NEW fr, fr = Frames(c, cmd, msg)
    PROVE  /\ fr \in Seq(Reports) /\ fr # << >>
           /\ \A k \in 1..Len(fr) :
                 /\ fr[k].cid = c
                 /\ IF k = 1 THEN fr[k].tag = cmd /\ fr[k].body = Padded(msg, InitBody)
                    ELSE fr[k].tag \in 0..(SeqSpace - 1)
  <1>1. /\ fr \in Seq(Range(fr)) /\ Len(fr) >= 1
        /\ fr[1] = Packet(c, cmd, Len(msg), Padded(msg, InitBody))
    BY FramesProperties
  <1>2. fr[1] \in Reports /\ fr[1].cid = c /\ fr[1].tag = cmd
        /\ fr[1].body = Padded(msg, InitBody)
    <2>1. Padded(msg, InitBody) \in Seq(Byte)
      BY CtapHidAssumption, PaddedProperties
    <2>2. Len(msg) \in 0..MaxLen
      BY CtapHidAssumption
    <2> QED
      BY <1>1, <2>1, <2>2 DEF Packet, Reports
  <1>3. ASSUME NEW k \in 2..Len(fr)
        PROVE  fr[k] \in Reports /\ fr[k].cid = c /\ fr[k].tag \in 0..(SeqSpace - 1)
    <2>1. PICK d \in Nat :
             /\ InitBody + d < Len(msg)
             /\ fr[k] = Packet(c, (k - 2) % SeqSpace, 0,
                               Padded(Drop(msg, InitBody + d), ContBody))
      BY FramesProperties
    <2>2. Padded(Drop(msg, InitBody + d), ContBody) \in Seq(Byte)
      <3>1. InitBody + d \in 0..Len(msg) /\ ContBody \in Nat
        BY <2>1, CtapHidAssumption
      <3>2. Drop(msg, InitBody + d) \in Seq(Byte)
        BY <3>1, DropProperties
      <3> QED
        BY <3>1, <3>2, PaddedProperties
    <2>3. (k - 2) % SeqSpace \in 0..(SeqSpace - 1)
      BY <1>1, CtapHidAssumption, SMTT(30)
    <2>4. 0 \in 0..MaxLen /\ (k - 2) % SeqSpace \in Int
      BY <2>3, CtapHidAssumption
    <2> QED
      BY <2>1, <2>2, <2>3, <2>4 DEF Packet, Reports
  <1>4. fr \in Seq(Reports)
    <2>1. \A k \in 1..Len(fr) : fr[k] \in Reports
      BY <1>1, <1>2, <1>3
    <2> QED
      BY <1>1, <2>1
  <1> QED
    BY <1>1, <1>2, <1>3, <1>4

LEMMA MessagesTyped ==
    /\ \A q \in 0..MaxCalls, len \in Nat :
          Request(q, len) \in Seq(Byte) /\ Len(Request(q, len)) = len
    /\ \A q \in 0..MaxCalls, a \in [len : 0..MaxLen, ok : BOOLEAN, sent : BOOLEAN] :
          AnswerBytes(q, a) \in Seq(Byte) /\ Len(AnswerBytes(q, a)) = a.len
    /\ \A s \in Statuses : <<<<0, s>>>> \in Seq(Byte)
    /\ <<Pad>> \in Seq(Byte)
  <1>1. ASSUME NEW q \in 0..MaxCalls, NEW len \in Nat
        PROVE  Request(q, len) \in Seq(Byte) /\ Len(Request(q, len)) = len
    <2>1. \A i \in 1..len : <<q, i>> \in Byte
      BY DEF Byte
    <2> QED
      BY <2>1 DEF Request
  <1>2. ASSUME NEW q \in 0..MaxCalls,
               NEW a \in [len : 0..MaxLen, ok : BOOLEAN, sent : BOOLEAN]
        PROVE  AnswerBytes(q, a) \in Seq(Byte) /\ Len(AnswerBytes(q, a)) = a.len
    <2>1. a.len \in Nat
      BY CtapHidAssumption
    <2>2. \A i \in 1..a.len : ByteOf(q, a.ok, i) \in Byte
      BY <2>1 DEF Byte, ByteOf
    <2> QED
      BY <2>1, <2>2 DEF AnswerBytes
  <1>3. \A s \in Statuses : <<<<0, s>>>> \in Seq(Byte)
    <2>1. \A s \in Statuses : <<0, s>> \in Byte
      BY CtapHidAssumption DEF Byte
    <2> QED
      BY <2>1, Single
  <1>4. <<Pad>> \in Seq(Byte)
    <2>1. Pad \in Byte
      BY CtapHidAssumption DEF Pad, Byte
    <2> QED
      BY <2>1, Single
  <1> QED
    BY <1>1, <1>2, <1>3, <1>4

LEMMA ForeignTyped ==
    ASSUME NEW p \in ForeignReports
    PROVE  /\ p \in Reports /\ p.cid \in {Broadcast, Alien} /\ p.tag \in {CmdInit, CmdCBOR, Runt}
           /\ p.body # << >> => Len(p.body) = InitBody /\ CallOf(p) = 0
           /\ p.tag = Runt => p.cid = Alien
           /\ p.cid = Broadcast \/ p.tag # Runt => p.body # << >>
  <1> DEFINE init == [i \in 1..InitBody |-> <<0, i>>]
  <1>1. init \in Seq(Byte) /\ Len(init) = InitBody /\ init[1] = <<0, 1>> /\ init # << >>
    <2>1. \A i \in 1..InitBody : <<0, i>> \in Byte
      BY CtapHidAssumption DEF Byte
    <2>2. init \in Seq(Byte) /\ Len(init) = InitBody
      BY <2>1, CtapHidAssumption
    <2>3. init[1] = <<0, 1>>
      BY CtapHidAssumption
    <2> QED
      BY <2>2, <2>3, CtapHidAssumption
  <1> HIDE DEF init
  <1> DEFINE other == Padded(<<Pad>>, InitBody)
  <1>2. other \in Seq(Byte) /\ Len(other) = InitBody /\ other[1] = <<0, 0>> /\ other # << >>
    <2>1. <<Pad>> \in Seq(Byte) /\ InitBody \in Nat \ {0}
      BY MessagesTyped, CtapHidAssumption
    <2>2. Pad = <<0, 0>> /\ Len(<<Pad>>) = 1 /\ <<Pad>>[1] = Pad
      BY DEF Pad
    <2>3. PICK s \in Seq(Byte) : s = <<Pad>>
      BY <2>1
    <2>4. /\ Padded(s, InitBody) \in Seq(Byte) /\ Len(Padded(s, InitBody)) = InitBody
          /\ \A j \in 1..InitBody :
                Padded(s, InitBody)[j] = IF j <= Len(s) THEN s[j] ELSE Pad
      <3>1. InitBody \in Nat
        BY <2>1
      <3> QED
        BY <3>1, PaddedProperties
    <2>5. other \in Seq(Byte) /\ Len(other) = InitBody /\ other[1] = <<0, 0>>
      BY <2>1, <2>2, <2>3, <2>4
    <2> HIDE DEF other
    <2>6. other # << >>
      BY <2>1, <2>5
    <2> QED
      BY <2>5, <2>6
  <1> HIDE DEF other
  <1>3. InitLen \in 0..MaxLen /\ 1 \in 0..MaxLen /\ 0 \in 0..MaxLen /\ 0 \in -1..MaxCalls /\ -1 \in -1..MaxCalls
    BY CtapHidAssumption
  <1>4. CASE p = Packet(Broadcast, CmdInit, InitLen, init)
    BY <1>1, <1>3, <1>4 DEF Packet, Reports, Broadcast, CmdInit, CallOf, Alien, CmdCBOR, Runt
  <1>5. CASE p = Packet(Alien, CmdCBOR, 1, other)
    BY <1>2, <1>3, <1>5 DEF Packet, Reports, Broadcast, CmdInit, CallOf, Alien, CmdCBOR, Runt
  <1>6. CASE p = Packet(Alien, Runt, 0, << >>)
    BY <1>3, <1>6 DEF Packet, Reports, Broadcast, CmdInit, CallOf, Alien, CmdCBOR, Runt
  <1> QED
    BY <1>4, <1>5, <1>6 DEF ForeignReports, init, other


-----------------------------------------------------------------------------
(* Types, and what the history of calls says *)

LEMMA InitTypeInv == Init => TypeInv
  <1> SUFFICES ASSUME Init PROVE TypeInv
    OBVIOUS
  <1>1. ClientTypeOK
    <2>1. << >> \in Seq(Byte) /\ << >> \in Seq(Statuses) /\ << >> \in Seq(Outcomes)
      OBVIOUS
    <2>2. 0 \in 0..(2 * SeqSpace - 1) /\ 0 \in 0..MaxLen /\ MaxCalls \in Nat \ {0}
      BY CtapHidAssumption
    <2> QED
      BY <2>1, <2>2 DEF Init, ClientTypeOK, Phases, NoTx, NoRx, Broadcast
  <1>2. DeviceTypeOK
    <2>1. << >> \in Seq(Byte) /\ << >> \in Seq(Reports)
      OBVIOUS
    <2>2. /\ 0 \in 0..(SeqSpace - 1) /\ 0 \in 0..MaxLen /\ 0 \in -1..MaxCalls
          /\ 0 \in 0..MaxKeepAlives /\ 0 \in 0..MaxForeign
      BY CtapHidAssumption
    <2> QED
      BY <2>1, <2>2 DEF Init, DeviceTypeOK, Idle, NoAnswer
  <1>3. History
    BY DEF Init, History, Running, NoRx, Broadcast
  <1>4. Filled
    BY DEF Init, Filled, Idle
  <1> QED
    BY <1>1, <1>2, <1>3, <1>4 DEF TypeInv, TypeOK

\* A call returns: to one that ran, or one that was not even sent.
LEMMA ReturnTyped ==
    ASSUME TypeInv, NEW res \in Results, NEW body \in Seq(Byte),
           NEW channel \in 0..MaxCalls, Return(res, body, channel),
           \/ Running /\ n' = n
           \/ pc = "idle" /\ n < MaxCalls /\ n' = n + 1,
           res # "ok" => channel = cid
    PROVE  ClientTypeOK' /\ History'
  <1>0. /\ n \in 0..MaxCalls /\ conn \in 1..MaxCalls /\ out \in Seq(Outcomes)
        /\ phase \in Phases /\ Len(out) \in Nat /\ MaxCalls \in Nat
        /\ (Running => Len(out) = n - 1 /\ conn <= n)
        /\ (pc = "idle" => Len(out) = n /\ conn <= n + 1)
    BY CtapHidAssumption DEF TypeInv, TypeOK, ClientTypeOK, History, Running
  <1>1. n' \in 1..MaxCalls /\ n <= n' /\ Len(out) = n' - 1 /\ conn <= n'
    <2>1. CASE Running /\ n' = n
      BY <2>1, <1>0
    <2>2. CASE pc = "idle" /\ n < MaxCalls /\ n' = n + 1
      BY <2>2, <1>0
    <2> QED
      BY <2>1, <2>2
  <1> DEFINE o == Outcome(res, body)
  <1>2. o \in Outcomes /\ o.call = n' /\ o.conn = conn
    BY <1>0, <1>1 DEF Outcome, Outcomes, Calls
  <1> HIDE DEF o
  <1>3. /\ out' = Append(out, o) /\ out' \in Seq(Outcomes) /\ Len(out') = n'
        /\ \A k \in 1..Len(out) : out'[k] = out[k]
        /\ out'[n'] = o
    <2>1. out' = Append(out, o)
      BY DEF Return, o
    <2> QED
      BY <2>1, <1>0, <1>1, <1>2
  <1>4. /\ pc' \in {"idle", "closed"} /\ phase' \in Phases /\ conn' = conn /\ cid' = channel
        /\ tx' = NoTx /\ rx' = NoRx /\ callbacks' = << >>
        /\ pc' = "closed" => phase' # "live"
        /\ phase' = "init" => phase = "init" /\ res # "ok"
    BY <1>0 DEF Return, AfterFailure, Phases
  <1>5. ClientTypeOK'
    <2>1. << >> \in Seq(Byte) /\ << >> \in Seq(Statuses)
      OBVIOUS
    <2>2. 0 \in 0..(2 * SeqSpace - 1) /\ 0 \in 0..MaxLen /\ n' \in 0..MaxCalls
      BY <1>1, CtapHidAssumption
    <2>3. tx' \in [left : Seq(Byte), len : 0..MaxLen, first : BOOLEAN,
                   contSeq : 0..(2 * SeqSpace - 1)]
      BY <1>4, <2>1, <2>2 DEF NoTx
    <2>4. rx' \in [begun : BOOLEAN, body : Seq(Byte), expected : 0..MaxLen,
                   seq : 0..(2 * SeqSpace - 1), lastKA : Statuses \cup {-1}]
      BY <1>4, <2>1, <2>2 DEF NoRx
    <2>5. conn' \in 1..MaxCalls /\ Len(out') <= n' /\ pc' \in {"idle", "send", "recv", "closed"}
      BY <1>0, <1>1, <1>3, <1>4
    <2> QED
      BY <1>3, <1>4, <2>1, <2>2, <2>3, <2>4, <2>5 DEF ClientTypeOK
  <1>6. History'
    <2>1. Len(out') = (IF Running THEN n - 1 ELSE n)'
      <3>1. ~Running'
        BY <1>4 DEF Running
      <3> QED
        BY <1>3, <3>1
    <2>2. \A k \in DOMAIN out' : out'[k].call = k /\ out'[k].conn <= conn'
      <3> TAKE k \in DOMAIN out'
      <3>1. CASE k = n'
        BY <3>1, <1>0, <1>2, <1>3, <1>4
      <3>2. CASE k # n'
        <4>1. k \in DOMAIN out
          BY <3>2, <1>0, <1>1, <1>3
        <4> QED
          BY <4>1, <1>0, <1>3, <1>4 DEF TypeInv, History
      <3> QED
        BY <3>1, <3>2
    <2>3. phase' = "init" => cid' = Broadcast
      BY <1>4 DEF TypeInv, History
    <2>4. rx'.begun => pc' = "recv"
      BY <1>4 DEF NoRx
    <2>5. conn' <= n' + 1 /\ conn' <= n'
      <3>1. n' \in Nat /\ conn' \in Nat /\ conn' <= n'
        BY <1>0, <1>1, <1>4
      <3> QED
        BY <3>1, Successor, Zenon
    <2> QED
      BY <1>4, <2>1, <2>2, <2>3, <2>4, <2>5 DEF History
  <1> QED
    BY <1>5, <1>6

LEMMA FailTyped ==
    ASSUME TypeInv, Running, n' = n, Fail
    PROVE  ClientTypeOK' /\ History'
  <1>1. << >> \in Seq(Byte) /\ cid \in 0..MaxCalls
    BY DEF TypeInv, TypeOK, ClientTypeOK
  <1> QED
    BY <1>1, ReturnTyped DEF Fail, Results

\* What the end of readResponse's loop makes of the bytes received.
LEMMA ReceivedCases ==
    ASSUME NEW body \in Seq(Byte), NEW expected \in 0..MaxLen, Received(body, expected)
    PROVE  \E answer \in Seq(Byte) :
              /\ Len(body) >= expected /\ Len(answer) = expected
              /\ \A j \in 1..expected : answer[j] = body[j]
              /\ \/ /\ phase = "init" /\ Len(answer) >= InitLen /\ EchoesNonce(answer)
                    /\ Return("ok", answer, answer[NonceLen + 1][1])
                 \/ /\ phase # "init" /\ answer # << >> /\ answer[1][2] # 1
                    /\ Return("refused", answer, cid)
                 \/ /\ phase # "init" /\ answer # << >> /\ answer[1][2] = 1
                    /\ Return("ok", answer, cid)
                 \/ Fail
  <1> DEFINE answer == SubSeq(body, 1, expected)
  <1>1. Len(body) >= expected
    BY DEF Received
  <1>2. expected \in 0..Len(body)
    BY <1>1, CtapHidAssumption
  <1>3. /\ answer \in Seq(Byte) /\ Len(answer) = expected
        /\ \A j \in 1..expected : answer[j] = body[j]
    BY <1>2, FirstBytes
  <1>4. IF phase = "init" THEN ReturnInit(answer) ELSE ReturnCBOR(answer)
    BY DEF Received
  <1> HIDE DEF answer
  <1>5. \/ /\ phase = "init" /\ Len(answer) >= InitLen /\ EchoesNonce(answer)
           /\ Return("ok", answer, answer[NonceLen + 1][1])
        \/ /\ phase # "init" /\ answer # << >> /\ answer[1][2] # 1
           /\ Return("refused", answer, cid)
        \/ /\ phase # "init" /\ answer # << >> /\ answer[1][2] = 1
           /\ Return("ok", answer, cid)
        \/ Fail
    BY <1>4 DEF ReturnInit, ReturnCBOR
  <1> QED
    BY <1>1, <1>3, <1>5

LEMMA ReceivedTyped ==
    ASSUME TypeInv, Running, n' = n, NEW body \in Seq(Byte),
           NEW expected \in 0..MaxLen, Received(body, expected)
    PROVE  ClientTypeOK' /\ History'
  <1>1. PICK answer \in Seq(Byte) :
              \/ /\ phase = "init" /\ Len(answer) >= InitLen
                 /\ Return("ok", answer, answer[NonceLen + 1][1])
              \/ Return("refused", answer, cid)
              \/ phase # "init" /\ Return("ok", answer, cid)
              \/ Fail
    BY ReceivedCases
  <1>2. cid \in 0..MaxCalls
    BY DEF TypeInv, TypeOK, ClientTypeOK
  <1>3. CASE Len(answer) >= InitLen /\ Return("ok", answer, answer[NonceLen + 1][1])
    <2>1. NonceLen + 1 \in 1..Len(answer)
      BY <1>3, CtapHidAssumption
    <2>2. answer[NonceLen + 1] \in Byte
      BY <2>1
    <2>3. answer[NonceLen + 1][1] \in 0..MaxCalls
      BY <2>2 DEF Byte
    <2> QED
      BY <1>3, <2>3, ReturnTyped DEF Results
  <1>4. CASE Return("refused", answer, cid) \/ Return("ok", answer, cid)
    BY <1>2, <1>4, ReturnTyped DEF Results
  <1> QED
    BY <1>1, <1>3, <1>4, FailTyped


LEMMA ReadsTyped ==
    ASSUME TypeInv, Reads
    PROVE  /\ DeviceTypeOK' /\ Filled' /\ Running /\ n' = n /\ Report \in Reports
           /\ Report.tag = CmdKeepAlive => StatusOf(Report) \in Statuses
  <1>1. fromDev \in Seq(Reports) /\ fromDev # << >> /\ Report = fromDev[1]
    BY DEF TypeInv, TypeOK, DeviceTypeOK, Reads, Report
  <1>2. /\ Tail(fromDev) \in Seq(Reports) /\ fromDev[1] \in Reports
        /\ 1 \in DOMAIN fromDev
        /\ \A k \in DOMAIN Tail(fromDev) :
              k + 1 \in DOMAIN fromDev /\ Tail(fromDev)[k] = fromDev[k + 1]
    BY <1>1
  <1>3. DeviceTypeOK'
    BY <1>2 DEF TypeInv, TypeOK, DeviceTypeOK, Reads, world, authenticator
  <1>4. Filled'
    <2>1. \A k \in DOMAIN fromDev : HasStatus(fromDev[k])
      BY DEF TypeInv, Filled
    <2>2. fromDev' = Tail(fromDev)
      BY DEF Reads
    <2>3. \A k \in DOMAIN fromDev' : HasStatus(fromDev'[k])
      BY <1>2, <2>1, <2>2
    <2> QED
      BY <2>3 DEF TypeInv, Filled, Reads, world, authenticator, HasStatus, StatusOf
  <1> QED
    BY <1>1, <1>2, <1>3, <1>4 DEF Reads, Running, TypeInv, Filled, HasStatus, StatusOf

LEMMA NextPacketTyped ==
    ASSUME TypeInv
    PROVE  /\ NextPacket \in Reports /\ NextPacket.body # << >>
           /\ NextPacket.tag # CmdKeepAlive
  <1>1. /\ tx.left \in Seq(Byte) /\ tx.len \in 0..MaxLen /\ tx.first \in BOOLEAN
        /\ tx.contSeq \in Nat /\ cid \in -1..MaxCalls
    BY CtapHidAssumption DEF TypeInv, TypeOK, ClientTypeOK
  <1>2. RoomInNext \in Nat \ {0}
    BY CtapHidAssumption DEF RoomInNext
  <1>3. BytesInNext \in 0..Len(tx.left)
    BY <1>1, <1>2 DEF BytesInNext, Least
  <1>4. SubSeq(tx.left, 1, BytesInNext) \in Seq(Byte)
    BY <1>1, <1>3, FirstBytes
  <1> DEFINE b == Padded(SubSeq(tx.left, 1, BytesInNext), RoomInNext)
  <1>5. b \in Seq(Byte) /\ Len(b) = RoomInNext
    BY <1>2, <1>4, PaddedProperties
  <1>6. TagOfNext \in Int /\ TagOfNext # CmdKeepAlive
    <2>1. CASE tx.first
      BY <2>1 DEF TagOfNext, Cmd, CmdInit, CmdCBOR, CmdKeepAlive
    <2>2. CASE ~tx.first
      <3>1. TagOfNext \in 0..(SeqSpace - 1)
        BY <1>1, <2>2, CtapHidAssumption DEF TagOfNext
      <3> QED
        BY <3>1, NumbersAreNotCommands DEF Commands
    <2> QED
      BY <2>1, <2>2
  <1>7. (IF tx.first THEN tx.len ELSE 0) \in 0..MaxLen
    BY <1>1, CtapHidAssumption
  <1> HIDE DEF b
  <1>8. b # << >>
    BY <1>2, <1>5
  <1>9. NextPacket = Packet(cid, TagOfNext, IF tx.first THEN tx.len ELSE 0, b)
    BY DEF NextPacket, b
  <1> QED
    BY <1>1, <1>5, <1>6, <1>7, <1>8, <1>9 DEF Packet, Reports

LEMMA WrittenTyped ==
    ASSUME TypeInv, toDev' = Append(toDev, NextPacket),
           UNCHANGED <<asked, authenticator, fromDev, world>>
    PROVE  DeviceTypeOK' /\ Filled'
  <1>1. /\ toDev \in Seq(Reports) /\ NextPacket \in Reports /\ NextPacket.body # << >>
        /\ NextPacket.tag # CmdKeepAlive
    BY NextPacketTyped DEF TypeInv, TypeOK, DeviceTypeOK
  <1>2. DeviceTypeOK'
    BY <1>1 DEF TypeInv, TypeOK, DeviceTypeOK, world, authenticator
  <1>3. \A k \in DOMAIN toDev' : toDev'[k].body # << >> /\ toDev'[k].tag # CmdKeepAlive
    BY <1>1 DEF TypeInv, Filled
  <1> QED
    BY <1>2, <1>3 DEF TypeInv, Filled, authenticator, HasStatus, StatusOf

LEMMA SameDevice ==
    ASSUME TypeInv, UNCHANGED <<asked, authenticator, toDev, fromDev, world>>
    PROVE  DeviceTypeOK' /\ Filled'
  <1>1. DeviceTypeOK'
    BY DEF TypeInv, TypeOK, DeviceTypeOK, world, authenticator
  <1> QED
    BY <1>1 DEF TypeInv, Filled, authenticator, HasStatus, StatusOf

LEMMA SameClient ==
    ASSUME TypeInv, UNCHANGED client
    PROVE  ClientTypeOK' /\ History'
  <1>1. ClientTypeOK'
    BY DEF TypeInv, TypeOK, ClientTypeOK, client
  <1> QED
    BY <1>1 DEF TypeInv, History, client, Running

LEMMA QueuedTyped ==
    ASSUME NEW q \in Seq(Reports), NEW p \in Reports,
           \A k \in DOMAIN q : HasStatus(q[k]), HasStatus(p)
    PROVE  /\ Queued(q, p) \in Seq(Reports)
           /\ \A k \in DOMAIN Queued(q, p) : HasStatus(Queued(q, p)[k])
  <1>1. CASE "latest" \in platform
    <2>1. Queued(q, p) = <<p>>
      BY <1>1 DEF Queued
    <2> QED
      BY <2>1
  <1>2. CASE "latest" \notin platform
    <2>1. Queued(q, p) = Append(q, p)
      BY <1>2 DEF Queued
    <2>2. \A k \in DOMAIN Append(q, p) : HasStatus(Append(q, p)[k])
      OBVIOUS
    <2> QED
      BY <2>1, <2>2
  <1> QED
    BY <1>1, <1>2

\* The authenticator sends the packets of a message.
LEMMA SentTyped ==
    ASSUME TypeInv, NEW cmd \in Int, NEW msg \in Seq(Byte), Len(msg) <= MaxLen,
           cmd = CmdKeepAlive => msg # << >> /\ msg[1][2] \in Statuses,
           devOut' = devOut \o Frames(dev.cid, cmd, msg)
    PROVE  /\ devOut' \in Seq(Reports)
           /\ \A k \in DOMAIN devOut' : HasStatus(devOut'[k])
  <1>1. PICK fr : fr = Frames(dev.cid, cmd, msg)
    OBVIOUS
  <1>2. /\ dev.cid \in -1..MaxCalls /\ devOut \in Seq(Reports)
        /\ \A k \in DOMAIN devOut : HasStatus(devOut[k])
    BY DEF TypeInv, TypeOK, DeviceTypeOK, Filled
  <1>3. /\ fr \in Seq(Reports) /\ fr # << >>
        /\ \A k \in 1..Len(fr) :
              IF k = 1 THEN fr[k].tag = cmd /\ fr[k].body = Padded(msg, InitBody)
              ELSE fr[k].tag \in 0..(SeqSpace - 1)
    BY <1>1, <1>2, FramesTyped
  <1>4. \A k \in DOMAIN fr : HasStatus(fr[k])
    <2> TAKE k \in DOMAIN fr
    <2>1. CASE k = 1
      <3>1. SUFFICES ASSUME cmd = CmdKeepAlive
                     PROVE  fr[1].body # << >> /\ fr[1].body[1][2] \in Statuses
        BY <1>3, <2>1 DEF HasStatus, StatusOf
      <3>2. msg # << >> /\ msg[1][2] \in Statuses
        BY <3>1
      <3>3. InitBody \in Nat /\ InitBody >= 1
        BY CtapHidAssumption
      <3>4. /\ Padded(msg, InitBody) \in Seq(Byte) /\ Len(Padded(msg, InitBody)) = InitBody
            /\ \A j \in 1..InitBody :
                  Padded(msg, InitBody)[j] = IF j <= Len(msg) THEN msg[j] ELSE Pad
        BY <3>3, PaddedProperties
      <3>5. PICK b \in Seq(Byte) : b = fr[1].body /\ Len(b) = InitBody /\ b[1] = msg[1]
        BY <1>3, <3>2, <3>3, <3>4
      <3> QED
        BY <3>2, <3>3, <3>5
    <2>2. CASE k # 1
      <3>1. fr[k].tag \in 0..(SeqSpace - 1)
        BY <1>3, <2>2
      <3>2. fr[k].tag # CmdKeepAlive
        BY <3>1, NumbersAreNotCommands DEF Commands
      <3> QED
        BY <3>2 DEF HasStatus
    <2> QED
      BY <2>1, <2>2
  <1>5. devOut \o fr \in Seq(Reports) /\ \A k \in DOMAIN (devOut \o fr) : HasStatus((devOut \o fr)[k])
    <2>1. \A k \in DOMAIN (devOut \o fr) :
             \/ k \in DOMAIN devOut /\ (devOut \o fr)[k] = devOut[k]
             \/ k - Len(devOut) \in DOMAIN fr /\ (devOut \o fr)[k] = fr[k - Len(devOut)]
      BY <1>2, <1>3
    <2> QED
      BY <1>2, <1>3, <1>4, <2>1
  <1> QED
    BY <1>1, <1>5


LEMMA StartTyped == TypeInv /\ StartCall => TypeInv'
  <1> SUFFICES ASSUME TypeInv, StartCall PROVE TypeInv'
    OBVIOUS
  <1>1. /\ n \in Nat /\ n < MaxCalls /\ MaxCalls \in Nat /\ pc = "idle" /\ conn \in 1..MaxCalls
        /\ asked \in [Calls -> 0..MaxLen] /\ Len(out) = n /\ out \in Seq(Outcomes)
        /\ conn <= n + 1
    BY CtapHidAssumption
       DEF StartCall, TypeInv, TypeOK, ClientTypeOK, DeviceTypeOK, History, Running
  <1>2. PICK len \in NextLens :
           /\ len <= MaxLen
           /\ asked' = [asked EXCEPT ![n + 1] = len]
           /\ tx' = [NoTx EXCEPT !.left = Request(n + 1, len), !.len = len]
    BY DEF StartCall
  <1>3. len \in 0..MaxLen
    BY <1>2, CtapHidAssumption DEF NextLens
  <1>4. PICK m \in 1..MaxCalls : m = n + 1 /\ m = n'
    BY <1>1 DEF StartCall
  <1>5. Request(m, len) \in Seq(Byte)
    BY <1>1, <1>3, MessagesTyped
  <1>6. tx' \in [left : Seq(Byte), len : 0..MaxLen, first : BOOLEAN,
                 contSeq : 0..(2 * SeqSpace - 1)]
    <2>1. 0 \in 0..(2 * SeqSpace - 1)
      BY CtapHidAssumption
    <2> QED
      BY <1>2, <1>3, <1>4, <1>5, <2>1 DEF NoTx
  <1>7. asked' \in [Calls -> 0..MaxLen]
    BY <1>1, <1>2, <1>3
  <1>8. Len(out) <= m /\ Len(out) = m - 1 /\ conn <= m /\ conn <= m + 1 /\ m \in 0..MaxCalls
    BY <1>1, <1>4
  <1>9. ClientTypeOK'
    <2>1. Len(out') <= n' /\ n' \in 0..MaxCalls
      BY <1>4, <1>8 DEF StartCall
    <2> QED
      BY <2>1, <1>6 DEF StartCall, TypeInv, TypeOK, ClientTypeOK
  <1>10. DeviceTypeOK'
    BY <1>7 DEF StartCall, TypeInv, TypeOK, DeviceTypeOK, authenticator, world
  <1>11. History'
    <2>1. out' = out /\ conn' = conn /\ phase' = phase /\ cid' = cid /\ rx' = rx /\ pc' = "send"
      BY DEF StartCall
    <2>2. Running' /\ (Len(out') = n' - 1) /\ conn' <= n' /\ conn' <= n' + 1
      BY <2>1, <1>4, <1>8, Zenon DEF Running
    <2>3. ~rx.begun
      BY <1>1 DEF TypeInv, History
    <2> QED
      BY <2>1, <2>2, <2>3 DEF TypeInv, History
  <1>12. Filled'
    BY DEF StartCall, TypeInv, Filled, authenticator, HasStatus, StatusOf
  <1> QED
    BY <1>9, <1>10, <1>11, <1>12 DEF TypeInv, TypeOK

LEMMA ClientStepTyped == TypeInv /\ (ClientStep \/ RequestTooLong \/ Reopen) => TypeInv'
  <1> SUFFICES ASSUME TypeInv, ClientStep \/ RequestTooLong \/ Reopen PROVE TypeInv'
    OBVIOUS
  <1>0. /\ tx.first \in BOOLEAN /\ tx \in [left : Seq(Byte), len : 0..MaxLen, first : BOOLEAN,
               contSeq : 0..(2 * SeqSpace - 1)]
        /\ rx \in [begun : BOOLEAN, body : Seq(Byte), expected : 0..MaxLen,
               seq : 0..(2 * SeqSpace - 1), lastKA : Statuses \cup {-1}]
    BY DEF TypeInv, TypeOK, ClientTypeOK
  <1>1. CASE RequestTooLong
    <2>1. << >> \in Seq(Byte) /\ cid \in 0..MaxCalls
      BY DEF TypeInv, TypeOK, ClientTypeOK
    <2>2. ClientTypeOK' /\ History'
      BY <1>1, <2>1, ReturnTyped DEF RequestTooLong, Results
    <2>3. DeviceTypeOK' /\ Filled'
      BY <1>1, SameDevice DEF RequestTooLong
    <2> QED
      BY <2>2, <2>3 DEF TypeInv, TypeOK
  <1>2. CASE SendPacket
    <2>1. DeviceTypeOK' /\ Filled'
      BY <1>2, WrittenTyped DEF SendPacket
    <2>2. ClientTypeOK'
      <3>1. LeftAfterNext \in Seq(Byte)
        <4>1. BytesInNext \in 0..Len(tx.left)
          BY <1>0, CtapHidAssumption DEF BytesInNext, Least, RoomInNext
        <4> QED
          BY <1>0, <4>1, DropProperties DEF LeftAfterNext
      <3>2. NextByte(tx.contSeq) \in 0..(2 * SeqSpace - 1)
        BY <1>0, CtapHidAssumption DEF NextByte
      <3>3. tx' \in [left : Seq(Byte), len : 0..MaxLen, first : BOOLEAN,
                     contSeq : 0..(2 * SeqSpace - 1)]
        BY <1>0, <1>2, <3>1, <3>2 DEF SendPacket
      <3>4. pc' \in {"idle", "send", "recv", "closed"}
        BY <1>2 DEF SendPacket
      <3> QED
        BY <1>2, <3>3, <3>4 DEF SendPacket, TypeInv, TypeOK, ClientTypeOK
    <2>3. History'
      <3>1. pc = "send" /\ pc' \in {"send", "recv"} /\ Running /\ Running'
        BY <1>2 DEF SendPacket, Running
      <3>2. ~rx.begun
        BY <3>1 DEF TypeInv, History
      <3> QED
        BY <1>2, <3>1, <3>2 DEF SendPacket, TypeInv, History
    <2> QED
      BY <2>1, <2>2, <2>3 DEF TypeInv, TypeOK
  <1>3. CASE WriteFails
    <2>1. ClientTypeOK' /\ History'
      BY <1>3, FailTyped DEF WriteFails, Running
    <2>2. DeviceTypeOK' /\ Filled'
      BY <1>3, WrittenTyped, SameDevice DEF WriteFails
    <2> QED
      BY <2>1, <2>2 DEF TypeInv, TypeOK
  <1>4. CASE ReadFails
    <2>1. ClientTypeOK' /\ History'
      BY <1>4, FailTyped DEF ReadFails, Running
    <2>2. CASE UNCHANGED fromDev
      BY <1>4, <2>1, <2>2, SameDevice DEF ReadFails, TypeInv, TypeOK
    <2>3. CASE fromDev # << >> /\ fromDev' = Tail(fromDev)
      <3>1. Reads
        BY <1>4, <2>3 DEF ReadFails, Reads
      <3> QED
        BY <2>1, <3>1, ReadsTyped DEF TypeInv, TypeOK
    <2> QED
      BY <1>4, <2>2, <2>3 DEF ReadFails
  <1>5. CASE Reads
    <2>1. /\ DeviceTypeOK' /\ Filled' /\ Running /\ n' = n /\ Report \in Reports
          /\ Report.tag = CmdKeepAlive => StatusOf(Report) \in Statuses
      BY <1>5, ReadsTyped
    <2>2. Report.body \in Seq(Byte) /\ Report.len \in 0..MaxLen
      BY <2>1 DEF Reports
    <2>3. SUFFICES ClientTypeOK' /\ History'
      BY <2>1 DEF TypeInv, TypeOK
    <2>4. CASE Fail
      BY <2>1, <2>4, FailTyped
    <2>5. CASE ReadError
      <3>1. << >> \in Seq(Byte) /\ cid \in 0..MaxCalls
        BY DEF TypeInv, TypeOK, ClientTypeOK
      <3> QED
        BY <2>1, <2>5, <3>1, ReturnTyped DEF ReadError, Results
    <2>6. ASSUME NEW b \in Seq(Byte), NEW len \in 0..MaxLen, Received(b, len)
          PROVE  ClientTypeOK' /\ History'
      BY <2>1, <2>6, ReceivedTyped
    <2>7. ASSUME UNCHANGED <<pc, phase, conn, cid, tx, out>>,
                 rx' \in [begun : BOOLEAN, body : Seq(Byte), expected : 0..MaxLen,
                          seq : 0..(2 * SeqSpace - 1), lastKA : Statuses \cup {-1}],
                 callbacks' \in Seq(Statuses)
          PROVE  ClientTypeOK' /\ History'
      <3>1. ClientTypeOK'
        BY <2>1, <2>7 DEF TypeInv, TypeOK, ClientTypeOK
      <3>2. pc = "recv"
        BY <1>5 DEF Reads
      <3> QED
        BY <2>1, <2>7, <3>1, <3>2 DEF TypeInv, History, Running
    <2>8. callbacks \in Seq(Statuses)
      BY DEF TypeInv, TypeOK, ClientTypeOK
    <2>9. CASE ReadKeepAlive
      <3>1. StatusOf(Report) \in Statuses
        BY <2>1, <2>9 DEF ReadKeepAlive, IsKeepAlive
      <3>2. callbacks' \in Seq(Statuses)
        BY <2>8, <2>9, <3>1 DEF ReadKeepAlive
      <3>3. rx' \in [begun : BOOLEAN, body : Seq(Byte), expected : 0..MaxLen,
                     seq : 0..(2 * SeqSpace - 1), lastKA : Statuses \cup {-1}]
        BY <1>0, <2>9, <3>1 DEF ReadKeepAlive
      <3> QED
        BY <2>7, <2>9, <3>2, <3>3 DEF ReadKeepAlive
    <2>10. CASE ReadFirst
      <3>1. CASE Received(Report.body, Report.len)
        BY <2>2, <2>6, <3>1
      <3>2. CASE /\ rx' = [rx EXCEPT !.begun = TRUE, !.body = Report.body,
                              !.expected = Report.len]
                 /\ UNCHANGED <<pc, phase, conn, cid, tx, callbacks, out>>
        <4>1. rx' \in [begun : BOOLEAN, body : Seq(Byte), expected : 0..MaxLen,
                       seq : 0..(2 * SeqSpace - 1), lastKA : Statuses \cup {-1}]
          BY <1>0, <2>2, <3>2
        <4> QED
          BY <2>7, <2>8, <3>2, <4>1
      <3> QED
        BY <2>10, <3>1, <3>2 DEF ReadFirst
    <2>11. CASE ReadContinuation
      <3>1. rx.body \o Report.body \in Seq(Byte) /\ rx.expected \in 0..MaxLen
        BY <1>0, <2>2
      <3>2. CASE Received(rx.body \o Report.body, rx.expected)
        BY <2>6, <3>1, <3>2
      <3>3. CASE /\ rx' = [rx EXCEPT !.body = @ \o Report.body, !.seq = NextByte(@)]
                 /\ UNCHANGED <<pc, phase, conn, cid, tx, callbacks, out>>
        <4>1. NextByte(rx.seq) \in 0..(2 * SeqSpace - 1)
          BY <1>0, CtapHidAssumption DEF NextByte
        <4>2. rx' \in [begun : BOOLEAN, body : Seq(Byte), expected : 0..MaxLen,
                       seq : 0..(2 * SeqSpace - 1), lastKA : Statuses \cup {-1}]
          BY <1>0, <3>1, <3>3, <4>1
        <4> QED
          BY <2>7, <2>8, <3>3, <4>2
      <3> QED
        BY <2>11, <3>2, <3>3 DEF ReadContinuation
    <2>12. Fail \/ ReadError \/ ReadKeepAlive \/ ReadFirst \/ ReadContinuation
      <3>1. ReadRefused => Fail
        BY DEF ReadRefused
      <3>2. pc = "recv"
        BY <1>5 DEF Reads
      <3> QED
        BY <3>1, <3>2 DEF ClientStep, SendPacket, WriteFails, ReadFails, RequestTooLong, Reopen
    <2> QED
      BY <2>4, <2>5, <2>9, <2>10, <2>11, <2>12
  <1>6. CASE Reopen
    <2>1. /\ n \in Nat /\ n < MaxCalls /\ conn \in 1..MaxCalls /\ conn <= n /\ pc = "closed"
          /\ MaxCalls \in Nat /\ out \in Seq(Outcomes) /\ ~rx.begun
      BY <1>6, CtapHidAssumption DEF Reopen, TypeInv, TypeOK, ClientTypeOK, History
    <2>2. ClientTypeOK'
      <3>1. conn + 1 \in 1..MaxCalls /\ Broadcast \in 0..MaxCalls
        BY <2>1 DEF Broadcast
      <3> QED
        BY <1>6, <3>1 DEF Reopen, TypeInv, TypeOK, ClientTypeOK, Phases
    <2>3. DeviceTypeOK'
      <3>1. << >> \in Seq(Reports)
        OBVIOUS
      <3> QED
        BY <1>6, <3>1 DEF Reopen, TypeInv, TypeOK, DeviceTypeOK, authenticator, world
    <2>4. Filled'
      BY <1>6 DEF Reopen, TypeInv, Filled, authenticator, HasStatus, StatusOf
    <2>5. History'
      <3>1. /\ pc' = "idle" /\ phase' = "init" /\ conn' = conn + 1 /\ cid' = Broadcast
            /\ n' = n /\ out' = out /\ rx' = rx
        BY <1>6 DEF Reopen
      <3>2. conn + 1 <= n + 1 /\ \A k \in DOMAIN out : out[k].conn <= conn + 1
        <4>1. \A k \in DOMAIN out : out[k] \in Outcomes /\ out[k].conn <= conn
          BY <2>1 DEF TypeInv, History
        <4>2. \A k \in DOMAIN out : out[k].conn \in 1..MaxCalls
          BY <4>1 DEF Outcomes
        <4> QED
          BY <2>1, <4>1, <4>2
      <3> QED
        BY <2>1, <3>1, <3>2 DEF TypeInv, History, Running
    <2> QED
      BY <2>2, <2>3, <2>4, <2>5 DEF TypeInv, TypeOK
  <1>7. ClientStep => SendPacket \/ WriteFails \/ ReadFails \/ Reads
    BY DEF ClientStep, ReadRefused, ReadError, ReadKeepAlive, ReadFirst, ReadContinuation
  <1> QED
    BY <1>1, <1>2, <1>3, <1>4, <1>5, <1>6, <1>7


LEMMA DeviceStepTyped ==
    TypeInv /\ (DevTake \/ DevKeepAlive \/ DevAnswer \/ DevError \/ DevEmit
                   \/ ForeignReport \/ Unplug) => TypeInv'
  <1> SUFFICES ASSUME TypeInv,
                      DevTake \/ DevKeepAlive \/ DevAnswer \/ DevError \/ DevEmit
                         \/ ForeignReport \/ Unplug
               PROVE  TypeInv'
    OBVIOUS
  <1>1. ClientTypeOK' /\ History'
    BY SameClient
       DEF DevTake, DevKeepAlive, DevAnswer, DevError, DevEmit, ForeignReport, Unplug
  <1>2. SUFFICES DeviceTypeOK' /\ Filled'
    BY <1>1 DEF TypeInv, TypeOK
  <1>3. /\ toDev \in Seq(Reports) /\ devOut \in Seq(Reports) /\ fromDev \in Seq(Reports)
        /\ dev \in [st : {"idle", "gather", "work"}, cid : -1..MaxCalls, cmd : Int,
                    need : 0..MaxLen, got : Seq(Byte), seq : 0..(SeqSpace - 1),
                    kas : 0..MaxKeepAlives]
        /\ given \in [Calls -> [len : 0..MaxLen, ok : BOOLEAN, sent : BOOLEAN]]
        /\ foreign \in 0..MaxForeign /\ alive \in BOOLEAN
    BY DEF TypeInv, TypeOK, DeviceTypeOK
  <1>4. /\ \A k \in DOMAIN toDev : toDev[k].body # << >> /\ toDev[k].tag # CmdKeepAlive
        /\ dev.st # "idle" => dev.got # << >> /\ dev.cmd # CmdKeepAlive
        /\ \A k \in DOMAIN devOut : HasStatus(devOut[k])
        /\ \A k \in DOMAIN fromDev : HasStatus(fromDev[k])
    BY DEF TypeInv, Filled
  <1>5. Idle \in [st : {"idle", "gather", "work"}, cid : -1..MaxCalls, cmd : Int,
                  need : 0..MaxLen, got : Seq(Byte), seq : 0..(SeqSpace - 1),
                  kas : 0..MaxKeepAlives]
    <2>1. /\ 0 \in 0..(SeqSpace - 1) /\ 0 \in 0..MaxLen /\ 0 \in -1..MaxCalls
          /\ 0 \in 0..MaxKeepAlives /\ << >> \in Seq(Byte)
      BY CtapHidAssumption
    <2> QED
      BY <2>1 DEF Idle
  <1>6. CASE DevTake
    <2>1. toDev # << >> /\ toDev' = Tail(toDev)
      BY <1>6 DEF DevTake
    <2>2. PICK p \in Reports : /\ p = Head(toDev) /\ p.body # << >> /\ p.body \in Seq(Byte)
                               /\ p.tag # CmdKeepAlive
      <3>1. Head(toDev) = toDev[1] /\ 1 \in DOMAIN toDev /\ toDev[1] \in Reports
        BY <1>3, <2>1
      <3>2. \A p \in Reports : p.body \in Seq(Byte)
        BY DEF Reports
      <3> QED
        BY <1>4, <3>1, <3>2
    <2>3. /\ toDev' \in Seq(Reports)
          /\ \A k \in DOMAIN toDev' : k + 1 \in DOMAIN toDev /\ toDev'[k] = toDev[k + 1]
      BY <1>3, <2>1
    <2>4. ASSUME NEW d \in [st : {"idle", "gather", "work"}, cid : -1..MaxCalls, cmd : Int,
                            need : 0..MaxLen, got : Seq(Byte), seq : 0..(SeqSpace - 1),
                            kas : 0..MaxKeepAlives]
          PROVE  /\ Gathered(d, p.body) \in
                       [st : {"idle", "gather", "work"}, cid : -1..MaxCalls, cmd : Int,
                        need : 0..MaxLen, got : Seq(Byte), seq : 0..(SeqSpace - 1),
                        kas : 0..MaxKeepAlives]
                 /\ Gathered(d, p.body).got # << >>
                 /\ Gathered(d, p.body).cmd = d.cmd
      <3>1. d.got \o p.body \in Seq(Byte) /\ d.got \o p.body # << >>
        BY <2>2
      <3> QED
        BY <3>1 DEF Gathered
    <2>5. /\ dev' \in [st : {"idle", "gather", "work"}, cid : -1..MaxCalls, cmd : Int,
                       need : 0..MaxLen, got : Seq(Byte), seq : 0..(SeqSpace - 1),
                       kas : 0..MaxKeepAlives]
          /\ dev'.got # << >> /\ dev'.cmd # CmdKeepAlive
      <3>1. [Idle EXCEPT !.cid = p.cid, !.cmd = p.tag, !.need = p.len] \in
                [st : {"idle", "gather", "work"}, cid : -1..MaxCalls, cmd : Int,
                 need : 0..MaxLen, got : Seq(Byte), seq : 0..(SeqSpace - 1),
                 kas : 0..MaxKeepAlives]
            /\ [Idle EXCEPT !.cid = p.cid, !.cmd = p.tag, !.need = p.len].cmd = p.tag
        BY <1>5, <2>2 DEF Reports
      <3>2. [dev EXCEPT !.seq = (@ + 1) % SeqSpace] \in
                [st : {"idle", "gather", "work"}, cid : -1..MaxCalls, cmd : Int,
                 need : 0..MaxLen, got : Seq(Byte), seq : 0..(SeqSpace - 1),
                 kas : 0..MaxKeepAlives]
            /\ [dev EXCEPT !.seq = (@ + 1) % SeqSpace].cmd = dev.cmd
        <4>1. (dev.seq + 1) % SeqSpace \in 0..(SeqSpace - 1)
          BY <1>3, CtapHidAssumption, SMTT(30)
        <4> QED
          BY <1>3, <4>1
      <3>3. \/ dev' = Gathered([Idle EXCEPT !.cid = p.cid, !.cmd = p.tag, !.need = p.len], p.body)
            \/ dev.st = "gather" /\ dev' = Gathered([dev EXCEPT !.seq = (@ + 1) % SeqSpace], p.body)
        BY <1>6, <2>2 DEF DevTake
      <3> QED
        <4>1. CASE dev' = Gathered([Idle EXCEPT !.cid = p.cid, !.cmd = p.tag, !.need = p.len],
                                   p.body)
          BY <2>2, <2>4, <3>1, <4>1
        <4>2. CASE dev.st = "gather"
                   /\ dev' = Gathered([dev EXCEPT !.seq = (@ + 1) % SeqSpace], p.body)
          <5>1. dev.cmd # CmdKeepAlive
            BY <1>4, <4>2
          <5> QED
            BY <2>4, <3>2, <4>2, <5>1
        <4> QED
          BY <3>3, <4>1, <4>2
    <2>6. DeviceTypeOK'
      BY <1>6, <2>3, <2>5 DEF DevTake, TypeInv, TypeOK, DeviceTypeOK, client, world
    <2>7. Filled'
      <3>1. \A k \in DOMAIN toDev' : toDev'[k].body # << >> /\ toDev'[k].tag # CmdKeepAlive
        BY <1>4, <2>3
      <3> QED
        BY <1>4, <1>6, <2>5, <3>1 DEF DevTake, Filled, HasStatus, StatusOf
    <2> QED
      BY <2>6, <2>7
  <1>7. CASE DevKeepAlive
    <2>1. PICK s \in Statuses :
             devOut' = devOut \o Frames(dev.cid, CmdKeepAlive, <<<<0, s>>>>)
      BY <1>7 DEF DevKeepAlive
    <2>2. PICK msg \in Seq(Byte) : msg = <<<<0, s>>>>
      BY MessagesTyped
    <2>3. Len(msg) = 1 /\ msg # << >> /\ msg[1][2] \in Statuses /\ Len(msg) <= MaxLen
      BY <2>2, CtapHidAssumption
    <2>4. CmdKeepAlive \in Int
      BY DEF CmdKeepAlive
    <2>5. devOut' \in Seq(Reports) /\ \A k \in DOMAIN devOut' : HasStatus(devOut'[k])
      BY <2>1, <2>2, <2>3, <2>4, SentTyped
    <2>6. dev' \in [st : {"idle", "gather", "work"}, cid : -1..MaxCalls, cmd : Int,
                    need : 0..MaxLen, got : Seq(Byte), seq : 0..(SeqSpace - 1),
                    kas : 0..MaxKeepAlives]
          /\ dev'.got = dev.got /\ dev'.st = dev.st /\ dev'.cmd = dev.cmd
      <3>1. dev.kas + 1 \in 0..MaxKeepAlives /\ dev' = [dev EXCEPT !.kas = @ + 1]
        <4>1. dev.kas \in 0..MaxKeepAlives
          BY <1>3
        <4> QED
          BY <1>7, <4>1, CtapHidAssumption, SMTT(30) DEF DevKeepAlive
      <3> QED
        BY <1>3, <3>1
    <2>7. DeviceTypeOK'
      BY <1>7, <2>5, <2>6 DEF DevKeepAlive, TypeInv, TypeOK, DeviceTypeOK, client, world
    <2>8. Filled'
      BY <1>4, <1>7, <2>5, <2>6 DEF DevKeepAlive, Filled, HasStatus, StatusOf
    <2> QED
      BY <2>7, <2>8
  <1>8. CASE DevAnswer
    <2>1. PICK len \in IF dev.cmd = CmdInit THEN {InitLen} ELSE RespLens, ok \in BOOLEAN :
             /\ devOut' = devOut \o Frames(dev.cid, dev.cmd,
                                 AnswerBytes(Asked, [len |-> len, ok |-> ok, sent |-> TRUE]))
             /\ given' = [given EXCEPT ![Asked] = [len |-> len, ok |-> ok, sent |-> TRUE]]
      BY <1>8 DEF DevAnswer
    <2>2. len \in 0..MaxLen
      BY CtapHidAssumption
    <2>3. PICK a \in [len : 0..MaxLen, ok : BOOLEAN, sent : BOOLEAN] :
             a = [len |-> len, ok |-> ok, sent |-> TRUE]
      BY <2>2
    <2>4. Asked \in 0..MaxCalls
      <3>1. dev.got[1] \in Byte
        BY <1>3, <1>4, <1>8 DEF DevAnswer
      <3> QED
        BY <3>1 DEF Asked, Byte
    <2>5. AnswerBytes(Asked, a) \in Seq(Byte) /\ Len(AnswerBytes(Asked, a)) <= MaxLen
      <3>1. AnswerBytes(Asked, a) \in Seq(Byte) /\ Len(AnswerBytes(Asked, a)) = a.len
        BY <2>4, MessagesTyped
      <3>2. a.len \in 0..MaxLen
        OBVIOUS
      <3> QED
        BY <3>1, <3>2, CtapHidAssumption
    <2>6. dev.cmd \in Int /\ dev.cmd # CmdKeepAlive
      BY <1>3, <1>4, <1>8 DEF DevAnswer
    <2>7. devOut' \in Seq(Reports) /\ \A k \in DOMAIN devOut' : HasStatus(devOut'[k])
      BY <2>1, <2>3, <2>5, <2>6, SentTyped
    <2>8. given' \in [Calls -> [len : 0..MaxLen, ok : BOOLEAN, sent : BOOLEAN]]
      BY <1>3, <2>1, <2>3
    <2>9. DeviceTypeOK'
      BY <1>5, <1>8, <2>7, <2>8 DEF DevAnswer, TypeInv, TypeOK, DeviceTypeOK, client, world
    <2>10. Filled'
      BY <1>4, <1>8, <2>7 DEF DevAnswer, Filled, HasStatus, StatusOf, Idle
    <2> QED
      BY <2>9, <2>10
  <1>9. CASE DevError
    <2>1. <<Pad>> \in Seq(Byte) /\ Len(<<Pad>>) <= MaxLen
      BY MessagesTyped, CtapHidAssumption
    <2>2. CmdError \in Int /\ CmdError # CmdKeepAlive
      BY DEF CmdError, CmdKeepAlive
    <2>3. devOut' \in Seq(Reports) /\ \A k \in DOMAIN devOut' : HasStatus(devOut'[k])
      BY <1>9, <2>1, <2>2, SentTyped DEF DevError
    <2>4. DeviceTypeOK'
      BY <1>5, <1>9, <2>3 DEF DevError, TypeInv, TypeOK, DeviceTypeOK, client, world
    <2>5. Filled'
      BY <1>4, <1>9, <2>3 DEF DevError, Filled, HasStatus, StatusOf, Idle
    <2> QED
      BY <2>4, <2>5
  <1>10. CASE DevEmit
    <2>1. devOut # << >> /\ devOut' = Tail(devOut) /\ fromDev' = Queued(fromDev, Head(devOut))
      BY <1>10 DEF DevEmit
    <2>2. Head(devOut) \in Reports /\ HasStatus(Head(devOut))
      BY <1>3, <1>4, <2>1
    <2>3. fromDev' \in Seq(Reports) /\ \A k \in DOMAIN fromDev' : HasStatus(fromDev'[k])
      BY <1>3, <1>4, <2>1, <2>2, QueuedTyped
    <2>4. /\ devOut' \in Seq(Reports)
          /\ \A k \in DOMAIN devOut' : k + 1 \in DOMAIN devOut /\ devOut'[k] = devOut[k + 1]
      BY <1>3, <2>1
    <2>5. \A k \in DOMAIN devOut' : HasStatus(devOut'[k])
      BY <1>4, <2>4
    <2>6. DeviceTypeOK'
      BY <1>10, <2>3, <2>4 DEF DevEmit, TypeInv, TypeOK, DeviceTypeOK, client, world
    <2>7. Filled'
      BY <1>4, <1>10, <2>3, <2>5 DEF DevEmit, Filled, HasStatus, StatusOf
    <2> QED
      BY <2>6, <2>7
  <1>11. CASE ForeignReport
    <2>1. PICK p \in ForeignReports : fromDev' = Queued(fromDev, p)
      BY <1>11 DEF ForeignReport
    <2>2. p \in Reports /\ p.tag \in {CmdInit, CmdCBOR, Runt}
      BY ForeignTyped
    <2>3. HasStatus(p)
      BY <2>2 DEF HasStatus, CmdInit, CmdCBOR, Runt, CmdKeepAlive
    <2>4. fromDev' \in Seq(Reports) /\ \A k \in DOMAIN fromDev' : HasStatus(fromDev'[k])
      BY <1>3, <1>4, <2>1, <2>2, <2>3, QueuedTyped
    <2>5. foreign' \in 0..MaxForeign
      BY <1>3, <1>11, CtapHidAssumption DEF ForeignReport
    <2>6. DeviceTypeOK'
      BY <1>11, <2>4, <2>5 DEF ForeignReport, TypeInv, TypeOK, DeviceTypeOK, client, authenticator
    <2>7. Filled'
      BY <1>4, <1>11, <2>4 DEF ForeignReport, Filled, HasStatus, StatusOf, authenticator
    <2> QED
      BY <2>6, <2>7
  <1>12. CASE Unplug
    <2>1. DeviceTypeOK'
      BY <1>12 DEF Unplug, TypeInv, TypeOK, DeviceTypeOK, client, world
    <2>2. Filled'
      BY <1>4, <1>12 DEF Unplug, Filled, HasStatus, StatusOf
    <2> QED
      BY <2>1, <2>2
  <1> QED
    BY <1>6, <1>7, <1>8, <1>9, <1>10, <1>11, <1>12

LEMMA NextTypeInv == TypeInv /\ [Next]_vars => TypeInv'
  <1> SUFFICES ASSUME TypeInv, [Next]_vars PROVE TypeInv'
    OBVIOUS
  <1>1. CASE UNCHANGED vars
    <2>1. ClientTypeOK' /\ History'
      BY <1>1, SameClient DEF vars
    <2>2. DeviceTypeOK' /\ Filled'
      BY <1>1, SameDevice DEF vars, client
    <2> QED
      BY <2>1, <2>2 DEF TypeInv, TypeOK
  <1> QED
    BY <1>1, StartTyped, ClientStepTyped, DeviceStepTyped DEF Next, ClientStep

\* Every variable has the values the code gives it: counters stay within
\* their byte, channels are those allocated, what is written and read are
\* well-formed reports.
THEOREM TypeCorrect == Spec => []TypeOK
  <1>1. TypeInv => TypeOK
    BY DEF TypeInv
  <1> QED
    BY <1>1, InitTypeInv, NextTypeInv, PTL DEF Spec


-----------------------------------------------------------------------------
(* Requests on their way to the authenticator *)

LEMMA FirstByte ==
    ASSUME NEW p \in Reports, p.body # << >>
    PROVE  /\ p.body \in Seq(Byte) /\ Len(p.body) \in Nat \ {0} /\ p.body[1] \in Byte
           /\ CallOf(p) \in 0..MaxCalls /\ PosOf(p) \in Nat \ {0}
           /\ After(p) \in Nat \ {0} /\ After(p) > PosOf(p)
  <1>1. p.body \in Seq(Byte)
    BY DEF Reports
  <1>2. p.body[1] \in Byte /\ Len(p.body) \in Nat \ {0}
    BY <1>1
  <1>3. CallOf(p) \in 0..MaxCalls /\ PosOf(p) \in Nat \ {0}
    BY <1>2 DEF CallOf, PosOf, Byte
  <1>4. Room(PosOf(p)) \in Nat \ {0}
    BY CtapHidAssumption DEF Room
  <1> QED
    BY <1>1, <1>2, <1>3, <1>4 DEF After

\* While a call runs its number is that of the next result.
LEMMA RunningCall ==
    ASSUME TypeInv, Running
    PROVE  n \in 1..MaxCalls /\ n \in Calls /\ Len(out) = n - 1 /\ n - 1 \in Nat
  BY CtapHidAssumption DEF TypeInv, TypeOK, ClientTypeOK, History, Running, Calls

\* A connection's channel is the number of an earlier call.
LEMMA ChannelNumber ==
    ASSUME TypeInv, ChannelIsOurs
    PROVE  /\ phase # "init" => cid \in 1..Len(out)
           /\ cid = Broadcast <=> phase = "init"
           /\ CommandOn(cid) = Cmd
  <1>1. phase # "init" => cid \in 1..Len(out)
    <2> SUFFICES ASSUME phase # "init" PROVE cid \in 1..Len(out)
      OBVIOUS
    <2>1. PICK k \in DOMAIN out : cid = out[k].call
      BY DEF ChannelIsOurs
    <2>2. out[k].call = k
      BY DEF TypeInv, History
    <2> QED
      BY <2>1, <2>2 DEF TypeInv, TypeOK, ClientTypeOK
  <1>2. phase = "init" => cid = Broadcast
    BY DEF TypeInv, History
  <1> QED
    BY <1>1, <1>2 DEF Broadcast, CommandOn, Cmd

\* The packet sendRequest writes next carries the bytes that come next.
LEMMA NextPacketIs ==
    ASSUME TypeInv, ChannelIsOurs, SendsTheRest, pc = "send",
           NEW p, p = NextPacket,
           NEW i, i = asked[n] - Len(tx.left) + 1
    PROVE  /\ IsRequest(p) /\ p.cid = cid /\ CallOf(p) = n /\ PosOf(p) = i
           /\ i \in 1..asked[n] /\ (tx.first <=> i = 1)
           /\ i + RoomInNext = After(p)
           /\ p \in Reports /\ p.body # << >>
           /\ BytesInNext \in 1..Len(tx.left) /\ BytesInNext <= RoomInNext
           /\ BytesInNext < RoomInNext => BytesInNext = Len(tx.left)
  <1>1. n \in 1..MaxCalls /\ n \in Calls /\ Len(out) = n - 1 /\ n - 1 \in Nat
    BY RunningCall DEF Running
  <1>2. /\ tx.left \in Seq(Byte) /\ tx.len \in 0..MaxLen /\ tx.first \in BOOLEAN
        /\ tx.contSeq \in Nat /\ asked[n] \in 0..MaxLen /\ Len(tx.left) \in Nat
    BY <1>1, CtapHidAssumption DEF TypeInv, TypeOK, ClientTypeOK, DeviceTypeOK
  <1>3. PICK len \in Nat : len = asked[n]
    BY <1>2, CtapHidAssumption
  <1>4. /\ tx.len = len /\ i \in 1..len /\ (tx.first <=> i = 1) /\ i \in Nat
        /\ \A j \in 1..Len(tx.left) : tx.left[j] = <<n, i + j - 1>>
    BY <1>3 DEF SendsTheRest
  <1>5. Len(tx.left) = len - i + 1 /\ Len(tx.left) >= 1
    BY <1>2, <1>3, <1>4
  <1>6. RoomInNext = Room(i) /\ Room(i) \in Nat \ {0}
    BY <1>4, CtapHidAssumption DEF RoomInNext, Room
  <1>7. /\ BytesInNext \in 1..Len(tx.left) /\ BytesInNext <= RoomInNext
        /\ BytesInNext < RoomInNext => BytesInNext = Len(tx.left)
    <2>1. PICK r \in Nat \ {0} : r = RoomInNext
      BY <1>6
    <2>2. PICK l \in Nat \ {0} : l = Len(tx.left)
      BY <1>2, <1>5
    <2>3. BytesInNext = IF l < r THEN l ELSE r
      BY <2>1, <2>2 DEF BytesInNext, Least
    <2> QED
      BY <2>1, <2>2, <2>3
  <1>8. PICK s \in Seq(Byte) :
           /\ s = SubSeq(tx.left, 1, BytesInNext)
           /\ Len(s) = BytesInNext /\ \A j \in 1..BytesInNext : s[j] = tx.left[j]
    <2>1. BytesInNext \in 0..Len(tx.left)
      BY <1>2, <1>7
    <2> DEFINE s == SubSeq(tx.left, 1, BytesInNext)
    <2>2. s \in Seq(Byte) /\ Len(s) = BytesInNext /\ \A j \in 1..BytesInNext : s[j] = tx.left[j]
      BY <1>2, <2>1, FirstBytes
    <2> QED
      BY <2>2
  <1>9. PICK b \in Seq(Byte) :
           /\ b = Padded(s, RoomInNext) /\ Len(b) = RoomInNext
           /\ \A j \in 1..RoomInNext : b[j] = IF j <= Len(s) THEN s[j] ELSE Pad
    BY <1>6, PaddedProperties
  <1>10. p = Packet(cid, TagOfNext, IF tx.first THEN tx.len ELSE 0, b)
    BY <1>8, <1>9 DEF NextPacket
  <1>11. /\ p.cid = cid /\ p.tag = TagOfNext /\ p.body = b
         /\ p.len = IF tx.first THEN tx.len ELSE 0
    BY <1>10 DEF Packet
  <1>12. b[1] = <<n, i>>
    <2>1. 1 \in 1..Len(tx.left) /\ 1 \in 1..BytesInNext /\ 1 \in 1..RoomInNext
      <3>1. Len(tx.left) \in Nat \ {0}
        BY <1>2, <1>5
      <3>2. RoomInNext \in Nat \ {0}
        BY <1>6
      <3>3. BytesInNext \in Nat \ {0}
        BY <1>7, <3>1
      <3> QED
        BY <3>1, <3>2, <3>3
    <2>2. b[1] = tx.left[1]
      BY <1>8, <1>9, <2>1
    <2>3. i + 1 - 1 = i
      BY <1>4
    <2> QED
      BY <1>4, <2>1, <2>2, <2>3
  <1>13. CallOf(p) = n /\ PosOf(p) = i
    BY <1>4, <1>11, <1>12 DEF CallOf, PosOf
  <1>14. \A j \in 1..Room(i) : i + j - 1 <= len => b[j] = ByteOf(n, TRUE, i + j - 1)
    <2> TAKE j \in 1..Room(i)
    <2> HAVE i + j - 1 <= len
    <2>1. j \in 1..Len(tx.left)
      BY <1>4, <1>5, <1>6
    <2>2. j <= BytesInNext
      BY <1>2, <1>6, <1>7, <2>1
    <2>3. b[j] = tx.left[j]
      BY <1>6, <1>7, <1>8, <1>9, <2>1, <2>2
    <2> QED
      BY <1>4, <2>1, <2>3 DEF ByteOf
  <1>15. IF i = 1 THEN p.tag = CommandOn(p.cid) /\ p.len = len
         ELSE p.tag \in 0..(SeqSpace - 1)
    <2>1. CASE i = 1
      BY <1>4, <1>11, <2>1, ChannelNumber DEF TagOfNext
    <2>2. CASE i # 1
      <3>1. tx.contSeq % SeqSpace \in 0..(SeqSpace - 1)
        BY <1>2, CtapHidAssumption
      <3> QED
        BY <1>4, <1>11, <2>2, <3>1 DEF TagOfNext
    <2> QED
      BY <2>1, <2>2
  <1>16. Carries(p, len, TRUE)
    BY <1>4, <1>6, <1>9, <1>11, <1>13, <1>14, <1>15 DEF Carries
  <1>17. cid \in 0..(n - 1)
    <2>1. phase # "init" => cid \in 1..Len(out)
      BY ChannelNumber
    <2>2. phase = "init" => cid = 0
      BY DEF TypeInv, History, Broadcast
    <2> QED
      BY <1>1, <2>1, <2>2
  <1>18. IsRequest(p)
    <2>1. p.cid \in 0..(CallOf(p) - 1) /\ asked[CallOf(p)] = len /\ CallOf(p) \in 1..n
      BY <1>1, <1>3, <1>11, <1>13, <1>17
    <2> QED
      BY <1>16, <2>1 DEF IsRequest
  <1>19. i + RoomInNext = After(p)
    BY <1>6, <1>13 DEF After
  <1>20. p \in Reports /\ p.body # << >>
    BY NextPacketTyped
  <1> QED
    BY <1>3, <1>4, <1>7, <1>11, <1>13, <1>18, <1>19, <1>20


Line == RequestsInLine /\ GatheredInOrder /\ Unanswered

\* The packets waiting for the authenticator are not empty.
LEMMA Waiting ==
    ASSUME TypeInv, RequestsInLine, NEW k \in DOMAIN toDev, NEW p, p = toDev[k]
    PROVE  /\ toDev \in Seq(Reports) /\ k \in 1..Len(toDev)
           /\ p \in Reports /\ p.body # << >> /\ IsRequest(p)
           /\ CallOf(p) \in 1..n /\ CallOf(p) \in Nat /\ PosOf(p) \in Nat \ {0}
           /\ PosOf(p) \in 1..asked[CallOf(p)]
  <1>1. toDev \in Seq(Reports) /\ p.body # << >> /\ n \in Nat
    <2>1. toDev[k].body # << >>
      BY DEF TypeInv, Filled
    <2> QED
      BY <2>1 DEF TypeInv, TypeOK, DeviceTypeOK, ClientTypeOK
  <1>2. k \in 1..Len(toDev) /\ p \in Reports
    BY <1>1
  <1>3. IsRequest(p)
    BY DEF RequestsInLine
  <1>4. CallOf(p) \in 1..n /\ CallOf(p) \in Nat /\ PosOf(p) \in Nat \ {0}
    BY <1>1, <1>2, <1>3, FirstByte DEF IsRequest
  <1>5. PosOf(p) \in 1..asked[CallOf(p)]
    BY <1>3 DEF IsRequest, Carries
  <1> QED
    BY <1>1, <1>2, <1>3, <1>4, <1>5

LEMMA StillRequest ==
    ASSUME NEW p, IsRequest(p), \A q \in 1..n : q \in 1..n' /\ asked'[q] = asked[q]
    PROVE  IsRequest(p)'
  BY DEF IsRequest

\* Steps that leave what is written and gathered alone.
LEMMA LineKept ==
    ASSUME TypeInv, Line, UNCHANGED <<toDev, given>>,
           dev'.st = dev.st, dev'.got = dev.got, dev'.cid = dev.cid,
           dev'.cmd = dev.cmd, dev'.need = dev.need,
           \A q \in 1..n : q \in 1..n' /\ asked'[q] = asked[q],
           \A q \in Calls : q <= n => q <= n'
    PROVE  Line'
  <1>1. RequestsInLine'
    <2>1. \A k \in DOMAIN toDev : IsRequest(toDev[k])'
      <3> TAKE k \in DOMAIN toDev
      <3>1. PICK p : p = toDev[k]
        OBVIOUS
      <3>2. IsRequest(p)
        BY <3>1 DEF Line, RequestsInLine
      <3>3. IsRequest(p)'
        BY <3>2, StillRequest
      <3> QED
        BY <3>1, <3>3 DEF IsRequest
    <2> QED
      BY <2>1 DEF Line, RequestsInLine, Gathers, Asked, IsRequest
  <1>2. GatheredInOrder'
    BY DEF Line, GatheredInOrder, Asked
  <1>3. Unanswered'
    BY DEF Line, Unanswered, Asked
  <1> QED
    BY <1>1, <1>2, <1>3 DEF Line

\* Another packet is written, by sendRequest's loop or by a Write that failed.
LEMMA LineWritten ==
    ASSUME TypeInv, ChannelIsOurs, Requests, pc = "send",
           toDev' = Append(toDev, NextPacket), UNCHANGED <<n, asked, authenticator>>
    PROVE  Line'
  <1>1. PICK p, i : p = NextPacket /\ i = asked[n] - Len(tx.left) + 1
    OBVIOUS
  <1>2. /\ IsRequest(p) /\ CallOf(p) = n /\ PosOf(p) = i /\ (tx.first <=> i = 1)
        /\ p \in Reports
    BY <1>1, NextPacketIs DEF Requests
  <1>3. PICK len \in Nat : len = Len(toDev)
    BY DEF TypeInv, TypeOK, DeviceTypeOK
  <1>4. /\ toDev \in Seq(Reports) /\ toDev' \in Seq(Reports) /\ Len(toDev') = len + 1
        /\ DOMAIN toDev = 1..len /\ DOMAIN toDev' = 1..(len + 1)
        /\ \A k \in 1..len : toDev'[k] = toDev[k]
        /\ toDev'[len + 1] = p
        /\ toDev = << >> <=> len = 0
    BY <1>1, <1>2, <1>3 DEF TypeInv, TypeOK, DeviceTypeOK
  <1>5. /\ tx.first => /\ \A k \in DOMAIN toDev : CallOf(toDev[k]) < n
                       /\ dev.st # "idle" => Asked < n
                       /\ ~given[n].sent
        /\ ~tx.first => IF toDev = << >> THEN Gathers(n, i)
                        ELSE CallOf(toDev[len]) = n /\ After(toDev[len]) = i
    BY <1>1, <1>3 DEF Requests, SendsTheRest
  <1>6. n \in Nat /\ \A k \in 1..len : CallOf(toDev[k]) \in Nat /\ CallOf(toDev[k]) <= n
    <2>1. n \in Nat
      BY RunningCall DEF Running
    <2> QED
      BY <1>4, <2>1, Waiting DEF Requests
  <1>7. RequestsInLine'
    <2>1. ASSUME NEW k \in 1..(len + 1)
          PROVE  IsRequest(toDev'[k])
      BY <1>2, <1>4, <2>1 DEF Requests, RequestsInLine
    <2>2. ASSUME NEW k \in 1..(len + 1), NEW l \in 1..(len + 1), k < l
          PROVE  /\ CallOf(toDev'[k]) <= CallOf(toDev'[l])
                 /\ PosOf(toDev'[l]) = 1 => CallOf(toDev'[k]) < CallOf(toDev'[l])
      <3>1. CASE l <= len
        BY <1>3, <1>4, <2>2, <3>1 DEF Requests, RequestsInLine
      <3>2. CASE l = len + 1
        <4>1. k \in 1..len /\ toDev'[k] = toDev[k] /\ toDev'[l] = p
          BY <1>3, <1>4, <2>2, <3>2
        <4> QED
          BY <1>2, <1>4, <1>5, <1>6, <4>1
      <3> QED
        BY <1>3, <3>1, <3>2
    <2>3. ASSUME NEW k \in 1..(len + 1), PosOf(toDev'[k]) # 1
          PROVE  IF k = 1 THEN Gathers(CallOf(toDev'[k]), PosOf(toDev'[k]))
                 ELSE Follows(toDev'[k], toDev'[k - 1])
      <3>1. CASE k <= len
        <4>1. k \in 1..len /\ (k # 1 => k - 1 \in 1..len)
          BY <1>3, <3>1
        <4> QED
          BY <1>4, <2>3, <4>1 DEF Requests, RequestsInLine
      <3>2. CASE k = len + 1
        <4>1. ~tx.first /\ toDev'[k] = p
          BY <1>2, <1>4, <2>3, <3>2
        <4>2. CASE len = 0
          BY <1>2, <1>4, <1>5, <3>2, <4>1, <4>2
        <4>3. CASE len # 0
          <5>1. k # 1 /\ k - 1 = len /\ len \in 1..len
            BY <1>3, <3>2, <4>3
          <5> QED
            BY <1>2, <1>4, <1>5, <4>1, <4>3, <5>1 DEF Follows
        <4> QED
          BY <4>2, <4>3
      <3> QED
        BY <1>3, <3>1, <3>2
    <2>4. \A k \in DOMAIN toDev' : IsRequest(toDev'[k])
      BY <1>4, <2>1
    <2>5. UNCHANGED <<n, asked, dev>>
      BY DEF authenticator
    <2> QED
      BY <1>4, <2>2, <2>3, <2>4, <2>5 DEF RequestsInLine, IsRequest, Gathers, Asked
  <1>8. GatheredInOrder'
    <2> SUFFICES ASSUME dev.st # "idle"
                 PROVE  \A k \in DOMAIN toDev' :
                           /\ Asked <= CallOf(toDev'[k])
                           /\ PosOf(toDev'[k]) = 1 => Asked < CallOf(toDev'[k])
      BY DEF Requests, GatheredInOrder, Asked, authenticator
    <2> TAKE k \in DOMAIN toDev'
    <2>1. CASE k \in 1..len
      BY <1>4, <2>1 DEF Requests, GatheredInOrder
    <2>2. CASE k = len + 1
      <3>1. Asked \in 1..n
        BY DEF Requests, GatheredInOrder
      <3> QED
        BY <1>2, <1>4, <1>5, <1>6, <2>2, <3>1
    <2> QED
      BY <1>3, <1>4, <2>1, <2>2
  <1>9. Unanswered'
    <2> SUFFICES ASSUME NEW q \in Calls, given[q].sent
                 PROVE  \A k \in DOMAIN toDev' : q < CallOf(toDev'[k])
      BY DEF Requests, Unanswered, Asked, authenticator
    <2>1. q <= n /\ q \in Nat
      BY DEF Requests, Unanswered, Calls
    <2>2. q < n
      <3>1. CASE tx.first
        <4>1. q # n
          BY <1>5, <3>1
        <4> QED
          BY <1>6, <2>1, <4>1
      <3>2. CASE ~tx.first
        <4>1. CASE toDev = << >>
          BY <1>5, <3>2, <4>1 DEF Requests, Unanswered, Gathers
        <4>2. CASE toDev # << >>
          <5>1. len \in DOMAIN toDev
            BY <1>3, <1>4, <4>2
          <5> QED
            BY <1>5, <3>2, <4>2, <5>1 DEF Requests, Unanswered
        <4> QED
          BY <4>1, <4>2
      <3> QED
        BY <3>1, <3>2
    <2> TAKE k \in DOMAIN toDev'
    <2>3. CASE k \in 1..len
      BY <1>4, <2>3 DEF Requests, Unanswered
    <2>4. CASE k = len + 1
      BY <1>2, <1>4, <2>2, <2>4
    <2> QED
      BY <1>3, <1>4, <2>3, <2>4
  <1> QED
    BY <1>7, <1>8, <1>9 DEF Line


\* The authenticator takes the oldest packet.
LEMMA LineTaken ==
    ASSUME TypeInv, Requests, DevTake
    PROVE  Line' /\ SendsTheRest'
  <1>1. /\ toDev # << >> /\ toDev' = Tail(toDev) /\ toDev \in Seq(Reports)
        /\ UNCHANGED <<n, asked, given, pc, tx>>
    BY DEF DevTake, TypeInv, TypeOK, DeviceTypeOK, client
  <1>2. PICK len \in Nat : len = Len(toDev) /\ len >= 1
    BY <1>1
  <1>3. PICK p : p = Head(toDev) /\ p = toDev[1] /\ 1 \in DOMAIN toDev
    BY <1>1, <1>2
  <1>4. /\ toDev' \in Seq(Reports) /\ Len(toDev') = len - 1
        /\ DOMAIN toDev = 1..len /\ DOMAIN toDev' = 1..(len - 1)
        /\ \A k \in 1..(len - 1) : k + 1 \in 1..len /\ k + 1 > 1 /\ toDev'[k] = toDev[k + 1]
    BY <1>1, <1>2
  <1>5. PICK q \in Nat, i \in Nat \ {0}, l \in Nat :
           q = CallOf(p) /\ i = PosOf(p) /\ l = asked[q]
    <2>1. CallOf(p) \in Nat /\ PosOf(p) \in Nat \ {0} /\ CallOf(p) \in 1..n
      BY <1>3, Waiting DEF Requests
    <2>2. n \in 0..MaxCalls /\ asked \in [Calls -> 0..MaxLen]
      BY DEF TypeInv, TypeOK, ClientTypeOK, DeviceTypeOK
    <2>3. asked[CallOf(p)] \in Nat
      BY <2>1, <2>2, CtapHidAssumption DEF Calls
    <2> QED
      BY <2>1, <2>3
  <1>6. /\ p \in Reports /\ p.body \in Seq(Byte) /\ p.body # << >> /\ n \in Nat
        /\ q \in 1..n /\ p.cid \in 0..(q - 1) /\ i \in 1..l /\ Len(p.body) = Room(i)
        /\ \A j \in 1..Room(i) : i + j - 1 <= l => p.body[j] = <<q, i + j - 1>>
        /\ i = 1 => p.tag = CommandOn(p.cid) /\ p.len = l
        /\ i # 1 => p.tag \in 0..(SeqSpace - 1)
    <2>1. IsRequest(p) /\ p \in Reports /\ p.body # << >> /\ p.body \in Seq(Byte)
      BY <1>3, Waiting DEF Requests, Reports
    <2>2. Carries(p, l, TRUE) /\ q \in 1..n /\ p.cid \in 0..(q - 1)
      BY <1>5, <2>1 DEF IsRequest
    <2>3. n \in Nat
      BY DEF TypeInv, TypeOK, ClientTypeOK
    <2> QED
      BY <1>5, <2>1, <2>2, <2>3 DEF Carries, ByteOf
  <1>7. Room(i) \in Nat \ {0}
    BY CtapHidAssumption DEF Room
  <1>8. p.body[1] = <<q, i>>
    BY <1>6, <1>7
  <1>9. PICK g \in Seq(Byte) :
           /\ g = dev'.got /\ Len(g) = i - 1 + Room(i)
           /\ \A j \in 1..Len(g) : j <= l => g[j] = <<q, j>>
           /\ g[1] = <<q, 1>>
           /\ dev'.cid \in 0..(q - 1) /\ dev'.cmd = CommandOn(dev'.cid) /\ dev'.need = l
           /\ dev'.st = IF Len(g) >= l THEN "work" ELSE "gather"
    <2>1. CASE /\ p.tag \in Commands
               /\ dev' = Gathered([Idle EXCEPT !.cid = p.cid, !.cmd = p.tag,
                                               !.need = p.len], p.body)
      <3>1. i = 1
        BY <1>6, <2>1, NumbersAreNotCommands
      <3>2. /\ dev'.got = << >> \o p.body /\ dev'.cid = p.cid /\ dev'.cmd = p.tag
            /\ dev'.need = p.len
            /\ dev'.st = IF Len(<< >> \o p.body) >= p.len THEN "work" ELSE "gather"
        BY <2>1 DEF Gathered, Idle
      <3>3. << >> \o p.body = p.body
        BY <1>6
      <3>4. Len(p.body) = i - 1 + Room(i)
        BY <1>6, <1>7, <3>1
      <3>5. \A j \in 1..Len(p.body) : j <= l => p.body[j] = <<q, j>>
        BY <1>6, <3>1
      <3> QED
        BY <1>6, <1>8, <3>1, <3>2, <3>3, <3>4, <3>5
    <2>2. CASE /\ dev.st = "gather" /\ p.cid = dev.cid /\ p.tag = dev.seq
               /\ dev' = Gathered([dev EXCEPT !.seq = (@ + 1) % SeqSpace], p.body)
      <3>1. dev.seq \in 0..(SeqSpace - 1) /\ dev.got \in Seq(Byte)
        BY DEF TypeInv, TypeOK, DeviceTypeOK
      <3>2. i # 1
        <4>1. p.tag \notin Commands
          BY <2>2, <3>1, NumbersAreNotCommands
        <4> QED
          BY <1>6, <4>1 DEF CommandOn, Commands
      <3>3. Gathers(q, i)
        BY <1>3, <1>5, <3>2 DEF Requests, RequestsInLine
      <3>4. PICK b \in Seq(Byte) : b = dev.got /\ Len(b) = i - 1 /\ i - 1 >= 1
        BY <3>1, <3>2, <3>3 DEF Gathers
      <3>5. /\ Asked = q /\ dev.cid \in 0..(q - 1) /\ dev.cmd = CommandOn(dev.cid)
            /\ dev.need = l
            /\ \A j \in 1..Len(b) : j <= l => b[j] = <<q, j>>
        BY <1>5, <2>2, <3>3, <3>4 DEF Requests, GatheredInOrder, Gathers
      <3>6. PICK g \in Seq(Byte) :
               /\ g = b \o p.body /\ Len(g) = i - 1 + Room(i)
               /\ \A j \in 1..(i - 1) : g[j] = b[j]
               /\ \A j \in 1..Room(i) : g[i - 1 + j] = p.body[j]
        <4>1. PICK f \in Seq(Byte) : f = p.body
          BY <1>6
        <4>2. PICK g \in Seq(Byte) :
                 /\ g = b \o f /\ Len(g) = Len(b) + Len(f)
                 /\ \A j \in 1..Len(b) : g[j] = b[j]
                 /\ \A j \in 1..Len(f) : g[Len(b) + j] = f[j]
          <5>1. /\ b \o f \in Seq(Byte) /\ Len(b \o f) = Len(b) + Len(f)
                /\ \A j \in 1..Len(b) : (b \o f)[j] = b[j]
                /\ \A j \in 1..Len(f) : (b \o f)[Len(b) + j] = f[j]
            BY Joined
          <5> QED
            BY <5>1, Zenon
        <4>3. Len(f) = Room(i) /\ Len(b) = i - 1
          BY <1>6, <3>4, <4>1
        <4>4. /\ g = b \o p.body /\ Len(g) = i - 1 + Room(i)
              /\ \A j \in 1..(i - 1) : g[j] = b[j]
              /\ \A j \in 1..Room(i) : g[i - 1 + j] = p.body[j]
          BY <4>1, <4>2, <4>3
        <4> QED
          BY <4>4
      <3>7. /\ dev'.got = g /\ dev'.cid = dev.cid /\ dev'.cmd = dev.cmd
            /\ dev'.need = dev.need
            /\ dev'.st = IF Len(g) >= dev.need THEN "work" ELSE "gather"
        <4>1. dev \in [st : {"idle", "gather", "work"}, cid : -1..MaxCalls, cmd : Int,
                       need : 0..MaxLen, got : Seq(Byte), seq : 0..(SeqSpace - 1),
                       kas : 0..MaxKeepAlives]
          BY DEF TypeInv, TypeOK, DeviceTypeOK
        <4> QED
          BY <2>2, <3>4, <3>6, <4>1 DEF Gathered
      <3>8. \A j \in 1..Len(g) : j <= l => g[j] = <<q, j>>
        <4> TAKE j \in 1..Len(g)
        <4>1. CASE j <= i - 1
          <5>1. j \in 1..(i - 1) /\ j \in 1..Len(b)
            BY <3>4, <4>1
          <5> QED
            BY <3>5, <3>6, <5>1
        <4>2. CASE j > i - 1
          <5>1. PICK m \in 1..Room(i) : j = i - 1 + m
            <6>1. j - (i - 1) \in 1..Room(i) /\ j = i - 1 + (j - (i - 1))
              BY <1>7, <3>6, <4>2
            <6> QED
              BY <6>1
          <5>2. j = i + m - 1
            BY <5>1, <1>7
          <5>3. g[j] = p.body[m]
            BY <3>6, <5>1
          <5>4. j <= l => p.body[m] = <<q, j>>
            BY <1>6, <5>1, <5>2
          <5> QED
            BY <5>3, <5>4
        <4> QED
          BY <3>4, <4>1, <4>2
      <3>9. g[1] = <<q, 1>>
        <4>1. 1 \in 1..(i - 1) /\ 1 \in 1..Len(b) /\ 1 <= l
          BY <1>6, <3>4
        <4> QED
          BY <3>5, <3>6, <4>1
      <3> QED
        BY <3>5, <3>6, <3>7, <3>8, <3>9
    <2> QED
      BY <1>3, <2>1, <2>2 DEF DevTake
  <1>10. Asked' = q /\ dev'.st # "idle"
    BY <1>9 DEF Asked
  <1>11. \A k \in 1..(len - 1) :
            /\ q <= CallOf(toDev'[k])
            /\ PosOf(toDev'[k]) = 1 => q < CallOf(toDev'[k])
    BY <1>2, <1>3, <1>4, <1>5 DEF Requests, RequestsInLine
  <1>12. RequestsInLine'
    <2>1. ASSUME NEW k \in 1..(len - 1), PosOf(toDev'[k]) # 1
          PROVE  IF k = 1 THEN Gathers(CallOf(toDev[k]), PosOf(toDev[k]))'
                 ELSE Follows(toDev'[k], toDev'[k - 1])
      <3>1. k + 1 \in 1..len /\ k + 1 # 1 /\ toDev'[k] = toDev[k + 1]
        BY <1>4
      <3>2. Follows(toDev[k + 1], toDev[k])
        <4>1. (k + 1) - 1 = k
          OBVIOUS
        <4> QED
          BY <1>4, <2>1, <3>1, <4>1 DEF Requests, RequestsInLine
      <3>3. CASE k = 1
        <4>1. PICK r : r = toDev[k + 1]
          OBVIOUS
        <4>2. CallOf(r) = q /\ PosOf(r) = i + Room(i)
          BY <1>3, <1>5, <3>2, <3>3, <4>1 DEF Follows, After
        <4>3. PosOf(r) <= l
          <5>1. PosOf(r) \in 1..asked[CallOf(r)]
            BY <1>4, <3>1, <4>1, Waiting DEF Requests
          <5> QED
            BY <1>5, <4>2, <5>1
        <4>4. Len(g) = PosOf(r) - 1 /\ Len(g) < l
          BY <1>7, <1>9, <4>2, <4>3
        <4> QED
          BY <1>9, <1>10, <3>1, <3>3, <4>1, <4>2, <4>4 DEF Gathers
      <3>4. CASE k # 1
        <4>1. k - 1 \in 1..(len - 1) /\ (k - 1) + 1 = k
          BY <3>4
        <4> QED
          BY <1>4, <3>1, <3>2, <3>4, <4>1
      <3> QED
        BY <3>3, <3>4
    <2>2. \A k \in 1..(len - 1) : IsRequest(toDev'[k])
      BY <1>4 DEF Requests, RequestsInLine
    <2>3. ASSUME NEW k \in 1..(len - 1), NEW m \in 1..(len - 1), k < m
          PROVE  /\ CallOf(toDev'[k]) <= CallOf(toDev'[m])
                 /\ PosOf(toDev'[m]) = 1 => CallOf(toDev'[k]) < CallOf(toDev'[m])
      <3>1. k + 1 \in 1..len /\ m + 1 \in 1..len /\ k + 1 < m + 1
        BY <1>4, <2>3
      <3> QED
        BY <1>4, <3>1 DEF Requests, RequestsInLine
    <2> QED
      BY <1>1, <1>4, <2>1, <2>2, <2>3 DEF RequestsInLine, IsRequest, Gathers, Asked
  <1>13. GatheredInOrder'
    <2>1. Asked' \in 1..n'
      BY <1>1, <1>6, <1>10
    <2>2. dev'.need = asked'[q]
      BY <1>1, <1>5, <1>9
    <2>3. dev'.st = "gather" <=> Len(dev'.got) < dev'.need
      BY <1>9, <1>5
    <2> QED
      BY <1>4, <1>9, <1>10, <1>11, <2>1, <2>2, <2>3 DEF GatheredInOrder, Asked
  <1>14. Unanswered'
    <2>1. ASSUME NEW r \in Calls, given[r].sent
          PROVE  /\ r <= n /\ r < q
                 /\ \A k \in 1..(len - 1) : r < CallOf(toDev'[k])
      BY <1>3, <1>4, <1>5, <2>1 DEF Requests, Unanswered
    <2> QED
      BY <1>1, <1>4, <1>10, <2>1 DEF Unanswered, Asked
  <1>15. SendsTheRest'
    <2> SUFFICES ASSUME pc = "send" PROVE SendsTheRest'
      BY <1>1 DEF SendsTheRest
    <2>1. PICK s : s = asked[n] - Len(tx.left) + 1
      OBVIOUS
    <2>2. /\ tx.len = asked[n] /\ s \in 1..asked[n]
          /\ \A j \in 1..Len(tx.left) : tx.left[j] = <<n, s + j - 1>>
          /\ tx.first <=> s = 1
      BY <2>1 DEF Requests, SendsTheRest
    <2>3. CASE tx.first
      <3>1. \A k \in 1..len : CallOf(toDev[k]) < n
        BY <1>4, <2>3 DEF Requests, SendsTheRest
      <3>2. ~given[n].sent
        BY <2>3 DEF Requests, SendsTheRest
      <3>3. q < n /\ \A k \in 1..(len - 1) : CallOf(toDev'[k]) < n
        BY <1>2, <1>3, <1>4, <1>5, <3>1
      <3> QED
        BY <1>1, <1>4, <1>10, <2>1, <2>2, <2>3, <3>2, <3>3 DEF SendsTheRest, Asked
    <2>4. CASE ~tx.first
      <3>1. CallOf(toDev[len]) = n /\ After(toDev[len]) = s
        BY <1>1, <1>2, <2>1, <2>4 DEF Requests, SendsTheRest
      <3>2. CASE len = 1
        <4>1. toDev' = << >>
          BY <1>4, <3>2
        <4>2. q = n /\ s = i + Room(i) /\ l = asked[n]
          BY <1>3, <1>5, <3>1, <3>2 DEF After
        <4>3. Len(g) = s - 1 /\ Len(g) < l
          <5>1. s <= l
            BY <1>5, <2>2, <4>2
          <5> QED
            BY <1>7, <1>9, <4>2, <5>1
        <4>4. Gathers(n, s)'
          BY <1>1, <1>9, <1>10, <4>2, <4>3 DEF Gathers
        <4> QED
          BY <1>1, <2>1, <2>2, <2>4, <4>1, <4>4 DEF SendsTheRest, Gathers, Asked
      <3>3. CASE len # 1
        <4>1. len - 1 \in 1..(len - 1) /\ (len - 1) + 1 = len
          BY <1>2, <3>3
        <4>2. toDev'[len - 1] = toDev[len] /\ Len(toDev') = len - 1 /\ toDev' # << >>
          BY <1>4, <4>1
        <4>3. CallOf(toDev'[Len(toDev')]) = n /\ After(toDev'[Len(toDev')]) = s
          BY <3>1, <4>2
        <4> QED
          BY <1>1, <2>1, <2>2, <2>4, <4>2, <4>3 DEF SendsTheRest, Gathers, Asked
      <3> QED
        BY <3>2, <3>3
    <2> QED
      BY <2>3, <2>4
  <1> QED
    BY <1>12, <1>13, <1>14, <1>15 DEF Line


\* A request the authenticator works on is over: what is written after it
\* belongs to later calls.
LEMMA WorkIsBehind ==
    ASSUME TypeInv, Requests, dev.st = "work"
    PROVE  /\ Asked \in 1..n /\ Asked \in Nat /\ Asked \in Calls
           /\ \A k \in DOMAIN toDev : Asked < CallOf(toDev[k])
           /\ pc = "send" => Asked < n /\ (~tx.first => toDev # << >>)
           /\ toDev # << >> => PosOf(toDev[1]) = 1
  <1>1. Asked \in 1..n /\ n \in 0..MaxCalls /\ n \in Nat
    BY DEF Requests, GatheredInOrder, TypeInv, TypeOK, ClientTypeOK
  <1>2. Asked \in Nat /\ Asked \in Calls
    BY <1>1, CtapHidAssumption DEF Calls
  <1>3. PICK len \in Nat : len = Len(toDev) /\ DOMAIN toDev = 1..len /\ (toDev = << >> <=> len = 0)
    BY DEF TypeInv, TypeOK, DeviceTypeOK
  <1>4. toDev # << >> => PosOf(toDev[1]) = 1
    BY <1>3 DEF Requests, RequestsInLine, Gathers
  <1>5. ASSUME NEW k \in 1..len
        PROVE  Asked < CallOf(toDev[k])
    <2>1. 1 \in 1..len /\ toDev # << >>
      BY <1>3
    <2>2. Asked < CallOf(toDev[1])
      BY <1>3, <1>4, <2>1 DEF Requests, GatheredInOrder
    <2>3. CASE k = 1
      BY <2>2, <2>3
    <2>4. CASE k # 1
      <3>1. CallOf(toDev[1]) <= CallOf(toDev[k])
        BY <1>3, <2>1, <2>4 DEF Requests, RequestsInLine
      <3>2. CallOf(toDev[1]) \in Nat /\ CallOf(toDev[k]) \in Nat
        BY <1>3, <2>1, Waiting DEF Requests
      <3> QED
        BY <1>2, <2>2, <3>1, <3>2
    <2> QED
      BY <2>3, <2>4
  <1>6. ASSUME pc = "send"
        PROVE  Asked < n /\ (~tx.first => toDev # << >>)
    <2>1. CASE tx.first
      BY <1>6, <2>1 DEF Requests, SendsTheRest
    <2>2. CASE ~tx.first
      <3>1. toDev # << >>
        BY <1>6, <2>2 DEF Requests, SendsTheRest, Gathers
      <3>2. len \in 1..len
        BY <1>3, <3>1
      <3>3. CallOf(toDev[len]) = n
        BY <1>3, <1>6, <2>2, <3>1 DEF Requests, SendsTheRest
      <3> QED
        BY <1>5, <3>1, <3>2, <3>3
    <2> QED
      BY <2>1, <2>2
  <1> QED
    BY <1>1, <1>2, <1>3, <1>4, <1>5, <1>6

\* The authenticator is done with a request, with an answer or an error.
LEMMA LineDone ==
    ASSUME TypeInv, Requests, dev.st = "work", dev' = Idle,
           UNCHANGED <<client, toDev>>,
           \/ UNCHANGED given
           \/ \E a : given' = [given EXCEPT ![Asked] = a]
    PROVE  Line' /\ SendsTheRest'
  <1>1. dev'.st = "idle"
    BY DEF Idle
  <1>2. UNCHANGED <<n, asked, toDev, pc, tx>>
    BY DEF client
  <1>3. \A q \in Calls : q # Asked => given'[q] = given[q]
    BY DEF TypeInv, TypeOK, DeviceTypeOK
  <1>4. PICK len \in Nat : len = Len(toDev) /\ DOMAIN toDev = 1..len /\ (toDev = << >> <=> len = 0)
    BY DEF TypeInv, TypeOK, DeviceTypeOK
  <1>5. RequestsInLine'
    <2>1. ASSUME NEW k \in 1..len, PosOf(toDev[k]) # 1
          PROVE  k # 1 /\ Follows(toDev[k], toDev[k - 1])
      <3>1. k # 1
        BY <1>4, <2>1, WorkIsBehind
      <3> QED
        BY <1>4, <2>1, <3>1 DEF Requests, RequestsInLine
    <2>2. RequestsInLine
      BY DEF Requests
    <2> QED
      BY <1>2, <1>4, <2>1, <2>2 DEF RequestsInLine, IsRequest
  <1>6. GatheredInOrder'
    BY <1>1 DEF GatheredInOrder
  <1>7. Unanswered'
    <2> SUFFICES ASSUME NEW q \in Calls, given'[q].sent
                 PROVE  q <= n /\ \A k \in DOMAIN toDev : q < CallOf(toDev[k])
      BY <1>1, <1>2 DEF Unanswered
    <2>1. CASE q = Asked
      <3>1. n \in Nat
        BY DEF TypeInv, TypeOK, ClientTypeOK
      <3> QED
        BY <2>1, <3>1, WorkIsBehind
    <2>2. CASE q # Asked
      BY <1>3, <2>2 DEF Requests, Unanswered
    <2> QED
      BY <2>1, <2>2
  <1>8. SendsTheRest'
    <2> SUFFICES ASSUME pc = "send" PROVE SendsTheRest'
      BY <1>2 DEF SendsTheRest
    <2>1. Asked < n /\ (~tx.first => toDev # << >>) /\ n \in Calls /\ Asked \in Nat /\ n \in Nat
      BY WorkIsBehind, RunningCall DEF Running, Calls
    <2>2. given'[n] = given[n]
      BY <1>3, <2>1
    <2> QED
      BY <1>1, <1>2, <2>1, <2>2 DEF Requests, SendsTheRest
  <1> QED
    BY <1>5, <1>6, <1>7, <1>8 DEF Line

LEMMA RequestsStep ==
    TypeInv /\ ChannelIsOurs /\ Requests /\ [Next]_vars => Requests'
  <1> SUFFICES ASSUME TypeInv, ChannelIsOurs, Requests, [Next]_vars
               PROVE  Requests'
    OBVIOUS
  <1>1. Line
    BY DEF Requests, Line
  <1>2. Line' /\ SendsTheRest' => Requests'
    BY DEF Requests, Line
  <1>3. ASSUME UNCHANGED <<toDev, given, dev, asked>>, pc' # "send",
               n' = n \/ (n \in Nat /\ n' = n + 1)
        PROVE  Requests'
    <2>1. n \in Nat
      BY DEF TypeInv, TypeOK, ClientTypeOK
    <2>2. \A q \in 1..n : q \in 1..n' /\ asked'[q] = asked[q]
      BY <1>3, <2>1
    <2>3. \A q \in Calls : q <= n => q <= n'
      BY <1>3, <2>1 DEF Calls
    <2>4. Line'
      BY <1>1, <1>3, <2>2, <2>3, LineKept
    <2> QED
      BY <1>2, <1>3, <2>4 DEF SendsTheRest
  <1>4. ASSUME UNCHANGED <<toDev, given, asked, n, pc, tx>>,
               dev'.st = dev.st, dev'.got = dev.got, dev'.cid = dev.cid,
               dev'.cmd = dev.cmd, dev'.need = dev.need
        PROVE  Requests'
    <2>1. Line'
      BY <1>1, <1>4, LineKept
    <2>2. SendsTheRest'
      BY <1>4 DEF Requests, SendsTheRest, Gathers, Asked
    <2> QED
      BY <1>2, <2>1, <2>2
  <1>5. ASSUME NEW res, NEW body, NEW channel, Return(res, body, channel)
        PROVE  pc' # "send"
    BY <1>5 DEF Return, AfterFailure
  <1>6. Fail => pc' # "send"
    BY <1>5 DEF Fail
  <1>7. CASE StartCall
    <2>1. PICK len \in NextLens :
             /\ asked' = [asked EXCEPT ![n + 1] = len]
             /\ tx' = [NoTx EXCEPT !.left = Request(n + 1, len), !.len = len]
             /\ len <= MaxLen
      BY <1>7 DEF StartCall
    <2>2. /\ n \in Nat /\ n < MaxCalls /\ MaxCalls \in Nat /\ n' = n + 1
          /\ asked \in [Calls -> 0..MaxLen] /\ pc = "idle"
          /\ UNCHANGED <<toDev, given, dev>>
      BY <1>7, CtapHidAssumption
         DEF StartCall, TypeInv, TypeOK, ClientTypeOK, DeviceTypeOK, authenticator
    <2>3. len \in Nat \ {0} /\ len \in 1..MaxLen
      BY <2>1, CtapHidAssumption DEF NextLens
    <2>4. PICK m \in 1..MaxCalls : m = n + 1 /\ m \in Calls
      BY <2>2 DEF Calls
    <2>5. Line'
      <3>1. \A q \in 1..n : q \in 1..n' /\ asked'[q] = asked[q]
        BY <2>1, <2>2 DEF Calls
      <3>2. \A q \in Calls : q <= n => q <= n'
        BY <2>2 DEF Calls
      <3> QED
        BY <1>1, <2>2, <3>1, <3>2, LineKept
    <2>6. asked'[m] = len
      BY <2>1, <2>2, <2>4
    <2>7. PICK left \in Seq(Byte) :
             /\ left = tx'.left /\ Len(left) = len
             /\ \A j \in 1..len : left[j] = <<m, j>>
      <3>1. Request(m, len) \in Seq(Byte) /\ Len(Request(m, len)) = len
        BY <2>3, <2>4, MessagesTyped, CtapHidAssumption
      <3>2. \A j \in 1..len : Request(m, len)[j] = <<m, j>>
        BY DEF Request
      <3> QED
        BY <2>1, <2>4, <3>1, <3>2 DEF NoTx
    <2>8. tx'.len = len /\ tx'.first = TRUE
      BY <2>1 DEF NoTx
    <2>9. \A k \in DOMAIN toDev : CallOf(toDev[k]) < m
      <3> TAKE k \in DOMAIN toDev
      <3>1. CallOf(toDev[k]) \in 1..n
        BY Waiting DEF Requests
      <3> QED
        BY <2>2, <2>4, <3>1
    <2>10. dev.st # "idle" => Asked < m
      BY <2>2, <2>4 DEF Requests, GatheredInOrder
    <2>11. ~given[m].sent
      BY <2>2, <2>4 DEF Requests, Unanswered
    <2>12. SendsTheRest'
      <3>1. /\ n' = m /\ toDev' = toDev /\ given' = given /\ dev' = dev
        BY <2>2, <2>4
      <3>2. asked'[n'] - Len(tx'.left) + 1 = 1 /\ 1 \in 1..asked'[n'] /\ tx'.len = asked'[n']
        BY <2>3, <2>6, <2>7, <2>8, <3>1
      <3>3. \A j \in 1..Len(tx'.left) : tx'.left[j] = <<n', 1 + j - 1>>
        BY <2>7, <3>1
      <3> QED
        BY <2>8, <2>9, <2>10, <2>11, <3>1, <3>2, <3>3 DEF SendsTheRest, Asked
    <2> QED
      BY <1>2, <2>5, <2>12
  <1>8. CASE RequestTooLong
    <2>1. n \in Nat /\ n' = n + 1 /\ UNCHANGED <<toDev, given, dev, asked>>
      BY <1>8 DEF RequestTooLong, authenticator, TypeInv, TypeOK, ClientTypeOK
    <2>2. pc' # "send"
      BY <1>5, <1>8 DEF RequestTooLong
    <2> QED
      BY <1>3, <2>1, <2>2
  <1>9. CASE SendPacket
    <2>1. /\ pc = "send" /\ toDev' = Append(toDev, NextPacket)
          /\ UNCHANGED <<n, asked, dev, given, authenticator>>
          /\ tx' = [tx EXCEPT !.left = LeftAfterNext, !.first = FALSE,
                        !.contSeq = IF tx.first THEN @ ELSE NextByte(@)]
          /\ pc' = IF LeftAfterNext # << >> THEN "send" ELSE "recv"
      BY <1>9 DEF SendPacket, authenticator
    <2>2. Line'
      BY <2>1, LineWritten
    <2>3. SendsTheRest'
      <3> SUFFICES ASSUME LeftAfterNext # << >> PROVE SendsTheRest'
        BY <2>1 DEF SendsTheRest
      <3>1. PICK p, i : p = NextPacket /\ i = asked[n] - Len(tx.left) + 1
        OBVIOUS
      <3>2. /\ CallOf(p) = n /\ PosOf(p) = i /\ p \in Reports
            /\ i \in 1..asked[n]
            /\ i + RoomInNext = After(p)
            /\ BytesInNext \in 1..Len(tx.left) /\ BytesInNext <= RoomInNext
            /\ BytesInNext < RoomInNext => BytesInNext = Len(tx.left)
        BY <2>1, <3>1, NextPacketIs DEF Requests
      <3>3. /\ tx.left \in Seq(Byte)
            /\ tx \in [left : Seq(Byte), len : 0..MaxLen, first : BOOLEAN,
                       contSeq : 0..(2 * SeqSpace - 1)]
            /\ n \in Calls /\ asked \in [Calls -> 0..MaxLen] /\ toDev \in Seq(Reports)
        BY <2>1, RunningCall DEF Running, TypeInv, TypeOK, ClientTypeOK, DeviceTypeOK
      <3>4. PICK len \in Nat, l \in Nat \ {0}, r \in Nat, b \in Nat \ {0} :
               len = asked[n] /\ l = Len(tx.left) /\ r = RoomInNext /\ b = BytesInNext
        <4>1. asked[n] \in Nat
          BY <3>3, CtapHidAssumption
        <4>2. RoomInNext \in Nat
          BY CtapHidAssumption DEF RoomInNext
        <4>3. Len(tx.left) \in Nat
          BY <3>3
        <4>4. BytesInNext \in Nat \ {0} /\ Len(tx.left) \in Nat \ {0}
          BY <3>2, <4>3
        <4> QED
          BY <4>1, <4>2, <4>4
      <3>5. PICK left \in Seq(Byte) :
               /\ left = LeftAfterNext /\ Len(left) = l - b
               /\ \A j \in 1..(l - b) : left[j] = tx.left[b + j]
        <4>1. b \in 0..Len(tx.left)
          BY <3>2, <3>4
        <4>2. /\ Drop(tx.left, b) \in Seq(Byte) /\ Len(Drop(tx.left, b)) = Len(tx.left) - b
              /\ \A j \in 1..(Len(tx.left) - b) : Drop(tx.left, b)[j] = tx.left[b + j]
          BY <3>3, <4>1, DropProperties
        <4> QED
          BY <3>4, <4>2 DEF LeftAfterNext
      <3>6. b = r /\ l - b >= 1
        <4>1. Len(left) # 0
          BY <3>5
        <4> QED
          BY <3>2, <3>4, <3>5, <4>1
      <3>7. PICK s \in Nat : s = len - (l - b) + 1 /\ s = i + b /\ s \in 1..len /\ s # 1
        <4>1. i = len - l + 1 /\ i \in 1..len /\ i \in Nat
          BY <3>1, <3>2, <3>4
        <4>2. l - b \in Nat /\ l - b >= 1
          BY <3>4, <3>6
        <4>3. i + b \in Nat /\ i + b = len - (l - b) + 1 /\ i + b \in 1..len /\ i + b # 1
          <5>1. PICK first \in Nat : first = i
            BY <4>1
          <5>2. first + b \in Nat /\ first + b = len - (l - b) + 1 /\ first + b <= len
                /\ first + b > 1
            BY <4>1, <4>2, <5>1
          <5> QED
            BY <5>1, <5>2
        <4> QED
          BY <4>3
      <3>8. \A j \in 1..(l - b) : left[j] = <<n, s + j - 1>>
        <4> TAKE j \in 1..(l - b)
        <4>1. b + j \in 1..l /\ i + (b + j) - 1 = s + j - 1
          BY <3>1, <3>4, <3>7
        <4>2. tx.left[b + j] = <<n, i + (b + j) - 1>>
          BY <2>1, <3>1, <3>4, <4>1 DEF Requests, SendsTheRest
        <4> QED
          BY <3>5, <4>1, <4>2
      <3>9. tx'.left = left /\ tx'.first = FALSE /\ tx'.len = tx.len
        BY <2>1, <3>3, <3>5
      <3>10. tx.len = len
        BY <2>1, <3>4 DEF Requests, SendsTheRest
      <3>11. toDev' # << >> /\ toDev'[Len(toDev')] = p
        <4>1. toDev' = Append(toDev, p) /\ toDev \in Seq(Reports) /\ p \in Reports
          BY <2>1, <3>1, <3>2, <3>3
        <4>2. Append(toDev, p) # << >> /\ Len(Append(toDev, p)) = Len(toDev) + 1
              /\ Append(toDev, p)[Len(toDev) + 1] = p
          BY <4>1
        <4> QED
          BY <4>1, <4>2
      <3>12. After(p) = s
        BY <3>2, <3>4, <3>6, <3>7
      <3>13. asked'[n'] - Len(tx'.left) + 1 = s
        BY <2>1, <3>4, <3>5, <3>7, <3>9
      <3> QED
        BY <2>1, <3>2, <3>4, <3>5, <3>7, <3>8, <3>9, <3>10, <3>11, <3>12, <3>13, ZenonT(60)
           DEF SendsTheRest
    <2> QED
      BY <1>2, <2>2, <2>3
  <1>10. CASE WriteFails
    <2>1. /\ pc = "send" /\ Fail /\ UNCHANGED <<n, asked, dev, given, authenticator>>
          /\ UNCHANGED toDev \/ toDev' = Append(toDev, NextPacket)
      BY <1>10 DEF WriteFails, authenticator
    <2>2. CASE UNCHANGED toDev
      BY <1>3, <1>6, <2>1, <2>2
    <2>3. CASE toDev' = Append(toDev, NextPacket)
      <3>1. Line'
        BY <2>1, <2>3, LineWritten
      <3> QED
        BY <1>2, <1>6, <2>1, <3>1 DEF SendsTheRest
    <2> QED
      BY <2>1, <2>2, <2>3
  <1>11. CASE ReadFails
    BY <1>3, <1>6, <1>11 DEF ReadFails, authenticator
  <1>12. CASE Reads /\ pc' # "send"
    BY <1>3, <1>12 DEF Reads, authenticator
  <1>13. ReadRefused \/ ReadError \/ ReadKeepAlive \/ ReadFirst \/ ReadContinuation
            => Reads /\ pc' # "send"
    <2>1. ASSUME NEW answer, ReturnInit(answer) \/ ReturnCBOR(answer)
          PROVE  pc' # "send"
      BY <1>5, <1>6, <2>1 DEF ReturnInit, ReturnCBOR
    <2>2. ASSUME NEW b, NEW e, Received(b, e)
          PROVE  pc' # "send"
      BY <2>1, <2>2 DEF Received
    <2>3. Reads /\ UNCHANGED pc => pc' # "send"
      BY DEF Reads
    <2>4. ReadRefused \/ ReadError => Reads /\ pc' # "send"
      BY <1>5, <1>6 DEF ReadRefused, ReadError
    <2>5. ReadKeepAlive => Reads /\ pc' # "send"
      BY <2>3 DEF ReadKeepAlive
    <2>6. ReadFirst => Reads /\ pc' # "send"
      BY <2>2, <2>3 DEF ReadFirst
    <2>7. ReadContinuation => Reads /\ pc' # "send"
      BY <2>2, <2>3 DEF ReadContinuation
    <2> QED
      BY <2>4, <2>5, <2>6, <2>7
  <1>14. CASE Reopen
    BY <1>3, <1>14 DEF Reopen, authenticator
  <1>15. CASE DevTake
    BY <1>2, <1>15, LineTaken
  <1>16. CASE DevKeepAlive
    <2>1. dev \in [st : {"idle", "gather", "work"}, cid : -1..MaxCalls, cmd : Int,
                   need : 0..MaxLen, got : Seq(Byte), seq : 0..(SeqSpace - 1),
                   kas : 0..MaxKeepAlives]
      BY DEF TypeInv, TypeOK, DeviceTypeOK
    <2> QED
      BY <1>4, <1>16, <2>1 DEF DevKeepAlive, client
  <1>17. CASE DevAnswer
    BY <1>2, <1>17, LineDone DEF DevAnswer
  <1>18. CASE DevError
    BY <1>2, <1>18, LineDone DEF DevError
  <1>19. CASE DevEmit \/ ForeignReport \/ Unplug \/ UNCHANGED vars
    BY <1>4, <1>19 DEF DevEmit, ForeignReport, Unplug, vars, client, authenticator
  <1> QED
    BY <1>7, <1>8, <1>9, <1>10, <1>11, <1>12, <1>13, <1>14, <1>15, <1>16, <1>17,
       <1>18, <1>19 DEF Next


-----------------------------------------------------------------------------
(* Answers on their way to Read *)

\* The positions where an answer is cut into packets are a packet apart.
LEMMA CutNext ==
    ASSUME NEW a \in Nat \ {0}, AtCut(a)
    PROVE  AtCut(a + Room(a)) /\ Room(a) \in Nat \ {0}
  <1>1. InitBody \in Nat \ {0} /\ ContBody \in Nat \ {0}
    BY CtapHidAssumption
  <1>2. Room(a) \in Nat \ {0}
    BY <1>1 DEF Room
  <1>3. CASE a = 1
    <2>1. a + Room(a) = 1 + InitBody + 0 * ContBody /\ 0 \in 0..(a + Room(a))
      BY <1>1, <1>2, <1>3 DEF Room
    <2> QED
      BY <1>2, <2>1 DEF AtCut
  <1>4. CASE a # 1
    <2>1. PICK d \in 0..a : a = 1 + InitBody + d * ContBody
      BY <1>4 DEF AtCut
    <2>2. (d + 1) * ContBody = d * ContBody + ContBody /\ d * ContBody \in Nat
      BY <1>1, <2>1
    <2>3. PICK x \in Nat : x = d * ContBody
      BY <2>2
    <2>4. a + Room(a) = 1 + InitBody + (d + 1) * ContBody
      BY <1>1, <1>4, <2>1, <2>2, <2>3 DEF Room
    <2>5. d + 1 \in 0..(a + Room(a))
      BY <1>2, <2>1
    <2> QED
      BY <1>2, <2>4, <2>5 DEF AtCut
  <1> QED
    BY <1>3, <1>4

LEMMA CutApart ==
    ASSUME NEW a \in Nat \ {0}, NEW b \in Nat \ {0}, AtCut(a), AtCut(b), a < b
    PROVE  a + Room(a) <= b
  <1>1. InitBody \in Nat \ {0} /\ ContBody \in Nat \ {0}
    BY CtapHidAssumption
  <1>2. b # 1
    OBVIOUS
  <1>3. PICK e \in 0..b : b = 1 + InitBody + e * ContBody
    BY <1>2 DEF AtCut
  <1>4. PICK y \in Nat : y = e * ContBody
    BY <1>1, <1>3
  <1>5. CASE a = 1
    BY <1>1, <1>3, <1>4, <1>5 DEF Room
  <1>6. CASE a # 1
    <2>1. PICK d \in 0..a : a = 1 + InitBody + d * ContBody
      BY <1>6 DEF AtCut
    <2>2. PICK x \in Nat : x = d * ContBody
      BY <1>1, <2>1
    <2>3. d \in Nat /\ e \in Nat
      BY <1>3, <2>1
    <2>4. x < y
      BY <1>1, <1>3, <1>4, <2>1, <2>2
    <2>5. ~(e <= d)
      <3>1. e <= d => e * ContBody <= d * ContBody
        BY <1>1, <2>3, TimesAtLeast
      <3> QED
        BY <1>4, <2>2, <2>4, <3>1
    <2>6. (d + 1) * ContBody <= e * ContBody
      <3>1. d + 1 <= e /\ d + 1 \in Nat
        BY <2>3, <2>5
      <3> QED
        BY <1>1, <2>3, <3>1, TimesAtLeast
    <2>7. (d + 1) * ContBody = x + ContBody
      BY <1>1, <2>2, <2>3
    <2>8. x + ContBody <= y
      BY <1>4, <2>6, <2>7
    <2> QED
      BY <1>1, <1>3, <1>4, <1>6, <2>1, <2>2, <2>8 DEF Room
  <1> QED
    BY <1>5, <1>6

LEMMA WayIs ==
    ASSUME TypeInv
    PROVE  /\ Way \in Seq(Reports) /\ Len(Way) = Len(fromDev) + Len(devOut)
           /\ Len(fromDev) \in Nat /\ Len(devOut) \in Nat
           /\ DOMAIN Way = 1..Len(Way)
           /\ \A k \in 1..Len(fromDev) : Way[k] = fromDev[k]
           /\ \A k \in 1..Len(devOut) : Way[Len(fromDev) + k] = devOut[k]
           /\ \A k \in 1..Len(Way) : k > Len(fromDev) =>
                 k - Len(fromDev) \in 1..Len(devOut) /\ Way[k] = devOut[k - Len(fromDev)]
  <1>1. fromDev \in Seq(Reports) /\ devOut \in Seq(Reports)
    BY DEF TypeInv, TypeOK, DeviceTypeOK
  <1> QED
    BY <1>1 DEF Way

\* One queue of reports has no more than another, in the same order, but for
\* reports other programs caused.
Thinner(new, old) ==
    /\ \A k \in DOMAIN new :
          new[k] \in ForeignReports \/ \E i \in DOMAIN old : new[k] = old[i]
    /\ \A k, l \in DOMAIN new : k < l =>
          \/ new[k] \in ForeignReports \/ new[l] \in ForeignReports
          \/ \E i, j \in DOMAIN old : i < j /\ new[k] = old[i] /\ new[l] = old[j]

LEMMA ThinnerBy ==
    ASSUME NEW new, NEW old, NEW f,
           \A k \in DOMAIN new :
              \/ f[k] = 0 /\ new[k] \in ForeignReports
              \/ f[k] \in DOMAIN old /\ new[k] = old[f[k]],
           \A k, l \in DOMAIN new : k < l /\ f[k] # 0 /\ f[l] # 0 => f[k] < f[l],
           0 \notin DOMAIN old
    PROVE  Thinner(new, old)
  <1>1. \A k \in DOMAIN new :
           new[k] \in ForeignReports \/ \E i \in DOMAIN old : new[k] = old[i]
    OBVIOUS
  <1>2. ASSUME NEW k \in DOMAIN new, NEW l \in DOMAIN new, k < l,
               new[k] \notin ForeignReports, new[l] \notin ForeignReports
        PROVE  \E i, j \in DOMAIN old : i < j /\ new[k] = old[i] /\ new[l] = old[j]
    <2>1. /\ f[k] \in DOMAIN old /\ new[k] = old[f[k]] /\ f[k] # 0
          /\ f[l] \in DOMAIN old /\ new[l] = old[f[l]] /\ f[l] # 0
      BY <1>2
    <2>2. f[k] < f[l]
      BY <1>2, <2>1
    <2> QED
      BY <2>1, <2>2
  <1> QED
    BY <1>1, <1>2 DEF Thinner

\* A sequence made of two, by position.
Halves(s, a, m, b, l) ==
    /\ DOMAIN s = 1..(m + l)
    /\ \A k \in 1..(m + l) : s[k] = IF k <= m THEN a[k] ELSE b[k - m]

LEMMA ConcatHalves ==
    ASSUME NEW a \in Seq(Reports), NEW b \in Seq(Reports), NEW s, s = a \o b,
           NEW m, m = Len(a), NEW l, l = Len(b)
    PROVE  m \in Nat /\ l \in Nat /\ s \in Seq(Reports) /\ Halves(s, a, m, b, l)
  BY DEF Halves

LEMMA ThinHalves ==
    ASSUME NEW m \in Nat, NEW l \in Nat, NEW x \in Nat, NEW y \in Nat,
           NEW f, NEW d, NEW g, NEW e, NEW old, NEW new,
           Halves(old, f, m, d, l), Halves(new, g, x, e, y),
           \/ x = 0 /\ y = l /\ \A k \in 1..l : e[k] = d[k]
           \/ /\ m = x + 1 /\ y = l
              /\ (\A k \in 1..x : g[k] = f[k + 1]) /\ (\A k \in 1..l : e[k] = d[k])
           \/ /\ l = y + 1 /\ x = m + 1 /\ g[m + 1] = d[1]
              /\ (\A k \in 1..m : g[k] = f[k]) /\ (\A k \in 1..y : e[k] = d[k + 1])
           \/ l = y + 1 /\ x = 1 /\ g[1] = d[1] /\ \A k \in 1..y : e[k] = d[k + 1]
           \/ /\ x = m + 1 /\ y = l /\ g[m + 1] \in ForeignReports
              /\ (\A k \in 1..m : g[k] = f[k]) /\ (\A k \in 1..l : e[k] = d[k])
           \/ x = 1 /\ y = l /\ g[1] \in ForeignReports /\ \A k \in 1..l : e[k] = d[k]
    PROVE  Thinner(new, old)
  <1>1. 0 \notin DOMAIN old
    BY DEF Halves
  <1>2. ASSUME NEW s \in Nat, \A k \in 1..(x + y) : k + s \in 1..(m + l) /\ new[k] = old[k + s]
        PROVE  Thinner(new, old)
    <2> DEFINE h == [k \in 1..(x + y) |-> k + s]
    <2>1. \A k \in 1..(x + y) : h[k] = k + s
      OBVIOUS
    <2> HIDE DEF h
    <2>2. \A k \in DOMAIN new : h[k] \in DOMAIN old /\ new[k] = old[h[k]]
      BY <1>2, <2>1 DEF Halves
    <2>3. ASSUME NEW k \in DOMAIN new, NEW j \in DOMAIN new, k < j
          PROVE  h[k] < h[j]
      <3>1. k \in 1..(x + y) /\ j \in 1..(x + y)
        BY DEF Halves
      <3>2. h[k] = k + s /\ h[j] = j + s
        BY <2>1, <3>1
      <3>3. k + s < j + s
        BY <2>3, <3>1
      <3> QED
        BY <3>2, <3>3
    <2> QED
      BY <1>1, <2>2, <2>3, ThinnerBy
  <1>3. CASE x = 0 /\ y = l /\ \A k \in 1..l : e[k] = d[k]
    <2>1. \A k \in 1..(x + y) : k + m \in 1..(m + l) /\ new[k] = old[k + m]
      BY <1>3 DEF Halves
    <2> QED
      BY <1>2, <2>1
  <1>4. CASE /\ m = x + 1 /\ y = l
             /\ (\A k \in 1..x : g[k] = f[k + 1]) /\ (\A k \in 1..l : e[k] = d[k])
    <2>1. ASSUME NEW k \in 1..(x + y)
          PROVE  k + 1 \in 1..(m + l) /\ new[k] = old[k + 1]
      <3>1. k + 1 \in 1..(m + l) /\ (k <= x <=> k + 1 <= m) /\ k + 1 - m = k - x
        BY <1>4
      <3>2. CASE k <= x
        <4>1. new[k] = g[k] /\ g[k] = f[k + 1] /\ old[k + 1] = f[k + 1]
          BY <1>4, <3>1, <3>2 DEF Halves
        <4> QED
          BY <3>1, <4>1
      <3>3. CASE ~(k <= x)
        <4>1. k - x \in 1..l
          BY <1>4, <3>3
        <4>2. new[k] = e[k - x] /\ e[k - x] = d[k - x]
          BY <1>4, <3>3, <4>1 DEF Halves
        <4>3. old[k + 1] = d[k + 1 - m]
          BY <3>1, <3>3 DEF Halves
        <4> QED
          BY <3>1, <4>2, <4>3
      <3> QED
        BY <3>2, <3>3
    <2> QED
      BY <1>2, <2>1
  <1>5. CASE /\ l = y + 1 /\ x = m + 1 /\ g[m + 1] = d[1]
             /\ (\A k \in 1..m : g[k] = f[k]) /\ (\A k \in 1..y : e[k] = d[k + 1])
    <2>1. ASSUME NEW k \in 1..(x + y)
          PROVE  k + 0 \in 1..(m + l) /\ new[k] = old[k + 0]
      <3>1. k + 0 = k /\ k \in 1..(m + l)
        BY <1>5
      <3>2. CASE k <= m
        <4>1. k <= x /\ k \in 1..m
          BY <1>5, <3>2
        <4>2. new[k] = g[k] /\ g[k] = f[k] /\ old[k] = f[k]
          BY <1>5, <3>1, <3>2, <4>1 DEF Halves
        <4> QED
          BY <3>1, <4>2
      <3>3. CASE k = m + 1
        <4>1. new[k] = g[m + 1] /\ old[k] = d[1]
          BY <1>5, <3>1, <3>3 DEF Halves
        <4> QED
          BY <1>5, <3>1, <4>1
      <3>4. CASE k > m + 1
        <4>1. k - x \in 1..y /\ k - x + 1 = k - m /\ ~(k <= x) /\ ~(k <= m)
          BY <1>5, <3>4
        <4>2. new[k] = e[k - x] /\ old[k] = d[k - m]
          BY <3>1, <4>1 DEF Halves
        <4>3. e[k - x] = d[k - x + 1]
          BY <1>5, <4>1
        <4> QED
          BY <3>1, <4>1, <4>2, <4>3
      <3> QED
        BY <3>2, <3>3, <3>4
    <2> QED
      BY <1>2, <2>1
  <1>6. CASE l = y + 1 /\ x = 1 /\ g[1] = d[1] /\ \A k \in 1..y : e[k] = d[k + 1]
    <2>1. ASSUME NEW k \in 1..(x + y)
          PROVE  k + m \in 1..(m + l) /\ new[k] = old[k + m]
      <3>1. k + m \in 1..(m + l) /\ ~(k + m <= m) /\ k + m - m = k
        BY <1>6
      <3>2. old[k + m] = d[k]
        BY <3>1 DEF Halves
      <3>3. CASE k = 1
        <4>1. new[k] = g[1]
          BY <1>6, <3>3 DEF Halves
        <4> QED
          BY <1>6, <3>1, <3>2, <3>3, <4>1
      <3>4. CASE k # 1
        <4>1. k - x \in 1..y /\ k - x + 1 = k /\ ~(k <= x)
          BY <1>6, <3>4
        <4>2. new[k] = e[k - x]
          BY <4>1 DEF Halves
        <4>3. e[k - x] = d[k - x + 1]
          BY <1>6, <4>1
        <4> QED
          BY <3>1, <3>2, <4>1, <4>2, <4>3
      <3> QED
        BY <3>3, <3>4
    <2> QED
      BY <1>2, <2>1
  <1>7. CASE /\ x = m + 1 /\ y = l /\ g[m + 1] \in ForeignReports
             /\ (\A k \in 1..m : g[k] = f[k]) /\ (\A k \in 1..l : e[k] = d[k])
    <2> DEFINE h == [k \in 1..(x + y) |-> IF k <= m THEN k ELSE IF k = m + 1 THEN 0 ELSE k - 1]
    <2>1. \A k \in 1..(x + y) : h[k] = IF k <= m THEN k ELSE IF k = m + 1 THEN 0 ELSE k - 1
      OBVIOUS
    <2> HIDE DEF h
    <2>2. ASSUME NEW k \in DOMAIN new
          PROVE  \/ h[k] = 0 /\ new[k] \in ForeignReports
                 \/ h[k] \in DOMAIN old /\ new[k] = old[h[k]]
      <3>1. k \in 1..(x + y) /\ h[k] = IF k <= m THEN k ELSE IF k = m + 1 THEN 0 ELSE k - 1
        BY <2>1 DEF Halves
      <3>2. CASE k <= m
        <4>1. k <= x /\ k \in 1..m /\ k \in 1..(m + l)
          BY <1>7, <3>1, <3>2
        <4>2. new[k] = g[k] /\ g[k] = f[k] /\ old[k] = f[k]
          BY <1>7, <3>1, <3>2, <4>1 DEF Halves
        <4> QED
          BY <3>1, <3>2, <4>1, <4>2 DEF Halves
      <3>3. CASE k = m + 1
        <4>1. new[k] = g[m + 1] /\ ~(k <= m)
          BY <1>7, <3>1, <3>3 DEF Halves
        <4> QED
          BY <1>7, <3>1, <3>3, <4>1
      <3>4. CASE k > m + 1
        <4>1. /\ k - x \in 1..l /\ k - 1 - m = k - x /\ ~(k <= x) /\ ~(k - 1 <= m)
              /\ ~(k <= m) /\ k # m + 1 /\ k - 1 \in 1..(m + l)
          BY <1>7, <3>1, <3>4
        <4>2. new[k] = e[k - x] /\ old[k - 1] = d[k - 1 - m]
          BY <3>1, <4>1 DEF Halves
        <4>3. e[k - x] = d[k - x]
          BY <1>7, <4>1
        <4> QED
          BY <3>1, <4>1, <4>2, <4>3 DEF Halves
      <3> QED
        BY <3>1, <3>2, <3>3, <3>4
    <2>3. \A k, j \in DOMAIN new : k < j /\ h[k] # 0 /\ h[j] # 0 => h[k] < h[j]
      BY <1>7, <2>1 DEF Halves
    <2> QED
      BY <1>1, <2>2, <2>3, ThinnerBy
  <1>8. CASE x = 1 /\ y = l /\ g[1] \in ForeignReports /\ \A k \in 1..l : e[k] = d[k]
    <2> DEFINE h == [k \in 1..(x + y) |-> IF k = 1 THEN 0 ELSE m + k - 1]
    <2>1. \A k \in 1..(x + y) : h[k] = IF k = 1 THEN 0 ELSE m + k - 1
      OBVIOUS
    <2> HIDE DEF h
    <2>2. ASSUME NEW k \in DOMAIN new
          PROVE  \/ h[k] = 0 /\ new[k] \in ForeignReports
                 \/ h[k] \in DOMAIN old /\ new[k] = old[h[k]]
      <3>1. k \in 1..(x + y) /\ h[k] = IF k = 1 THEN 0 ELSE m + k - 1
        BY <2>1 DEF Halves
      <3>2. CASE k = 1
        <4>1. new[k] = g[1]
          BY <1>8, <3>1, <3>2 DEF Halves
        <4> QED
          BY <1>8, <3>1, <3>2, <4>1
      <3>3. CASE k # 1
        <4>1. /\ k - x \in 1..l /\ m + k - 1 - m = k - x /\ ~(k <= x) /\ ~(m + k - 1 <= m)
              /\ m + k - 1 \in 1..(m + l)
          BY <1>8, <3>1, <3>3
        <4>2. new[k] = e[k - x]
          BY <3>1, <4>1 DEF Halves
        <4> DEFINE z == m + k - 1
        <4>4. z \in 1..(m + l) /\ z = m + k - 1 /\ ~(z <= m) /\ z - m = k - x
          BY <1>8, <3>1, <4>1
        <4> HIDE DEF z
        <4>5. old[z] = d[z - m]
          BY <4>4 DEF Halves
        <4>3. e[k - x] = d[k - x]
          BY <1>8, <4>1
        <4> QED
          BY <3>1, <3>3, <4>2, <4>3, <4>4, <4>5 DEF Halves
      <3> QED
        BY <3>2, <3>3
    <2>3. \A k, j \in DOMAIN new : k < j /\ h[k] # 0 /\ h[j] # 0 => h[k] < h[j]
      BY <1>8, <2>1 DEF Halves
    <2> QED
      BY <1>1, <2>2, <2>3, ThinnerBy
  <1> QED
    BY <1>3, <1>4, <1>5, <1>6, <1>7, <1>8

LEMMA Shorter ==
    ASSUME NEW f \in Seq(Reports), f # << >>, NEW m, m = Len(f), NEW x \in Nat, m = x + 1
    PROVE  /\ Tail(f) \in Seq(Reports) /\ Len(Tail(f)) = x
           /\ \A k \in 1..x : Tail(f)[k] = f[k + 1]
           /\ Head(f) = f[1] /\ f[1] \in Reports
  <1>1. Tail(f) \in Seq(Reports) /\ Head(f) = f[1] /\ f[1] \in Reports
    OBVIOUS
  <1>2. Len(f) = x + 1
    OBVIOUS
  <1>3. /\ Len(Tail(f)) = Len(f) - 1
        /\ \A k \in 1..(Len(f) - 1) : Tail(f)[k] = f[k + 1]
    BY HeadTailProperties
  <1>4. Len(f) - 1 = x
    BY <1>2
  <1> QED
    BY <1>1, <1>3, <1>4, Zenon

\* Whatever Read, the backend and other programs do to the reports on the way.
LEMMA ThinQueues ==
    ASSUME NEW f \in Seq(Reports), NEW d \in Seq(Reports), NEW g, NEW e,
           \/ g = f /\ e = d
           \/ f # << >> /\ g = Tail(f) /\ e = d
           \/ g = << >> /\ e = d
           \/ d # << >> /\ e = Tail(d) /\ (g = Append(f, Head(d)) \/ g = <<Head(d)>>)
           \/ e = d /\ \E p \in ForeignReports : g = Append(f, p) \/ g = <<p>>,
           NEW old, old = f \o d, NEW new, new = g \o e
    PROVE  Thinner(new, old)
  <1>1. PICK m \in Nat, l \in Nat : m = Len(f) /\ l = Len(d)
    OBVIOUS
  <1>2. Halves(old, f, m, d, l)
    BY <1>1, ConcatHalves
  <1>3. CASE g = f /\ e = d
    <2>1. new = old
      BY <1>3
    <2> QED
      BY <1>2, <2>1 DEF Thinner, Halves
  <1>4. CASE f # << >> /\ g = Tail(f) /\ e = d
    <2>1. PICK x \in Nat : m = x + 1
      <3>1. m - 1 \in Nat /\ m = (m - 1) + 1
        BY <1>1, <1>4
      <3> QED
        BY <3>1
    <2>2. g \in Seq(Reports) /\ Len(g) = x /\ \A k \in 1..x : g[k] = f[k + 1]
      BY <1>1, <1>4, <2>1, Shorter, ZenonT(60)
    <2>3. Halves(new, g, x, d, l)
      BY <1>1, <1>4, <2>2, ConcatHalves
    <2> QED
      BY <1>2, <2>1, <2>2, <2>3, ThinHalves
  <1>5. CASE g = << >> /\ e = d
    <2>1. g \in Seq(Reports) /\ Len(g) = 0
      BY <1>5
    <2>2. Halves(new, g, 0, d, l)
      BY <1>1, <1>5, <2>1, ConcatHalves
    <2> QED
      BY <1>2, <2>2, ThinHalves
  <1>6. CASE d # << >> /\ e = Tail(d) /\ (g = Append(f, Head(d)) \/ g = <<Head(d)>>)
    <2>1. PICK y \in Nat : l = y + 1
      <3>1. l - 1 \in Nat /\ l = (l - 1) + 1
        BY <1>1, <1>6
      <3> QED
        BY <3>1
    <2>2. /\ e \in Seq(Reports) /\ Len(e) = y /\ (\A k \in 1..y : e[k] = d[k + 1])
          /\ Head(d) = d[1] /\ d[1] \in Reports
      BY <1>1, <1>6, <2>1, Shorter
    <2>3. CASE g = Append(f, Head(d))
      <3>1. PICK x \in Nat : x = m + 1
        BY <1>1
      <3>2. /\ g \in Seq(Reports) /\ Len(g) = x /\ g[m + 1] = d[1]
            /\ \A k \in 1..m : g[k] = f[k]
        BY <1>1, <2>2, <2>3, <3>1
      <3>3. Halves(new, g, x, e, y)
        BY <2>2, <3>2, ConcatHalves
      <3> QED
        BY <1>2, <2>1, <2>2, <3>1, <3>2, <3>3, ThinHalves
    <2>4. CASE g = <<Head(d)>>
      <3>1. g \in Seq(Reports) /\ Len(g) = 1 /\ g[1] = d[1]
        BY <2>2, <2>4
      <3>2. Halves(new, g, 1, e, y)
        BY <2>2, <3>1, ConcatHalves
      <3> QED
        BY <1>2, <2>1, <2>2, <3>1, <3>2, ThinHalves
    <2> QED
      BY <1>6, <2>3, <2>4
  <1>7. CASE e = d /\ \E p \in ForeignReports : g = Append(f, p) \/ g = <<p>>
    <2>1. PICK p \in ForeignReports : g = Append(f, p) \/ g = <<p>>
      BY <1>7
    <2>2. p \in Reports
      BY ForeignTyped
    <2>3. CASE g = Append(f, p)
      <3>1. PICK x \in Nat : x = m + 1
        BY <1>1
      <3>2. /\ g \in Seq(Reports) /\ Len(g) = x /\ g[m + 1] = p
            /\ \A k \in 1..m : g[k] = f[k]
        BY <1>1, <2>2, <2>3, <3>1
      <3>3. Halves(new, g, x, d, l)
        BY <1>1, <1>7, <3>2, ConcatHalves
      <3> QED
        BY <1>2, <2>1, <3>1, <3>2, <3>3, ThinHalves
    <2>4. CASE g = <<p>>
      <3>1. g \in Seq(Reports) /\ Len(g) = 1 /\ g[1] = p
        BY <2>2, <2>4
      <3>2. Halves(new, g, 1, d, l)
        BY <1>1, <1>7, <3>1, ConcatHalves
      <3> QED
        BY <1>2, <2>1, <3>1, <3>2, ThinHalves
    <2> QED
      BY <2>1, <2>3, <2>4
  <1> QED
    BY <1>3, <1>4, <1>5, <1>6, <1>7

LEMMA WayThinner ==
    ASSUME TypeInv, [Next]_vars, ~(DevKeepAlive \/ DevAnswer \/ DevError)
    PROVE  Thinner(Way', Way)
  <1>1. PICK f \in Seq(Reports), d \in Seq(Reports) : f = fromDev /\ d = devOut
    BY DEF TypeInv, TypeOK, DeviceTypeOK
  <1>2. PICK g, e, old, new :
           g = fromDev' /\ e = devOut' /\ old = Way /\ new = Way'
    OBVIOUS
  <1>3. \/ g = f /\ e = d
        \/ f # << >> /\ g = Tail(f) /\ e = d
        \/ g = << >> /\ e = d
        \/ d # << >> /\ e = Tail(d) /\ (g = Append(f, Head(d)) \/ g = <<Head(d)>>)
        \/ e = d /\ \E p \in ForeignReports : g = Append(f, p) \/ g = <<p>>
    <2>1. CASE StartCall \/ RequestTooLong \/ SendPacket \/ WriteFails \/ DevTake \/ Unplug
               \/ UNCHANGED vars
      BY <1>1, <1>2, <2>1
         DEF StartCall, RequestTooLong, SendPacket, WriteFails, DevTake, Unplug, vars,
             authenticator
    <2>2. CASE ReadFails
      BY <1>1, <1>2, <2>2 DEF ReadFails, authenticator
    <2>3. CASE Reads
      BY <1>1, <1>2, <2>3 DEF Reads, authenticator
    <2>4. CASE Reopen
      BY <1>1, <1>2, <2>4 DEF Reopen, authenticator
    <2>5. CASE DevEmit
      BY <1>1, <1>2, <2>5 DEF DevEmit, Queued
    <2>6. CASE ForeignReport
      BY <1>1, <1>2, <2>6 DEF ForeignReport, Queued, authenticator
    <2>7. ReadRefused \/ ReadError \/ ReadKeepAlive \/ ReadFirst \/ ReadContinuation => Reads
      BY DEF ReadRefused, ReadError, ReadKeepAlive, ReadFirst, ReadContinuation
    <2> QED
      BY <2>1, <2>2, <2>3, <2>4, <2>5, <2>6, <2>7 DEF Next
  <1>4. old = f \o d /\ new = g \o e
    BY <1>1, <1>2 DEF Way
  <1>5. Thinner(new, old)
    BY <1>3, <1>4, ThinQueues
  <1> QED
    BY <1>2, <1>5

\* What is on the way stays an answer, an error or a keep-alive.
LEMMA StillOnWay ==
    ASSUME NEW p, IsOnWay(p), n \in Nat, n' \in Nat, n <= n',
           \A q \in 1..n : given[q].sent => given'[q] = given[q]
    PROVE  IsOnWay(p)'
  <1>1. CASE p \in ForeignReports
    BY <1>1 DEF IsOnWay
  <1>2. CASE Owned(p) /\ IsAnswer(p)
    <2>1. /\ CallOf(p) \in 1..n /\ p.cid \in 0..(CallOf(p) - 1) /\ given[CallOf(p)].sent
          /\ Carries(p, given[CallOf(p)].len, given[CallOf(p)].ok) /\ AtCut(PosOf(p))
      BY <1>2 DEF IsAnswer
    <2>2. given'[CallOf(p)] = given[CallOf(p)]
      BY <2>1
    <2>3. CallOf(p) \in 1..n'
      BY <2>1
    <2> QED
      BY <1>2, <2>1, <2>2, <2>3 DEF IsOnWay, IsAnswer
  <1>3. CASE ~Owned(p) /\ IsNotice(p)
    <2>1. p.cid \in 0..(n' - 1)
      BY <1>3 DEF IsNotice
    <2> QED
      BY <1>3, <2>1 DEF IsOnWay, IsNotice
  <1> QED
    BY <1>1, <1>2, <1>3 DEF IsOnWay

LEMMA ForeignNotOwned ==
    ASSUME NEW p \in ForeignReports
    PROVE  ~Owned(p)
  BY ForeignTyped DEF Owned

LEMMA AnswersThinned ==
    ASSUME TypeInv, AnswersInLine, Thinner(Way', Way), n' \in Nat, n <= n',
           \A q \in 1..n : given[q].sent => given'[q] = given[q]
    PROVE  AnswersInLine'
  <1>1. PICK old, new : old = Way /\ new = Way'
    OBVIOUS
  <1>2. Thinner(new, old)
    BY <1>1
  <1>3. /\ \A k \in DOMAIN old : IsOnWay(old[k])
        /\ \A k, l \in DOMAIN old : k < l => Before(old[k], old[l])
    BY <1>1 DEF AnswersInLine
  <1>4. n \in Nat
    BY CtapHidAssumption DEF TypeInv, TypeOK, ClientTypeOK
  <1>5. ASSUME NEW p, IsOnWay(p)
        PROVE  IsOnWay(p)'
    BY <1>4, <1>5, StillOnWay
  <1>6. ASSUME NEW k \in DOMAIN new
        PROVE  IsOnWay(new[k])'
    <2>1. IsOnWay(new[k])
      <3>1. CASE new[k] \in ForeignReports
        BY <3>1 DEF IsOnWay
      <3>2. CASE \E i \in DOMAIN old : new[k] = old[i]
        BY <1>3, <3>2
      <3> QED
        BY <1>2, <3>1, <3>2 DEF Thinner
    <2> QED
      BY <1>5, <2>1
  <1>7. ASSUME NEW k \in DOMAIN new, NEW l \in DOMAIN new, k < l
        PROVE  Before(new[k], new[l])
    <2>1. CASE new[k] \in ForeignReports \/ new[l] \in ForeignReports
      BY <2>1, ForeignNotOwned DEF Before
    <2>2. CASE \E i, j \in DOMAIN old : i < j /\ new[k] = old[i] /\ new[l] = old[j]
      BY <1>3, <2>2
    <2> QED
      BY <1>2, <1>7, <2>1, <2>2 DEF Thinner
  <1> QED
    BY <1>1, <1>6, <1>7 DEF AnswersInLine

\* One queue of reports is another with the packets of a message behind it.
Longer(new, old, fr) ==
    /\ \A k \in DOMAIN new : \/ \E i \in DOMAIN old : new[k] = old[i]
                             \/ \E i \in DOMAIN fr : new[k] = fr[i]
    /\ \A k, l \in DOMAIN new : k < l =>
          \/ \E i, j \in DOMAIN old : i < j /\ new[k] = old[i] /\ new[l] = old[j]
          \/ \E i, j \in DOMAIN fr : i < j /\ new[k] = fr[i] /\ new[l] = fr[j]
          \/ \E i \in DOMAIN old, j \in DOMAIN fr : new[k] = old[i] /\ new[l] = fr[j]

\* The authenticator adds the packets of one more message.
LEMMA AnswersAdded ==
    ASSUME TypeInv, AnswersInLine, n' = n,
           \A q \in 1..n : given[q].sent => given'[q] = given[q],
           NEW fr \in Seq(Reports), fromDev' = fromDev, devOut' = devOut \o fr,
           \A k \in DOMAIN fr : IsOnWay(fr[k])',
           \A k, l \in DOMAIN fr : k < l => Before(fr[k], fr[l]),
           NEW c \in Nat, \A k \in DOMAIN fr : Owned(fr[k]) => CallOf(fr[k]) = c,
           \A q \in 1..n : given[q].sent => q < c
    PROVE  /\ AnswersInLine'
           /\ Longer(Way', Way, fr)
  <1>0. PICK old \in Seq(Reports) : old = Way
    BY WayIs
  <1>1. PICK new : new = Way' /\ old = Way
    BY <1>0
  <1>2. new = old \o fr
    <2>1. fromDev \in Seq(Reports) /\ devOut \in Seq(Reports)
      BY DEF TypeInv, TypeOK, DeviceTypeOK
    <2>2. fromDev \o (devOut \o fr) = (fromDev \o devOut) \o fr
      BY <2>1
    <2> QED
      BY <1>1, <2>2 DEF Way
  <1>3. PICK m \in Nat, l \in Nat : m = Len(old) /\ l = Len(fr)
    OBVIOUS
  <1>4. DOMAIN old = 1..m /\ DOMAIN fr = 1..l
    BY <1>3
  <1>5. Halves(new, old, m, fr, l)
    BY <1>2, <1>3, ConcatHalves
  <1>6. ASSUME NEW k \in DOMAIN new
        PROVE  /\ k \in 1..(m + l)
               /\ \/ k <= m /\ k \in DOMAIN old /\ new[k] = old[k]
                  \/ k > m /\ k - m \in DOMAIN fr /\ new[k] = fr[k - m]
    BY <1>4, <1>5 DEF Halves
  <1>7. /\ \A k \in DOMAIN old : IsOnWay(old[k])
        /\ \A k, j \in DOMAIN old : k < j => Before(old[k], old[j])
    BY <1>1 DEF AnswersInLine
  <1>8. ASSUME NEW k \in DOMAIN new
        PROVE  /\ IsOnWay(new[k])'
               /\ \/ \E i \in DOMAIN old : new[k] = old[i]
                  \/ \E i \in DOMAIN fr : new[k] = fr[i]
    <2>1. CASE k \in DOMAIN old /\ new[k] = old[k]
      <3>1. n \in Nat /\ n' \in Nat /\ n <= n'
        BY CtapHidAssumption DEF TypeInv, TypeOK, ClientTypeOK
      <3>2. IsOnWay(old[k])
        BY <1>7, <2>1
      <3>3. PICK p : p = old[k]
        OBVIOUS
      <3>4. IsOnWay(p)'
        BY <3>1, <3>2, <3>3, StillOnWay
      <3> QED
        BY <2>1, <3>3, <3>4
    <2>2. CASE k - m \in DOMAIN fr /\ new[k] = fr[k - m]
      BY <2>2
    <2> QED
      BY <1>6, <2>1, <2>2
  <1>9. ASSUME NEW k \in DOMAIN new, NEW j \in DOMAIN new, k < j
        PROVE  /\ Before(new[k], new[j])
               /\ \/ \E i, h \in DOMAIN old : i < h /\ new[k] = old[i] /\ new[j] = old[h]
                  \/ \E i, h \in DOMAIN fr : i < h /\ new[k] = fr[i] /\ new[j] = fr[h]
                  \/ \E i \in DOMAIN old, h \in DOMAIN fr : new[k] = old[i] /\ new[j] = fr[h]
    <2>0. k \in 1..(m + l) /\ j \in 1..(m + l)
      BY <1>6
    <2>1. CASE j <= m
      <3>1. k <= m
        BY <1>9, <2>0, <2>1
      <3>2. k \in DOMAIN old /\ new[k] = old[k] /\ j \in DOMAIN old /\ new[j] = old[j]
        BY <1>6, <2>0, <2>1, <3>1
      <3> QED
        BY <1>7, <1>9, <3>2
    <2>2. CASE j > m /\ k > m
      <3>1. /\ k - m \in DOMAIN fr /\ new[k] = fr[k - m]
            /\ j - m \in DOMAIN fr /\ new[j] = fr[j - m]
        BY <1>6, <2>0, <2>2
      <3>2. k - m < j - m
        BY <1>9, <2>0
      <3> QED
        BY <3>1, <3>2
    <2>3. CASE j > m /\ k <= m
      <3>1. k \in DOMAIN old /\ new[k] = old[k] /\ j - m \in DOMAIN fr /\ new[j] = fr[j - m]
        BY <1>6, <2>0, <2>3
      <3>2. PICK p, q : p = new[k] /\ q = new[j]
        OBVIOUS
      <3>3. Before(p, q)
        <4> SUFFICES ASSUME Owned(p), Owned(q) PROVE CallOf(p) < CallOf(q)
          BY DEF Before
        <4>1. IsOnWay(p) /\ p \notin ForeignReports
          BY <1>7, <3>1, <3>2, ForeignNotOwned
        <4>2. CallOf(p) \in 1..n /\ given[CallOf(p)].sent
          BY <4>1 DEF IsOnWay, IsAnswer
        <4>3. CallOf(q) = c
          BY <3>1, <3>2
        <4> QED
          BY <4>2, <4>3
      <3> QED
        BY <3>1, <3>2, <3>3
    <2> QED
      BY <2>0, <2>1, <2>2, <2>3
  <1>10. AnswersInLine'
    BY <1>1, <1>8, <1>9 DEF AnswersInLine
  <1>11. Longer(new, old, fr)
    BY <1>8, <1>9 DEF Longer
  <1> QED
    BY <1>1, <1>10, <1>11

\* The bytes of an answer are numbered; only the status may be 0.
LEMMA AnswerBytesAre ==
    ASSUME NEW q \in 0..MaxCalls, NEW a \in [len : 0..MaxLen, ok : BOOLEAN, sent : BOOLEAN],
           NEW s, s = AnswerBytes(q, a)
    PROVE  /\ s \in Seq(Byte) /\ Len(s) = a.len /\ a.len \in Nat /\ a.len <= MaxLen
           /\ \A j \in 1..a.len : s[j] = ByteOf(q, a.ok, j)
           /\ \A j \in Nat : /\ ByteOf(q, a.ok, j)[1] = q
                             /\ j # 1 => ByteOf(q, a.ok, j)[2] = j
                             /\ ByteOf(q, a.ok, 1)[2] = IF a.ok THEN 1 ELSE 0
  <1>1. s \in Seq(Byte) /\ Len(s) = a.len /\ a.len \in Nat /\ a.len <= MaxLen
    BY MessagesTyped, CtapHidAssumption
  <1>2. \A j \in 1..a.len : s[j] = ByteOf(q, a.ok, j)
    BY DEF AnswerBytes
  <1>3. \A j \in Nat : /\ ByteOf(q, a.ok, j)[1] = q
                       /\ j # 1 => ByteOf(q, a.ok, j)[2] = j
                       /\ ByteOf(q, a.ok, 1)[2] = IF a.ok THEN 1 ELSE 0
    BY DEF ByteOf
  <1> QED
    BY <1>1, <1>2, <1>3

\* The first packet of an answer that is not empty.
LEMMA FirstOfAnswer ==
    ASSUME NEW q \in Calls, NEW a \in [len : 0..MaxLen, ok : BOOLEAN, sent : BOOLEAN],
           a.len # 0, NEW c, NEW p,
           p = Packet(c, CommandOn(c), a.len, Padded(AnswerBytes(q, a), InitBody))
    PROVE  Owned(p) /\ CallOf(p) = q /\ PosOf(p) = 1 /\ Carries(p, a.len, a.ok)
  <1>1. PICK s \in Seq(Byte) : s = AnswerBytes(q, a)
    <2>1. q \in 0..MaxCalls
      BY CtapHidAssumption DEF Calls
    <2>2. AnswerBytes(q, a) \in Seq(Byte)
      BY <2>1, AnswerBytesAre
    <2> QED
      BY <2>2
  <1>2. /\ Len(s) = a.len /\ a.len \in Nat /\ q # 0
        /\ \A j \in 1..a.len : s[j] = ByteOf(q, a.ok, j)
        /\ ByteOf(q, a.ok, 1)[1] = q
        /\ ByteOf(q, a.ok, 1)[2] = IF a.ok THEN 1 ELSE 0
    BY <1>1, AnswerBytesAre, CtapHidAssumption DEF Calls
  <1>3. PICK b \in Seq(Byte) : b = Padded(s, InitBody)
    BY PaddedProperties, CtapHidAssumption
  <1>4. Len(b) = InitBody /\ \A j \in 1..InitBody : b[j] = IF j <= Len(s) THEN s[j] ELSE Pad
    BY <1>3, PaddedProperties, CtapHidAssumption
  <1>5. /\ p.body = b /\ p.tag = CommandOn(c) /\ p.len = a.len /\ p.cid = c
    BY <1>1, <1>3 DEF Packet
  <1>6. InitBody \in Nat \ {0} /\ 1 \in 1..InitBody /\ 1 \in 1..a.len
    BY <1>2, CtapHidAssumption
  <1>7. b[1] = ByteOf(q, a.ok, 1) /\ b # << >>
    BY <1>2, <1>4, <1>6
  <1>8. Owned(p) /\ CallOf(p) = q /\ PosOf(p) = 1
    BY <1>2, <1>5, <1>7 DEF Owned, CallOf, PosOf
  <1>9. \A j \in 1..InitBody : 1 + j - 1 <= a.len => b[j] = ByteOf(q, a.ok, 1 + j - 1)
    <2> TAKE j \in 1..InitBody
    <2>1. 1 + j - 1 = j
      OBVIOUS
    <2> QED
      BY <1>2, <1>4, <2>1
  <1> QED
    BY <1>4, <1>5, <1>6, <1>8, <1>9 DEF Carries, Room

\* A later packet of an answer.
LEMMA NextOfAnswer ==
    ASSUME NEW q \in Calls, NEW a \in [len : 0..MaxLen, ok : BOOLEAN, sent : BOOLEAN],
           NEW c, NEW p, NEW d \in Nat, InitBody + d < a.len,
           NEW t \in 0..(SeqSpace - 1),
           p = Packet(c, t, 0, Padded(Drop(AnswerBytes(q, a), InitBody + d), ContBody))
    PROVE  /\ Owned(p) /\ CallOf(p) = q /\ PosOf(p) = 1 + InitBody + d
           /\ Carries(p, a.len, a.ok)
  <1>0. InitBody \in Nat \ {0} /\ ContBody \in Nat \ {0}
    BY CtapHidAssumption
  <1>1. PICK s \in Seq(Byte) : s = AnswerBytes(q, a)
    <2>1. q \in 0..MaxCalls
      BY CtapHidAssumption DEF Calls
    <2>2. AnswerBytes(q, a) \in Seq(Byte)
      BY <2>1, AnswerBytesAre
    <2> QED
      BY <2>2
  <1>2. /\ Len(s) = a.len /\ a.len \in Nat /\ q # 0
        /\ \A j \in 1..a.len : s[j] = ByteOf(q, a.ok, j)
        /\ \A j \in Nat : /\ ByteOf(q, a.ok, j)[1] = q
                          /\ j # 1 => ByteOf(q, a.ok, j)[2] = j
    BY <1>1, AnswerBytesAre, CtapHidAssumption DEF Calls
  <1>3. PICK x \in Nat : x = InitBody + d
    BY <1>0
  <1>4. x \in 0..Len(s) /\ x < a.len /\ x >= 1
    BY <1>0, <1>2, <1>3
  <1>5. PICK r \in Seq(Byte) :
           /\ r = Drop(s, x) /\ Len(r) = Len(s) - x
           /\ \A j \in 1..(Len(s) - x) : r[j] = s[x + j]
    <2>1. PICK r : r = Drop(s, x)
      OBVIOUS
    <2>2. /\ r \in Seq(Byte) /\ Len(r) = Len(s) - x
          /\ \A j \in 1..(Len(s) - x) : r[j] = s[x + j]
      BY <1>4, <2>1, DropProperties, ZenonT(30)
    <2> QED
      BY <2>1, <2>2
  <1>6. Len(r) = Len(s) - x /\ \A j \in 1..(Len(s) - x) : r[j] = s[x + j]
    BY <1>5
  <1>7. PICK b \in Seq(Byte) : b = Padded(r, ContBody)
    BY <1>0, PaddedProperties
  <1>8. Len(b) = ContBody /\ \A j \in 1..ContBody : b[j] = IF j <= Len(r) THEN r[j] ELSE Pad
    BY <1>0, <1>7, PaddedProperties
  <1>9. p.body = b /\ p.tag = t /\ p.cid = c
    BY <1>1, <1>3, <1>5, <1>7 DEF Packet
  <1>10. ASSUME NEW j \in 1..ContBody, x + j <= a.len
         PROVE  b[j] = ByteOf(q, a.ok, x + j)
    <2>1. j \in 1..(Len(s) - x) /\ x + j \in 1..a.len
      BY <1>0, <1>2, <1>4, <1>10
    <2>2. j <= Len(r)
      BY <1>6, <2>1
    <2>3. b[j] = r[j] /\ r[j] = s[x + j]
      BY <1>6, <1>8, <2>1, <2>2
    <2> QED
      BY <1>2, <2>1, <2>3
  <1>11. b[1] = ByteOf(q, a.ok, x + 1)
    BY <1>0, <1>2, <1>4, <1>10
  <1>12. b[1][1] = q /\ b[1][2] = x + 1 /\ b # << >>
    <2>1. x + 1 \in Nat /\ x + 1 # 1
      BY <1>4
    <2> QED
      BY <1>0, <1>2, <1>8, <1>11, <2>1
  <1>13. Owned(p) /\ CallOf(p) = q /\ PosOf(p) = x + 1
    BY <1>2, <1>9, <1>12 DEF Owned, CallOf, PosOf
  <1>14. x + 1 # 1 /\ x + 1 \in 1..a.len /\ x + 1 = 1 + InitBody + d
    BY <1>0, <1>2, <1>3, <1>4
  <1>15. \A j \in 1..ContBody :
            (x + 1) + j - 1 <= a.len => b[j] = ByteOf(q, a.ok, (x + 1) + j - 1)
    <2> TAKE j \in 1..ContBody
    <2>1. (x + 1) + j - 1 = x + j
      BY <1>0
    <2> QED
      BY <1>10, <2>1
  <1> HIDE DEF ByteOf
  <1>16. Carries(p, a.len, a.ok)
    BY <1>8, <1>9, <1>13, <1>14, <1>15 DEF Carries, Room
  <1> QED
    BY <1>13, <1>14, <1>16

\* The packets of an answer that is not empty.
LEMMA FramesOfAnswer ==
    ASSUME NEW q \in Calls, NEW a \in [len : 0..MaxLen, ok : BOOLEAN, sent : BOOLEAN],
           a.len # 0, NEW c \in -1..MaxCalls,
           NEW fr, fr = Frames(c, CommandOn(c), AnswerBytes(q, a))
    PROVE  /\ \A k \in 1..Len(fr) : /\ Owned(fr[k]) /\ CallOf(fr[k]) = q /\ fr[k].cid = c
                                    /\ Carries(fr[k], a.len, a.ok) /\ AtCut(PosOf(fr[k]))
           /\ \A k, l \in 1..Len(fr) : k < l => PosOf(fr[k]) < PosOf(fr[l])
           /\ \A k \in 1..Len(fr) : PosOf(fr[k]) # 1 =>
                 k - 1 \in 1..Len(fr) /\ PosOf(fr[k]) = After(fr[k - 1])
  <1>0. InitBody \in Nat \ {0} /\ ContBody \in Nat \ {0} /\ SeqSpace \in Nat \ {0}
    BY CtapHidAssumption
  <1>1. PICK s \in Seq(Byte) : s = AnswerBytes(q, a) /\ Len(s) = a.len
    <2>1. q \in 0..MaxCalls
      BY CtapHidAssumption DEF Calls
    <2>2. AnswerBytes(q, a) \in Seq(Byte) /\ Len(AnswerBytes(q, a)) = a.len
      BY <2>1, AnswerBytesAre
    <2> QED
      BY <2>2
  <1>2. /\ Len(fr) \in Nat /\ Len(fr) >= 1
        /\ fr[1] = Packet(c, CommandOn(c), a.len, Padded(s, InitBody))
        /\ \A k \in 2..Len(fr) : \E d \in Nat :
              /\ d = (k - 2) * ContBody /\ k - 2 <= d /\ InitBody + d < a.len
              /\ fr[k] = Packet(c, (k - 2) % SeqSpace, 0,
                                Padded(Drop(s, InitBody + d), ContBody))
    <2>1. fr = Frames(c, CommandOn(c), s)
      BY <1>1
    <2>2. /\ fr \in Seq(Range(fr)) /\ Len(fr) >= 1
          /\ fr[1] = Packet(c, CommandOn(c), Len(s), Padded(s, InitBody))
          /\ \A k \in 2..Len(fr) : \E d \in Nat :
                /\ d = (k - 2) * ContBody /\ k - 2 <= d /\ InitBody + d < Len(s)
                /\ fr[k] = Packet(c, (k - 2) % SeqSpace, 0,
                                  Padded(Drop(s, InitBody + d), ContBody))
      BY <2>1, FramesProperties
    <2>3. Len(fr) \in Nat
      BY <2>2
    <2> QED
      BY <1>1, <2>2, <2>3
  <1>3. /\ Owned(fr[1]) /\ CallOf(fr[1]) = q /\ PosOf(fr[1]) = 1 /\ fr[1].cid = c
        /\ Carries(fr[1], a.len, a.ok)
    <2>1. fr[1].cid = c
      BY <1>2 DEF Packet
    <2>2. fr[1] = Packet(c, CommandOn(c), a.len, Padded(AnswerBytes(q, a), InitBody))
      BY <1>1, <1>2
    <2> QED
      BY <2>1, <2>2, FirstOfAnswer
  <1>4. AtCut(1)
    BY DEF AtCut
  <1>5. ASSUME NEW k \in 2..Len(fr)
        PROVE  /\ Owned(fr[k]) /\ CallOf(fr[k]) = q /\ fr[k].cid = c
               /\ Carries(fr[k], a.len, a.ok) /\ AtCut(PosOf(fr[k]))
               /\ \E d \in Nat : d = (k - 2) * ContBody /\ PosOf(fr[k]) = 1 + InitBody + d
    <2>1. PICK d \in Nat :
              /\ d = (k - 2) * ContBody /\ k - 2 <= d /\ InitBody + d < a.len
              /\ fr[k] = Packet(c, (k - 2) % SeqSpace, 0,
                                Padded(Drop(s, InitBody + d), ContBody))
      BY <1>2
    <2>2. k - 2 \in Nat
      BY <1>2
    <2>3. (k - 2) % SeqSpace \in 0..(SeqSpace - 1)
      BY <1>0, <2>2
    <2>4. PICK t \in 0..(SeqSpace - 1) : t = (k - 2) % SeqSpace
      BY <2>3
    <2>5. fr[k] = Packet(c, t, 0, Padded(Drop(AnswerBytes(q, a), InitBody + d), ContBody))
      BY <1>1, <2>1, <2>4
    <2>6. /\ Owned(fr[k]) /\ CallOf(fr[k]) = q /\ PosOf(fr[k]) = 1 + InitBody + d
          /\ Carries(fr[k], a.len, a.ok)
      <3>1. InitBody + d < a.len
        BY <2>1
      <3> QED
        BY <2>5, <3>1, NextOfAnswer, ZenonT(30)
    <2>7. fr[k].cid = c
      BY <2>1 DEF Packet
    <2>8. AtCut(1 + InitBody + d)
      <3>1. k - 2 \in 0..(1 + InitBody + d)
        BY <1>0, <2>1, <2>2
      <3> QED
        BY <2>1, <3>1 DEF AtCut
    <2> QED
      BY <2>1, <2>6, <2>7, <2>8
  <1>6. ASSUME NEW k \in 1..Len(fr), NEW l \in 1..Len(fr), k < l
        PROVE  PosOf(fr[k]) < PosOf(fr[l])
    <2>1. l \in 2..Len(fr)
      BY <1>2, <1>6
    <2>2. PICK e \in Nat : e = (l - 2) * ContBody /\ PosOf(fr[l]) = 1 + InitBody + e
      BY <1>5, <2>1
    <2>3. CASE k = 1
      BY <1>0, <1>3, <2>2, <2>3
    <2>4. CASE k # 1
      <3>1. k \in 2..Len(fr)
        BY <1>2, <2>4
      <3>2. PICK d \in Nat : d = (k - 2) * ContBody /\ PosOf(fr[k]) = 1 + InitBody + d
        BY <1>5, <3>1
      <3>3. (k - 2) + 1 \in Nat /\ l - 2 \in Nat /\ (k - 2) + 1 <= l - 2
        BY <1>2, <1>6, <2>1, <3>1
      <3>4. ((k - 2) + 1) * ContBody <= (l - 2) * ContBody
        BY <1>0, <3>3, TimesAtLeast
      <3>5. ((k - 2) + 1) * ContBody = d + ContBody
        BY <1>0, <3>2, <3>1
      <3> QED
        BY <1>0, <2>2, <3>2, <3>4, <3>5
    <2> QED
      BY <2>3, <2>4
  <1>7. ASSUME NEW k \in 1..Len(fr)
        PROVE  /\ Owned(fr[k]) /\ CallOf(fr[k]) = q /\ fr[k].cid = c
               /\ Carries(fr[k], a.len, a.ok) /\ AtCut(PosOf(fr[k]))
    <2>1. CASE k = 1
      BY <1>3, <1>4, <2>1
    <2>2. CASE k # 1
      <3>1. k \in 2..Len(fr)
        BY <1>2, <2>2
      <3> QED
        BY <1>5, <3>1
    <2> QED
      BY <2>1, <2>2
  <1>8. ASSUME NEW k \in 1..Len(fr), PosOf(fr[k]) # 1
        PROVE  k - 1 \in 1..Len(fr) /\ PosOf(fr[k]) = After(fr[k - 1])
    <2>1. k \in 2..Len(fr) /\ k - 1 \in 1..Len(fr)
      BY <1>2, <1>3, <1>8
    <2>2. PICK e \in Nat : e = (k - 2) * ContBody /\ PosOf(fr[k]) = 1 + InitBody + e
      BY <1>5, <2>1
    <2>3. CASE k = 2
      <3>1. After(fr[1]) = 1 + InitBody
        BY <1>3 DEF After, Room
      <3>2. e = 0
        BY <1>0, <2>2, <2>3
      <3> QED
        BY <1>0, <2>1, <2>2, <2>3, <3>1, <3>2
    <2>4. CASE k # 2
      <3>1. k - 1 \in 2..Len(fr)
        BY <1>2, <2>1, <2>4
      <3>2. PICK d \in Nat : d = ((k - 1) - 2) * ContBody /\ PosOf(fr[k - 1]) = 1 + InitBody + d
        BY <1>5, <3>1
      <3>3. After(fr[k - 1]) = 1 + InitBody + d + ContBody
        BY <1>0, <3>2 DEF After, Room
      <3>4. e = d + ContBody
        <4>1. PICK x \in Nat : x = (k - 1) - 2 /\ k - 2 = x + 1
          BY <1>2, <3>1
        <4>2. (x + 1) * ContBody = x * ContBody + ContBody
          BY <1>0
        <4> QED
          BY <2>2, <3>2, <4>1, <4>2
      <3> QED
        BY <1>0, <2>1, <2>2, <3>2, <3>3, <3>4
    <2> QED
      BY <2>3, <2>4
  <1> QED
    BY <1>6, <1>7, <1>8

\* A message of at most one byte, which belongs to no call, is one packet.
LEMMA FramesOfNotice ==
    ASSUME NEW msg \in Seq(Byte), Len(msg) <= 1, msg # << >> => msg[1][1] = 0,
           NEW c, NEW cmd, NEW fr, fr = Frames(c, cmd, msg)
    PROVE  /\ Len(fr) = 1 /\ ~Owned(fr[1]) /\ fr[1].cid = c /\ fr[1].tag = cmd
           /\ fr[1].len = Len(msg) /\ Len(fr[1].body) = InitBody
  <1>0. InitBody \in Nat \ {0} /\ Len(msg) \in Nat
    BY CtapHidAssumption
  <1>1. Len(fr) = 1 /\ fr[1] = Packet(c, cmd, Len(msg), Padded(msg, InitBody))
    <2>1. Len(msg) <= InitBody
      BY <1>0
    <2> QED
      BY <2>1, FramesProperties
  <1>2. PICK b \in Seq(Byte) : b = Padded(msg, InitBody)
    BY <1>0, PaddedProperties
  <1>3. Len(b) = InitBody /\ \A j \in 1..InitBody : b[j] = IF j <= Len(msg) THEN msg[j] ELSE Pad
    BY <1>0, <1>2, PaddedProperties
  <1>4. b[1][1] = 0
    <2>1. CASE msg = << >>
      BY <1>0, <1>3, <2>1 DEF Pad
    <2>2. CASE msg # << >>
      BY <1>0, <1>3, <2>2
    <2> QED
      BY <2>1, <2>2
  <1> QED
    BY <1>1, <1>2, <1>3, <1>4 DEF Packet, Owned, CallOf

\* The packets of a message about call q on channel c.
IsMessage(fr, q, c) ==
    /\ fr \in Seq(Reports)
    /\ \A k \in DOMAIN fr : fr[k].cid = c /\ (Owned(fr[k]) => CallOf(fr[k]) = q)
    /\ \A k, l \in DOMAIN fr : k < l => Owned(fr[k]) /\ Owned(fr[l]) /\ Before(fr[k], fr[l])

\* A packet on the way that belongs to a call is no keep-alive.
LEMMA OwnedIsData ==
    ASSUME NEW p, IsOnWay(p), Owned(p)
    PROVE  IsAnswer(p) /\ p.tag # CmdKeepAlive /\ p.tag # CmdError
  <1>1. IsAnswer(p)
    BY ForeignNotOwned DEF IsOnWay
  <1>2. p.tag = CommandOn(p.cid) \/ p.tag \in 0..(SeqSpace - 1)
    BY <1>1 DEF IsAnswer, Carries
  <1>3. p.tag \in 0..(SeqSpace - 1) => p.tag \notin Commands
    BY NumbersAreNotCommands
  <1> QED
    BY <1>1, <1>2, <1>3
       DEF Commands, CommandOn, CmdInit, CmdCBOR, CmdKeepAlive, CmdError

\* What a message of the authenticator adds, and to what call it belongs.
LEMMA MessageAdded ==
    ASSUME TypeInv, Requests, AnswersInLine, DevKeepAlive \/ DevAnswer \/ DevError
    PROVE  /\ AnswersInLine' /\ dev.st = "work" /\ n' = n
           /\ \A q \in 1..n : given[q].sent => q < Asked /\ given'[q] = given[q]
           /\ \E fr \in Seq(Reports) :
                /\ IsMessage(fr, Asked, dev.cid) /\ Longer(Way', Way, fr)
                /\ \A k \in DOMAIN fr : fr[k].tag = CmdKeepAlive <=> dev'.st = "work"
  <1>1. /\ dev.st = "work" /\ n' = n /\ fromDev' = fromDev
    BY DEF DevKeepAlive, DevAnswer, DevError, client
  <1>2. PICK q, c : q = Asked /\ c = dev.cid
    OBVIOUS
  <1>3. /\ q \in 1..n /\ q \in Nat /\ q \in Calls /\ c \in 0..(q - 1) /\ dev.cmd = CommandOn(c)
        /\ c \in -1..MaxCalls /\ n \in Nat /\ 1..n \subseteq Calls /\ c \in 0..(n - 1)
    <2>1. q \in 1..n /\ q \in Nat /\ q \in Calls /\ n \in 0..MaxCalls
      BY <1>1, <1>2, WorkIsBehind DEF TypeInv, TypeOK, ClientTypeOK
    <2>2. c \in 0..(q - 1) /\ dev.cmd = CommandOn(c)
      BY <1>1, <1>2 DEF Requests, GatheredInOrder
    <2> QED
      BY <2>1, <2>2, CtapHidAssumption DEF Calls
  <1>4. given \in [Calls -> [len : 0..MaxLen, ok : BOOLEAN, sent : BOOLEAN]]
    BY DEF TypeInv, TypeOK, DeviceTypeOK
  <1>5. \A x \in 1..n : given[x].sent => x < q
    BY <1>1, <1>2, <1>3 DEF Requests, Unanswered
  <1>6. \A x \in 1..n : given[x].sent => given'[x] = given[x]
    <2>1. CASE DevKeepAlive \/ DevError
      BY <2>1 DEF DevKeepAlive, DevError
    <2>2. CASE DevAnswer
      <3>1. PICK a : given' = [given EXCEPT ![q] = a]
        BY <1>2, <2>2 DEF DevAnswer
      <3>2. ASSUME NEW x \in 1..n, given[x].sent PROVE given'[x] = given[x]
        <4>1. x # q /\ x \in Calls
          BY <1>3, <1>5, <3>2
        <4> QED
          BY <1>4, <3>1, <4>1
      <3> QED
        BY <3>2
    <2> QED
      BY <2>1, <2>2
  <1>7. ASSUME NEW p, ~Owned(p), p.cid = c, Len(p.body) = InitBody,
               \/ p.tag = CmdKeepAlive
               \/ p.tag = CmdError
               \/ p.tag = CommandOn(c) /\ p.len = 0
        PROVE  IsOnWay(p)'
    BY <1>1, <1>3, <1>7 DEF IsOnWay, IsNotice
  <1>8. \E fr : /\ IsMessage(fr, q, c) /\ devOut' = devOut \o fr
                /\ \A k \in DOMAIN fr : IsOnWay(fr[k])'
                /\ \A k \in DOMAIN fr : fr[k].tag = CmdKeepAlive <=> dev'.st = "work"
    <2>1. ASSUME NEW msg \in Seq(Byte), Len(msg) <= 1, msg # << >> => msg[1][1] = 0,
                 NEW cmd \in Int, devOut' = devOut \o Frames(c, cmd, msg),
                 \/ cmd \in {CmdKeepAlive, CmdError}
                 \/ cmd = CommandOn(c) /\ Len(msg) = 0,
                 cmd = CmdKeepAlive <=> dev'.st = "work"
          PROVE  \E fr : /\ IsMessage(fr, q, c) /\ devOut' = devOut \o fr
                         /\ \A k \in DOMAIN fr : IsOnWay(fr[k])'
                         /\ \A k \in DOMAIN fr : fr[k].tag = CmdKeepAlive <=> dev'.st = "work"
      <3>1. PICK fr : fr = Frames(c, cmd, msg)
        OBVIOUS
      <3>2. /\ Len(fr) = 1 /\ ~Owned(fr[1]) /\ fr[1].cid = c /\ fr[1].tag = cmd
            /\ fr[1].len = Len(msg) /\ Len(fr[1].body) = InitBody
        BY <2>1, <3>1, FramesOfNotice
      <3>3. fr \in Seq(Reports)
        <4>1. Len(msg) <= MaxLen
          BY <2>1, CtapHidAssumption
        <4> QED
          BY <1>3, <3>1, <4>1, FramesTyped
      <3>4. DOMAIN fr = 1..1
        BY <3>2, <3>3
      <3>5. IsMessage(fr, q, c)
        BY <3>2, <3>3, <3>4 DEF IsMessage
      <3>6. IsOnWay(fr[1])'
        <4>1. PICK p : p = fr[1]
          OBVIOUS
        <4>2. IsOnWay(p)'
          BY <1>7, <2>1, <3>2, <4>1
        <4> QED
          BY <4>1, <4>2
      <3>7. \A k \in DOMAIN fr : IsOnWay(fr[k])'
        BY <3>4, <3>6
      <3>8. \A k \in DOMAIN fr : fr[k].tag = CmdKeepAlive <=> dev'.st = "work"
        BY <2>1, <3>2, <3>4
      <3> QED
        BY <2>1, <3>1, <3>5, <3>7, <3>8
    <2>2. CASE DevKeepAlive
      <3>1. PICK s \in Statuses :
               devOut' = devOut \o Frames(c, CmdKeepAlive, <<<<0, s>>>>)
        BY <1>2, <2>2 DEF DevKeepAlive
      <3>2. dev'.st = "work"
        <4>1. dev' = [dev EXCEPT !.kas = @ + 1]
          BY <2>2 DEF DevKeepAlive
        <4>2. dev \in [st : {"idle", "gather", "work"}, cid : -1..MaxCalls, cmd : Int,
                       need : 0..MaxLen, got : Seq(Byte), seq : 0..(SeqSpace - 1),
                       kas : 0..MaxKeepAlives]
          BY DEF TypeInv, TypeOK, DeviceTypeOK
        <4> QED
          BY <1>1, <4>1, <4>2
      <3>3. <<<<0, s>>>> \in Seq(Byte)
        BY MessagesTyped
      <3>4. PICK msg \in Seq(Byte) : msg = <<<<0, s>>>>
        BY <3>3
      <3>5. Len(msg) <= 1 /\ msg[1][1] = 0
        BY <3>4
      <3>6. CmdKeepAlive \in Int
        BY DEF CmdKeepAlive
      <3> QED
        BY <2>1, <3>1, <3>2, <3>4, <3>5, <3>6
    <2>3. CASE DevError
      <3>1. devOut' = devOut \o Frames(c, CmdError, <<Pad>>) /\ dev'.st # "work"
        BY <1>2, <2>3 DEF DevError, Idle
      <3>2. <<Pad>> \in Seq(Byte)
        BY MessagesTyped
      <3>3. PICK msg \in Seq(Byte) : msg = <<Pad>>
        BY <3>2
      <3>5. Len(msg) <= 1 /\ msg[1][1] = 0
        BY <3>3 DEF Pad
      <3>4. CmdError \in Int /\ CmdError # CmdKeepAlive
        BY DEF CmdKeepAlive, CmdError
      <3> QED
        BY <2>1, <3>1, <3>3, <3>4, <3>5
    <2>4. CASE DevAnswer
      <3>1. PICK len, ok :
               /\ len \in IF dev.cmd = CmdInit THEN {InitLen} ELSE RespLens
               /\ ok \in IF dev.cmd = CmdInit THEN {TRUE} ELSE BOOLEAN
               /\ devOut' = devOut \o Frames(c, CommandOn(c),
                               AnswerBytes(q, [len |-> len, ok |-> ok, sent |-> TRUE]))
               /\ given' = [given EXCEPT ![q] = [len |-> len, ok |-> ok, sent |-> TRUE]]
        BY <1>2, <1>3, <2>4 DEF DevAnswer
      <3>2. PICK a : a = [len |-> len, ok |-> ok, sent |-> TRUE]
        OBVIOUS
      <3>3. a \in [len : 0..MaxLen, ok : BOOLEAN, sent : BOOLEAN] /\ a.sent
        <4>1. InitLen \in 0..MaxLen /\ RespLens \subseteq 0..MaxLen
          BY CtapHidAssumption
        <4>2. len \in 0..MaxLen
          BY <3>1, <4>1
        <4>3. ok \in BOOLEAN
          BY <3>1
        <4> QED
          BY <3>2, <4>2, <4>3
      <3>4. given'[q] = a
        BY <1>3, <1>4, <3>1, <3>2
      <3>5. dev'.st # "work"
        BY <2>4 DEF DevAnswer, Idle
      <3>6. CommandOn(c) \in Int /\ CommandOn(c) # CmdKeepAlive
        BY DEF CommandOn, CmdInit, CmdCBOR, CmdKeepAlive
      <3>7. PICK msg : msg = AnswerBytes(q, a)
        OBVIOUS
      <3>8. msg \in Seq(Byte) /\ Len(msg) = a.len /\ a.len \in Nat /\ a.len <= MaxLen
        <4>1. q \in 0..MaxCalls
          BY <1>3, CtapHidAssumption DEF Calls
        <4> QED
          BY <3>3, <3>7, <4>1, AnswerBytesAre
      <3>9. CASE a.len = 0
        <4>1. Len(msg) <= 1 /\ msg = << >>
          BY <3>8, <3>9
        <4> QED
          BY <2>1, <3>1, <3>2, <3>5, <3>6, <3>7, <3>8, <3>9, <4>1
      <3>10. CASE a.len # 0
        <4>1. PICK fr : fr = Frames(c, CommandOn(c), msg)
          OBVIOUS
        <4>2. fr \in Seq(Reports)
          BY <1>3, <3>6, <3>8, <4>1, FramesTyped
        <4>3. /\ \A k \in 1..Len(fr) :
                    /\ Owned(fr[k]) /\ CallOf(fr[k]) = q /\ fr[k].cid = c
                    /\ Carries(fr[k], a.len, a.ok) /\ AtCut(PosOf(fr[k]))
              /\ \A k, l \in 1..Len(fr) : k < l => PosOf(fr[k]) < PosOf(fr[l])
          BY <1>3, <3>3, <3>7, <3>10, <4>1, FramesOfAnswer
        <4>4. DOMAIN fr = 1..Len(fr)
          BY <4>2
        <4>5. IsMessage(fr, q, c)
          BY <4>2, <4>3, <4>4 DEF IsMessage, Before
        <4>6. ASSUME NEW k \in DOMAIN fr
              PROVE  IsOnWay(fr[k])' /\ fr[k].tag # CmdKeepAlive
          <5>1. PICK p : p = fr[k]
            OBVIOUS
          <5>2. /\ Owned(p) /\ CallOf(p) = q /\ p.cid = c
                /\ Carries(p, a.len, a.ok) /\ AtCut(PosOf(p))
            BY <4>3, <4>4, <5>1
          <5>3. IsAnswer(p)'
            BY <1>1, <1>3, <3>3, <3>4, <5>2 DEF IsAnswer
          <5>4. IsOnWay(p)'
            BY <5>2, <5>3 DEF IsOnWay
          <5>5. p.tag # CmdKeepAlive
            <6>1. p.tag = CommandOn(p.cid) \/ p.tag \in 0..(SeqSpace - 1)
              BY <5>2 DEF Carries
            <6>2. p.tag \in 0..(SeqSpace - 1) => p.tag # CmdKeepAlive
              BY NumbersAreNotCommands DEF Commands
            <6> QED
              BY <3>6, <5>2, <6>1, <6>2
          <5> QED
            BY <5>1, <5>4, <5>5
        <4> QED
          BY <3>1, <3>2, <3>5, <3>7, <4>1, <4>5, <4>6
      <3> QED
        BY <3>9, <3>10
    <2> QED
      BY <2>2, <2>3, <2>4
  <1>9. PICK fr : /\ IsMessage(fr, q, c) /\ devOut' = devOut \o fr
                  /\ \A k \in DOMAIN fr : IsOnWay(fr[k])'
                  /\ \A k \in DOMAIN fr : fr[k].tag = CmdKeepAlive <=> dev'.st = "work"
    BY <1>8
  <1>10. /\ fr \in Seq(Reports)
         /\ \A k \in DOMAIN fr : Owned(fr[k]) => CallOf(fr[k]) = q
         /\ \A k, l \in DOMAIN fr : k < l => Before(fr[k], fr[l])
    BY <1>9 DEF IsMessage
  <1>11. AnswersInLine' /\ Longer(Way', Way, fr)
    BY <1>1, <1>3, <1>5, <1>6, <1>9, <1>10, AnswersAdded
  <1> QED
    BY <1>1, <1>2, <1>5, <1>6, <1>9, <1>10, <1>11

-----------------------------------------------------------------------------
(* What readResponse makes of them *)

\* An answer's packet, with the numbers that say where it belongs.
LEMMA AnswerIs ==
    ASSUME TypeInv, NEW p, IsOnWay(p), Owned(p)
    PROVE  /\ IsAnswer(p) /\ CallOf(p) \in 1..n /\ CallOf(p) \in Calls /\ n \in Nat
           /\ given[CallOf(p)] \in [len : 0..MaxLen, ok : BOOLEAN, sent : BOOLEAN]
           /\ given[CallOf(p)].sent /\ given[CallOf(p)].len \in Nat
           /\ PosOf(p) \in Nat \ {0} /\ PosOf(p) <= given[CallOf(p)].len
           /\ AtCut(PosOf(p)) /\ Room(PosOf(p)) \in Nat \ {0}
           /\ p.cid \in 0..(CallOf(p) - 1)
           /\ Len(p.body) = Room(PosOf(p))
           /\ \A j \in 1..Room(PosOf(p)) : PosOf(p) + j - 1 <= given[CallOf(p)].len =>
                 p.body[j] = ByteOf(CallOf(p), given[CallOf(p)].ok, PosOf(p) + j - 1)
           /\ PosOf(p) = 1 => p.tag = CommandOn(p.cid) /\ p.len = given[CallOf(p)].len
           /\ PosOf(p) # 1 => p.tag \in 0..(SeqSpace - 1) /\ p.tag \notin Commands
  <1>1. IsAnswer(p)
    BY OwnedIsData
  <1>2. n \in 0..MaxCalls /\ MaxCalls \in Nat /\ MaxLen \in Nat
    BY CtapHidAssumption DEF TypeInv, TypeOK, ClientTypeOK
  <1>3. CallOf(p) \in 1..n /\ CallOf(p) \in Calls /\ n \in Nat
    BY <1>1, <1>2 DEF IsAnswer, Calls
  <1>4. /\ given[CallOf(p)] \in [len : 0..MaxLen, ok : BOOLEAN, sent : BOOLEAN]
        /\ given[CallOf(p)].len \in Nat
    <2>1. given[CallOf(p)] \in [len : 0..MaxLen, ok : BOOLEAN, sent : BOOLEAN]
      BY <1>3 DEF TypeInv, TypeOK, DeviceTypeOK
    <2> QED
      BY <1>2, <2>1
  <1>5. Carries(p, given[CallOf(p)].len, given[CallOf(p)].ok)
    BY <1>1 DEF IsAnswer
  <1>6. PosOf(p) \in 1..given[CallOf(p)].len
    BY <1>5 DEF Carries
  <1>7. PosOf(p) \in Nat \ {0} /\ PosOf(p) <= given[CallOf(p)].len
    BY <1>4, <1>6
  <1>8. Room(PosOf(p)) \in Nat \ {0}
    BY CtapHidAssumption DEF Room
  <1>9. PosOf(p) # 1 => p.tag \in 0..(SeqSpace - 1) /\ p.tag \notin Commands
    BY <1>5, NumbersAreNotCommands DEF Carries
  <1>10. /\ Len(p.body) = Room(PosOf(p))
         /\ \A j \in 1..Room(PosOf(p)) : PosOf(p) + j - 1 <= given[CallOf(p)].len =>
                 p.body[j] = ByteOf(CallOf(p), given[CallOf(p)].ok, PosOf(p) + j - 1)
         /\ PosOf(p) = 1 => p.tag = CommandOn(p.cid) /\ p.len = given[CallOf(p)].len
    BY <1>5 DEF Carries
  <1>11. given[CallOf(p)].sent /\ p.cid \in 0..(CallOf(p) - 1) /\ AtCut(PosOf(p))
    BY <1>1 DEF IsAnswer
  <1> QED
    BY <1>1, <1>3, <1>4, <1>7, <1>8, <1>9, <1>10, <1>11

\* A later packet of the same answer starts where this one ends, or after.
LEMMA Behind ==
    ASSUME TypeInv, NEW p, IsOnWay(p), Owned(p), NEW q, IsOnWay(q), Owned(q),
           Before(p, q)
    PROVE  /\ CallOf(p) <= CallOf(q)
           /\ CallOf(p) = CallOf(q) => PosOf(p) + Room(PosOf(p)) <= PosOf(q)
  <1>1. /\ CallOf(p) \in 1..n /\ CallOf(q) \in 1..n /\ n \in Nat
        /\ PosOf(p) \in Nat \ {0} /\ PosOf(q) \in Nat \ {0}
        /\ AtCut(PosOf(p)) /\ AtCut(PosOf(q))
    BY AnswerIs
  <1>2. \/ CallOf(p) < CallOf(q)
        \/ CallOf(p) = CallOf(q) /\ PosOf(p) < PosOf(q)
    BY DEF Before
  <1>3. PosOf(p) < PosOf(q) => PosOf(p) + Room(PosOf(p)) <= PosOf(q)
    BY <1>1, CutApart
  <1> QED
    BY <1>1, <1>2, <1>3

\* Read takes the first of the reports on the way.
LEMMA HeadOfWay ==
    ASSUME TypeInv, Reads
    PROVE  /\ 1 \in DOMAIN Way /\ Report = Way[1] /\ Report \in Reports
           /\ n' = n /\ given' = given /\ toDev' = toDev /\ dev' = dev
           /\ \A k \in DOMAIN Way' :
                 /\ k \in Nat /\ k + 1 \in DOMAIN Way /\ 1 < k + 1
                 /\ Way'[k] = Way[k + 1]
  <1>1. PICK f \in Seq(Reports), d \in Seq(Reports) : f = fromDev /\ d = devOut
    BY DEF TypeInv, TypeOK, DeviceTypeOK
  <1>2. f # << >> /\ fromDev' = Tail(f) /\ devOut' = d
    BY <1>1 DEF Reads, authenticator
  <1>3. PICK m \in Nat, l \in Nat, x \in Nat : m = Len(f) /\ l = Len(d) /\ m = x + 1
    <2>1. Len(f) - 1 \in Nat /\ Len(f) = (Len(f) - 1) + 1 /\ Len(f) \in Nat /\ Len(d) \in Nat
      BY <1>2
    <2> QED
      BY <2>1
  <1>4. PICK g : g = Tail(f)
    OBVIOUS
  <1>5. /\ g \in Seq(Reports) /\ Len(g) = x /\ (\A k \in 1..x : g[k] = f[k + 1])
        /\ Head(f) = f[1] /\ f[1] \in Reports
    BY <1>2, <1>3, <1>4, Shorter, ZenonT(60)
  <1>6. PICK old, new : old = Way /\ new = Way' /\ old = f \o d /\ new = g \o d
    BY <1>1, <1>2, <1>4 DEF Way
  <1>7. Halves(old, f, m, d, l)
    BY <1>3, <1>6, ConcatHalves
  <1>8. Halves(new, g, x, d, l)
    BY <1>3, <1>5, <1>6, ConcatHalves
  <1>9. 1 \in DOMAIN old /\ old[1] = f[1]
    BY <1>3, <1>7 DEF Halves
  <1>10. ASSUME NEW k \in DOMAIN new
         PROVE  k \in Nat /\ k + 1 \in DOMAIN old /\ 1 < k + 1 /\ new[k] = old[k + 1]
    <2>1. k \in 1..(x + l)
      BY <1>8 DEF Halves
    <2>2. /\ k \in Nat /\ 1 < k + 1 /\ k + 1 \in 1..(m + l)
          /\ (k <= x <=> k + 1 <= m) /\ k + 1 - m = k - x
      BY <1>3, <2>1
    <2>3. CASE k <= x
      <3>1. new[k] = g[k] /\ g[k] = f[k + 1] /\ old[k + 1] = f[k + 1]
        BY <1>5, <1>7, <1>8, <2>1, <2>2, <2>3 DEF Halves
      <3> QED
        BY <1>7, <2>2, <3>1 DEF Halves
    <2>4. CASE ~(k <= x)
      <3>1. new[k] = d[k - x]
        BY <1>8, <2>1, <2>4 DEF Halves
      <3>2. old[k + 1] = d[k + 1 - m]
        BY <1>7, <2>2, <2>4 DEF Halves
      <3> QED
        BY <1>7, <2>2, <3>1, <3>2 DEF Halves
    <2> QED
      BY <2>3, <2>4
  <1>11. Report = f[1]
    BY <1>1, <1>5 DEF Report
  <1> QED
    BY <1>5, <1>6, <1>9, <1>10, <1>11 DEF Reads, authenticator

\* ... and everything left is behind it.
LEMMA LeftOnWay ==
    ASSUME TypeInv, AnswersInLine, Reads, NEW p, p = Report
    PROVE  /\ IsOnWay(p)
           /\ \A k \in DOMAIN Way' : IsOnWay(Way'[k]) /\ Before(p, Way'[k])
  <1>1. /\ 1 \in DOMAIN Way /\ p = Way[1]
        /\ \A k \in DOMAIN Way' :
              /\ k \in Nat /\ k + 1 \in DOMAIN Way /\ 1 < k + 1
              /\ Way'[k] = Way[k + 1]
    BY HeadOfWay
  <1>2. /\ \A k \in DOMAIN Way : IsOnWay(Way[k])
        /\ \A k, l \in DOMAIN Way : k < l => Before(Way[k], Way[l])
    BY DEF AnswersInLine
  <1>3. IsOnWay(p)
    BY <1>1, <1>2
  <1>4. ASSUME NEW k \in DOMAIN Way'
        PROVE  IsOnWay(Way'[k]) /\ Before(p, Way'[k])
    <2>1. PICK i \in DOMAIN Way : 1 < i /\ Way'[k] = Way[i]
      BY <1>1
    <2>2. IsOnWay(Way[i]) /\ Before(Way[1], Way[i])
      BY <1>1, <1>2, <2>1
    <2> QED
      BY <1>1, <2>1, <2>2
  <1> QED
    BY <1>3, <1>4

\* A first packet of an answer is the beginning of it.
LEMMA OwnFirst ==
    ASSUME TypeInv, AnswersInLine, Reads, NEW p, p = Report, p.tag = Cmd, Owned(p)
    PROVE  /\ CallOf(p) \in 1..n /\ given[CallOf(p)].sent /\ Len(p.body) = InitBody
           /\ p.len = given[CallOf(p)].len /\ p.len \in Nat
           /\ \A j \in 1..InitBody :
                 j <= p.len => p.body[j] = ByteOf(CallOf(p), given[CallOf(p)].ok, j)
           /\ \A k \in DOMAIN Way' : Owned(Way'[k]) =>
                 /\ CallOf(p) <= CallOf(Way'[k])
                 /\ CallOf(p) = CallOf(Way'[k]) => InitBody + 1 <= PosOf(Way'[k])
  <1>1. IsOnWay(p)
    BY LeftOnWay
  <1>2. PosOf(p) = 1
    <2>1. p.tag \in Commands
      BY DEF Cmd, Commands
    <2> QED
      BY <1>1, <2>1, AnswerIs
  <1>3. Room(1) = InitBody /\ InitBody \in Nat \ {0}
    BY CtapHidAssumption DEF Room
  <1>4. /\ CallOf(p) \in 1..n /\ given[CallOf(p)].sent /\ Len(p.body) = InitBody
        /\ p.len = given[CallOf(p)].len /\ p.len \in Nat
    BY <1>1, <1>2, <1>3, AnswerIs
  <1>5. ASSUME NEW j \in 1..InitBody, j <= p.len
        PROVE  p.body[j] = ByteOf(CallOf(p), given[CallOf(p)].ok, j)
    <2>1. 1 + j - 1 = j
      OBVIOUS
    <2>2. \A i \in 1..InitBody : 1 + i - 1 <= given[CallOf(p)].len =>
                 p.body[i] = ByteOf(CallOf(p), given[CallOf(p)].ok, 1 + i - 1)
      BY <1>1, <1>2, <1>3, AnswerIs
    <2> QED
      BY <1>4, <1>5, <2>1, <2>2
  <1>6. ASSUME NEW k \in DOMAIN Way', Owned(Way'[k])
        PROVE  /\ CallOf(p) <= CallOf(Way'[k])
               /\ CallOf(p) = CallOf(Way'[k]) => InitBody + 1 <= PosOf(Way'[k])
    <2>1. PICK q : q = Way'[k]
      OBVIOUS
    <2>2. IsOnWay(q) /\ Before(p, q) /\ Owned(q)
      BY <1>6, <2>1, LeftOnWay
    <2>3. /\ CallOf(p) <= CallOf(q)
          /\ CallOf(p) = CallOf(q) => PosOf(p) + Room(PosOf(p)) <= PosOf(q)
      BY <1>1, <2>2, Behind
    <2>4. PosOf(q) \in Nat
      BY <2>2, AnswerIs
    <2> QED
      BY <1>2, <1>3, <2>1, <2>3, <2>4
  <1> QED
    BY <1>4, <1>5, <1>6

\* A continuation packet read after the beginning of the running call's answer
\* is a later part of it, the next one if its position says so.
LEMMA OwnNext ==
    ASSUME TypeInv, AnswersInLine, Receiving, Reads, rx.begun, rx.body[1][1] = n,
           NEW p, p = Report, SeqExpected(p), NEW m, m = Len(rx.body)
    PROVE  /\ m \in Nat /\ m >= InitBody /\ AtCut(m + 1 + ContBody)
           /\ given[n].sent /\ rx.expected = given[n].len
           /\ given[n] \in [len : 0..MaxLen, ok : BOOLEAN, sent : BOOLEAN]
           /\ Owned(p) /\ CallOf(p) = n /\ Len(p.body) = ContBody
           /\ PosOf(p) \in Nat /\ PosOf(p) <= given[n].len
           /\ \/ PosOf(p) = m + 1 /\ Exact
              \/ PosOf(p) >= m + 1 + ContBody
           /\ \A j \in 1..ContBody : PosOf(p) + j - 1 <= given[n].len =>
                 p.body[j] = ByteOf(n, given[n].ok, PosOf(p) + j - 1)
           /\ \A k \in DOMAIN Way' : Owned(Way'[k]) =>
                 /\ CallOf(Way'[k]) = n
                 /\ PosOf(p) + ContBody <= PosOf(Way'[k])
  <1>0. InitBody \in Nat \ {0} /\ ContBody \in Nat \ {0}
    BY CtapHidAssumption
  <1>1. /\ rx.body # << >> /\ given[n].sent /\ rx.expected = given[n].len
        /\ m >= InitBody /\ AtCut(m + 1)
        /\ \A k \in DOMAIN Way : Owned(Way[k]) =>
              /\ CallOf(Way[k]) = n /\ PosOf(Way[k]) > m
              /\ Exact \/ PosOf(Way[k]) > m + 1
    BY DEF Receiving
  <1>2. m \in Nat
    BY DEF TypeInv, TypeOK, ClientTypeOK
  <1>3. IsOnWay(p)
    BY LeftOnWay
  <1>4. p.tag \in 0..(SeqSpace - 1)
    <2>1. rx.seq \in Nat /\ SeqSpace \in Nat \ {0}
      <3>1. rx.seq \in 0..(2 * SeqSpace - 1)
        BY DEF TypeInv, TypeOK, ClientTypeOK
      <3> QED
        BY <3>1, CtapHidAssumption
    <2> QED
      BY <2>1 DEF SeqExpected
  <1>5. p.tag \notin Commands /\ p.tag # Runt
    BY <1>4, NumbersAreNotCommands
  <1>6. Owned(p)
    <2>1. p \notin ForeignReports
      BY <1>5, ForeignTyped DEF Commands
    <2>2. ~IsNotice(p)
      BY <1>5 DEF IsNotice, Commands, CommandOn
    <2> QED
      BY <1>3, <2>1, <2>2 DEF IsOnWay
  <1>7. CallOf(p) = n /\ PosOf(p) > m /\ (Exact \/ PosOf(p) > m + 1)
    BY <1>1, <1>6, HeadOfWay
  <1>8. PosOf(p) \in Nat \ {0} /\ AtCut(PosOf(p)) /\ PosOf(p) # 1 /\ PosOf(p) <= given[n].len
    BY <1>0, <1>1, <1>2, <1>3, <1>6, <1>7, AnswerIs
  <1>9. Room(PosOf(p)) = ContBody
    BY <1>8 DEF Room
  <1>10. /\ Len(p.body) = ContBody
         /\ given[n] \in [len : 0..MaxLen, ok : BOOLEAN, sent : BOOLEAN]
         /\ \A j \in 1..ContBody : PosOf(p) + j - 1 <= given[n].len =>
                 p.body[j] = ByteOf(n, given[n].ok, PosOf(p) + j - 1)
    BY <1>3, <1>6, <1>7, <1>9, AnswerIs
  <1>11. AtCut(m + 1 + ContBody)
    <2>1. m + 1 \in Nat \ {0} /\ m + 1 # 1
      BY <1>0, <1>1, <1>2
    <2>2. Room(m + 1) = ContBody
      BY <2>1 DEF Room
    <2>3. AtCut(m + 1 + Room(m + 1))
      BY <1>1, <2>1, CutNext
    <2> QED
      BY <2>2, <2>3
  <1>12. \/ PosOf(p) = m + 1 /\ Exact
         \/ PosOf(p) >= m + 1 + ContBody
    <2>1. m + 1 \in Nat \ {0} /\ m + 1 # 1
      BY <1>0, <1>1, <1>2
    <2>2. Room(m + 1) = ContBody
      BY <2>1 DEF Room
    <2>3. m + 1 < PosOf(p) => m + 1 + Room(m + 1) <= PosOf(p)
      BY <1>1, <1>8, <2>1, CutApart
    <2> QED
      BY <1>0, <1>2, <1>7, <1>8, <2>2, <2>3
  <1>13. ASSUME NEW k \in DOMAIN Way', Owned(Way'[k])
         PROVE  CallOf(Way'[k]) = n /\ PosOf(p) + ContBody <= PosOf(Way'[k])
    <2>1. PICK q : q = Way'[k]
      OBVIOUS
    <2>2. IsOnWay(q) /\ Before(p, q) /\ Owned(q)
      BY <1>13, <2>1, LeftOnWay
    <2>3. CallOf(q) = n
      BY <1>1, <1>13, <2>1, HeadOfWay
    <2>4. PosOf(p) + Room(PosOf(p)) <= PosOf(q)
      BY <1>3, <1>6, <1>7, <2>2, <2>3, Behind
    <2> QED
      BY <1>9, <2>1, <2>3, <2>4
  <1> QED
    BY <1>1, <1>2, <1>6, <1>7, <1>8, <1>10, <1>11, <1>12, <1>13

\* Steps that add nothing that belongs to a call.
LEMMA ReceivingKept ==
    ASSUME TypeInv, Receiving, n' = n, rx' = rx,
           \A q \in 1..n : given[q].sent => given'[q] = given[q],
           \A k \in DOMAIN Way' : Owned(Way'[k]) => \E i \in DOMAIN Way : Way'[k] = Way[i]
    PROVE  Receiving'
  <1> SUFFICES ASSUME rx.begun PROVE Receiving'
    BY DEF Receiving
  <1>1. rx.body # << >>
    BY DEF Receiving
  <1>2. CASE rx.body[1][1] # n
    BY <1>1, <1>2 DEF Receiving
  <1>3. CASE rx.body[1][1] = n
    <2>1. /\ given[n].sent /\ rx.expected = given[n].len /\ Len(rx.body) < rx.expected
          /\ Len(rx.body) >= InitBody /\ AtCut(Len(rx.body) + 1)
          /\ \A k \in DOMAIN Way : Owned(Way[k]) =>
                /\ CallOf(Way[k]) = n /\ PosOf(Way[k]) > Len(rx.body)
                /\ Exact \/ PosOf(Way[k]) > Len(rx.body) + 1
      BY <1>3 DEF Receiving
    <2>2. n \in 1..n
      <3>1. Running
        BY DEF TypeInv, History, Running
      <3> QED
        BY <3>1, RunningCall
    <2>3. given'[n] = given[n]
      BY <2>1, <2>2
    <2>4. Exact' <=> Exact
      BY <2>3 DEF Exact
    <2>5. ASSUME NEW k \in DOMAIN Way', Owned(Way'[k])
          PROVE  /\ CallOf(Way'[k]) = n' /\ PosOf(Way'[k]) > Len(rx'.body)
                 /\ Exact' \/ PosOf(Way'[k]) > Len(rx'.body) + 1
      BY <2>1, <2>4, <2>5
    <2>6. /\ given'[n'].sent /\ rx'.expected = given'[n'].len /\ Len(rx'.body) < rx'.expected
          /\ Len(rx'.body) >= InitBody /\ AtCut(Len(rx'.body) + 1)
      BY <2>1, <2>3
    <2> QED
      BY <1>1, <2>5, <2>6 DEF Receiving
  <1> QED
    BY <1>2, <1>3

\* The first packet of an answer of several.
LEMMA ReceivingBegins ==
    ASSUME TypeInv, AnswersInLine, Reads, NEW p, p = Report, p.tag = Cmd,
           OnOurChannel(p), Len(p.body) < p.len,
           rx' = [rx EXCEPT !.begun = TRUE, !.body = p.body, !.expected = p.len]
    PROVE  Receiving' /\ rx'.body = p.body /\ rx'.begun
  <1>0. InitBody \in Nat \ {0} /\ ContBody \in Nat \ {0}
    BY CtapHidAssumption
  <1>1. rx'.body = p.body /\ rx'.expected = p.len /\ rx'.begun
    BY DEF TypeInv, TypeOK, ClientTypeOK
  <1>2. n' = n /\ given' = given /\ p \in Reports
    BY HeadOfWay
  <1>3. p.body # << >>
    <2>1. IsOnWay(p)
      BY LeftOnWay
    <2>2. p.tag # Runt
      BY DEF Cmd, CmdInit, CmdCBOR, Runt
    <2>3. CASE p \in ForeignReports
      BY <2>2, <2>3, ForeignTyped
    <2>4. CASE Owned(p)
      BY <2>4 DEF Owned
    <2>5. CASE IsNotice(p)
      BY <1>0, <2>5 DEF IsNotice
    <2> QED
      BY <2>1, <2>3, <2>4, <2>5 DEF IsOnWay
  <1>4. CASE CallOf(p) # n
    BY <1>1, <1>2, <1>3, <1>4 DEF Receiving, CallOf
  <1>5. CASE CallOf(p) = n
    <2>1. n \in 1..n
      <3>1. Running
        BY DEF Reads, Running
      <3> QED
        BY <3>1, RunningCall
    <2>2. Owned(p)
      BY <1>3, <1>5, <2>1 DEF Owned
    <2>3. /\ given[n].sent /\ Len(p.body) = InitBody /\ p.len = given[n].len /\ p.len \in Nat
          /\ \A j \in 1..InitBody : j <= p.len => p.body[j] = ByteOf(n, given[n].ok, j)
          /\ \A k \in DOMAIN Way' : Owned(Way'[k]) =>
                /\ n <= CallOf(Way'[k])
                /\ n = CallOf(Way'[k]) => InitBody + 1 <= PosOf(Way'[k])
      BY <1>5, <2>2, OwnFirst
    <2>4. AtCut(InitBody + 1)
      <3>1. AtCut(1) /\ 1 \in Nat \ {0} /\ Room(1) = InitBody
        BY DEF AtCut, Room
      <3>2. AtCut(1 + Room(1))
        BY <3>1, CutNext
      <3>3. 1 + InitBody = InitBody + 1
        BY <1>0
      <3> QED
        BY <3>1, <3>2, <3>3
    <2>5. Exact'
      <3>1. \A j \in 1..InitBody : p.body[j] = ByteOf(n, given[n].ok, j)
        BY <1>0, <2>3
      <3> QED
        BY <1>1, <1>2, <2>3, <3>1 DEF Exact
    <2>6. ASSUME NEW k \in DOMAIN Way', Owned(Way'[k])
          PROVE  CallOf(Way'[k]) = n /\ PosOf(Way'[k]) > InitBody
      <3>1. PICK q : q = Way'[k]
        OBVIOUS
      <3>2. IsOnWay(q) /\ Owned(q)
        BY <2>6, <3>1, LeftOnWay
      <3>3. CallOf(q) \in 1..n /\ PosOf(q) \in Nat /\ n \in Nat
        BY <3>2, AnswerIs
      <3>4. n <= CallOf(q) /\ (n = CallOf(q) => InitBody + 1 <= PosOf(q))
        BY <2>3, <2>6, <3>1
      <3> QED
        BY <1>0, <3>1, <3>3, <3>4
    <2>7. \A k \in DOMAIN Way' : Owned(Way'[k]) =>
             /\ CallOf(Way'[k]) = n' /\ PosOf(Way'[k]) > Len(rx'.body)
             /\ Exact' \/ PosOf(Way'[k]) > Len(rx'.body) + 1
      BY <1>1, <1>2, <2>3, <2>5, <2>6
    <2>8. /\ given'[n'].sent /\ rx'.expected = given'[n'].len /\ Len(rx'.body) < rx'.expected
          /\ Len(rx'.body) >= InitBody /\ AtCut(Len(rx'.body) + 1)
      BY <1>0, <1>1, <1>2, <2>3, <2>4
    <2> QED
      BY <1>1, <1>3, <2>7, <2>8 DEF Receiving
  <1> QED
    BY <1>1, <1>4, <1>5

\* A continuation packet that is not the last.
LEMMA ReceivingGoesOn ==
    ASSUME TypeInv, AnswersInLine, Receiving, Reads, rx.begun,
           NEW p, p = Report, SeqExpected(p),
           NEW b \in Seq(Byte), b = rx.body \o p.body, Len(b) < rx.expected,
           rx'.begun, rx'.body = b, rx'.expected = rx.expected
    PROVE  Receiving' /\ b[1] = rx.body[1]
  <1>0. InitBody \in Nat \ {0} /\ ContBody \in Nat \ {0}
    BY CtapHidAssumption
  <1>1. n' = n /\ given' = given /\ p \in Reports
    BY HeadOfWay
  <1>2. PICK r \in Seq(Byte) : r = rx.body
    BY DEF TypeInv, TypeOK, ClientTypeOK
  <1>3. PICK f \in Seq(Byte) : f = p.body
    BY <1>1 DEF Reports
  <1>4. PICK m \in Nat : m = Len(r)
    BY <1>2
  <1>5. /\ Len(b) = m + Len(f)
        /\ \A j \in 1..m : b[j] = r[j]
        /\ \A j \in 1..Len(f) : b[m + j] = f[j]
    <2>1. /\ Len(r \o f) = Len(r) + Len(f)
          /\ \A j \in 1..Len(r) : (r \o f)[j] = r[j]
          /\ \A j \in 1..Len(f) : (r \o f)[Len(r) + j] = f[j]
      BY Joined
    <2>2. b = r \o f
      BY <1>2, <1>3
    <2> QED
      BY <1>4, <2>1, <2>2, Zenon
  <1>6. r # << >>
    BY <1>2 DEF Receiving
  <1>7. b # << >> /\ b[1] = r[1]
    <2>1. m >= 1 /\ Len(f) \in Nat
      BY <1>4, <1>6
    <2>2. 1 \in 1..m /\ Len(b) >= 1
      BY <1>5, <2>1
    <2> QED
      <3>1. b[1] = r[1]
        BY <1>5, <2>2
      <3>2. b # << >>
        BY <2>2, NotEmpty
      <3> QED
        BY <3>1, <3>2
  <1>8. CASE r[1][1] # n
    BY <1>1, <1>2, <1>7, <1>8 DEF Receiving
  <1>9. CASE r[1][1] = n
    <2>1. /\ m >= InitBody /\ AtCut(m + 1 + ContBody)
          /\ given[n].sent /\ rx.expected = given[n].len
          /\ given[n] \in [len : 0..MaxLen, ok : BOOLEAN, sent : BOOLEAN]
          /\ Len(p.body) = ContBody
          /\ PosOf(p) \in Nat /\ PosOf(p) <= given[n].len
          /\ \/ PosOf(p) = m + 1 /\ Exact
             \/ PosOf(p) >= m + 1 + ContBody
          /\ \A j \in 1..ContBody : PosOf(p) + j - 1 <= given[n].len =>
                p.body[j] = ByteOf(n, given[n].ok, PosOf(p) + j - 1)
          /\ \A k \in DOMAIN Way' : Owned(Way'[k]) =>
                /\ CallOf(Way'[k]) = n
                /\ PosOf(p) + ContBody <= PosOf(Way'[k])
      BY <1>2, <1>4, <1>9, OwnNext
    <2>2. Len(b) = m + ContBody /\ Len(b) \in Nat /\ m + ContBody < given[n].len
          /\ given[n].len \in Nat
      BY <1>0, <1>3, <1>5, <2>1, CtapHidAssumption
    <2>3. /\ given'[n'].sent /\ rx'.expected = given'[n'].len /\ Len(rx'.body) < rx'.expected
          /\ Len(rx'.body) >= InitBody
      BY <1>0, <1>1, <2>1, <2>2
    <2>4. AtCut(Len(rx'.body) + 1)
      <3>1. Len(rx'.body) + 1 = m + 1 + ContBody
        BY <1>0, <2>2
      <3> QED
        BY <2>1, <3>1
    <2>7. rx'.body # << >>
      BY <1>7
    <2>5. CASE PosOf(p) = m + 1 /\ Exact
      <3>1. ASSUME NEW j \in 1..Len(b)
            PROVE  b[j] = ByteOf(n, given[n].ok, j)
        <4>1. CASE j <= m
          <5>1. j \in 1..m
            BY <4>1
          <5>2. b[j] = r[j] /\ r[j] = ByteOf(n, given[n].ok, j)
            BY <1>2, <1>4, <1>5, <2>5, <5>1 DEF Exact
          <5> QED
            BY <5>2
        <4>2. CASE ~(j <= m)
          <5>1. PICK i \in 1..ContBody : j = m + i
            <6>1. j - m \in 1..ContBody /\ j = m + (j - m)
              BY <1>0, <2>2, <4>2
            <6> QED
              BY <6>1
          <5>2. PosOf(p) + i - 1 = j /\ j <= given[n].len
            BY <1>0, <2>2, <2>5, <5>1
          <5>3. p.body[i] = ByteOf(n, given[n].ok, j)
            BY <2>1, <5>2
          <5>4. b[j] = p.body[i]
            BY <1>3, <1>5, <2>1, <5>1
          <5> QED
            BY <5>3, <5>4
        <4> QED
          BY <4>1, <4>2
      <3>2. Exact'
        BY <1>1, <3>1 DEF Exact
      <3>3. ASSUME NEW k \in DOMAIN Way', Owned(Way'[k])
            PROVE  CallOf(Way'[k]) = n' /\ PosOf(Way'[k]) > Len(rx'.body)
        <4>1. PICK q : q = Way'[k]
          OBVIOUS
        <4>2. PosOf(q) \in Nat
          BY <3>3, <4>1, LeftOnWay, AnswerIs
        <4>3. CallOf(q) = n /\ PosOf(p) + ContBody <= PosOf(q)
          BY <2>1, <3>3, <4>1
        <4>4. PosOf(q) > m + ContBody
          BY <1>0, <2>5, <4>2, <4>3
        <4> QED
          BY <1>1, <2>2, <4>1, <4>3, <4>4
      <3>4. \A k \in DOMAIN Way' : Owned(Way'[k]) =>
               /\ CallOf(Way'[k]) = n' /\ PosOf(Way'[k]) > Len(rx'.body)
               /\ Exact' \/ PosOf(Way'[k]) > Len(rx'.body) + 1
        BY <3>2, <3>3
      <3> QED
        BY <1>2, <1>7, <2>3, <2>4, <2>7, <3>4 DEF Receiving
    <2>6. CASE PosOf(p) >= m + 1 + ContBody
      <3>1. ASSUME NEW k \in DOMAIN Way', Owned(Way'[k])
            PROVE  CallOf(Way'[k]) = n' /\ PosOf(Way'[k]) > Len(rx'.body) + 1
        <4>1. PICK q : q = Way'[k]
          OBVIOUS
        <4>2. PosOf(q) \in Nat
          BY <3>1, <4>1, LeftOnWay, AnswerIs
        <4>3. CallOf(q) = n /\ PosOf(p) + ContBody <= PosOf(q)
          BY <2>1, <3>1, <4>1
        <4>4. PosOf(q) > m + ContBody + 1
          BY <1>0, <2>1, <2>6, <4>2, <4>3
        <4> QED
          BY <1>1, <2>2, <4>1, <4>3, <4>4
      <3>2. ASSUME NEW k \in DOMAIN Way', Owned(Way'[k])
            PROVE  PosOf(Way'[k]) > Len(rx'.body)
        <4>1. PICK q : q = Way'[k]
          OBVIOUS
        <4>2. PosOf(q) \in Nat
          BY <3>2, <4>1, LeftOnWay, AnswerIs
        <4>3. PosOf(q) > Len(b) + 1
          BY <3>1, <3>2, <4>1
        <4>4. PosOf(q) > Len(b)
          BY <2>2, <4>2, <4>3
        <4> QED
          BY <4>1, <4>4
      <3>3. \A k \in DOMAIN Way' : Owned(Way'[k]) =>
               /\ CallOf(Way'[k]) = n' /\ PosOf(Way'[k]) > Len(rx'.body)
               /\ Exact' \/ PosOf(Way'[k]) > Len(rx'.body) + 1
        BY <3>1, <3>2
      <3> QED
        BY <1>2, <1>7, <2>3, <2>4, <2>7, <3>3 DEF Receiving
    <2> QED
      BY <2>1, <2>5, <2>6
  <1> QED
    BY <1>2, <1>7, <1>8, <1>9

LEMMA ReceivedEnds ==
    ASSUME NEW body, NEW expected, Received(body, expected)
    PROVE  rx' = NoRx
  BY DEF Received, ReturnInit, ReturnCBOR, Fail, Return

LEMMA ReceivingStep ==
    TypeInv /\ Requests /\ AnswersInLine /\ Receiving /\ [Next]_vars => Receiving'
  <1> SUFFICES ASSUME TypeInv, Requests, AnswersInLine, Receiving, [Next]_vars
               PROVE  Receiving'
    OBVIOUS
  <1>1. CASE ~rx'.begun
    BY <1>1 DEF Receiving
  <1>2. rx.begun => pc = "recv"
    BY DEF TypeInv, History
  <1>3. rx' = NoRx => ~rx'.begun
    BY DEF NoRx
  <1>4. CASE DevKeepAlive \/ DevAnswer \/ DevError
    <2>1. rx' = rx /\ n' = n
      BY <1>4 DEF DevKeepAlive, DevAnswer, DevError, client
    <2>2. /\ dev.st = "work"
          /\ \A q \in 1..n : given[q].sent => q < Asked
      BY <1>4, MessageAdded
    <2>3. ~(rx.begun /\ rx.body[1][1] = n)
      <3> SUFFICES ASSUME rx.begun, rx.body[1][1] = n PROVE FALSE
        OBVIOUS
      <3>1. given[n].sent
        BY DEF Receiving
      <3>2. n \in 1..n /\ n \in Nat
        BY <1>2, RunningCall DEF Running
      <3>3. Asked \in 1..n /\ Asked \in Nat
        BY <2>2, WorkIsBehind
      <3> QED
        BY <2>2, <3>1, <3>2, <3>3
    <2> QED
      BY <2>1, <2>3 DEF Receiving
  <1>5. CASE DevTake \/ DevEmit \/ ForeignReport \/ Unplug \/ UNCHANGED vars
    <2>1. rx' = rx /\ n' = n /\ given' = given
      BY <1>5 DEF DevTake, DevEmit, ForeignReport, Unplug, vars, client, authenticator
    <2>2. CASE DevKeepAlive \/ DevAnswer \/ DevError
      BY <1>4, <2>2
    <2>3. CASE ~(DevKeepAlive \/ DevAnswer \/ DevError)
      <3>1. Thinner(Way', Way)
        BY <2>3, WayThinner
      <3>2. \A k \in DOMAIN Way' : Owned(Way'[k]) => \E i \in DOMAIN Way : Way'[k] = Way[i]
        BY <3>1, ForeignNotOwned DEF Thinner
      <3> QED
        BY <2>1, <3>2, ReceivingKept
    <2> QED
      BY <2>2, <2>3
  <1>6. CASE StartCall \/ SendPacket \/ Reopen
    <2>1. rx' = rx /\ pc # "recv"
      BY <1>6 DEF StartCall, SendPacket, Reopen
    <2> QED
      BY <1>1, <1>2, <2>1
  <1>7. CASE RequestTooLong \/ WriteFails \/ ReadFails \/ ReadRefused \/ ReadError
    <2>1. rx' = NoRx
      BY <1>7 DEF RequestTooLong, WriteFails, ReadFails, ReadRefused, ReadError, Fail, Return
    <2> QED
      BY <1>1, <1>3, <2>1
  <1>8. CASE ReadKeepAlive
    <2>1. ~rx.begun
      BY <1>8 DEF ReadKeepAlive, IsKeepAlive
    <2>2. rx' = rx \/ \E s : rx' = [rx EXCEPT !.lastKA = s]
      BY <1>8 DEF ReadKeepAlive
    <2>3. ~rx'.begun
      BY <2>1, <2>2 DEF TypeInv, TypeOK, ClientTypeOK
    <2> QED
      BY <1>1, <2>3
  <1>9. CASE ReadFirst
    <2>1. PICK p : p = Report /\ Reads /\ OnOurChannel(p) /\ p.tag = Cmd
      BY <1>9 DEF ReadFirst
    <2>2. CASE Received(p.body, p.len)
      BY <1>1, <1>3, <2>2, ReceivedEnds
    <2>3. CASE /\ Len(p.body) < p.len
               /\ rx' = [rx EXCEPT !.begun = TRUE, !.body = p.body, !.expected = p.len]
      BY <2>1, <2>3, ReceivingBegins
    <2> QED
      BY <1>9, <2>1, <2>2, <2>3 DEF ReadFirst
  <1>10. CASE ReadContinuation
    <2>1. PICK p : p = Report /\ Reads /\ OnOurChannel(p) /\ SeqExpected(p) /\ rx.begun
      BY <1>10 DEF ReadContinuation
    <2>2. PICK b \in Seq(Byte) : b = rx.body \o p.body
      <3>1. rx.body \in Seq(Byte) /\ p.body \in Seq(Byte)
        BY <2>1, HeadOfWay DEF TypeInv, TypeOK, ClientTypeOK, Reports
      <3>2. rx.body \o p.body \in Seq(Byte)
        BY <3>1, Joined
      <3> QED
        BY <3>2
    <2>3. CASE Received(b, rx.expected)
      BY <1>1, <1>3, <2>3, ReceivedEnds
    <2>4. CASE /\ Len(b) < rx.expected
               /\ rx' = [rx EXCEPT !.body = @ \o p.body, !.seq = NextByte(@)]
      <3>1. rx'.begun /\ rx'.body = b /\ rx'.expected = rx.expected
        BY <2>1, <2>2, <2>4 DEF TypeInv, TypeOK, ClientTypeOK
      <3> QED
        BY <2>1, <2>2, <2>4, <3>1, ReceivingGoesOn
    <2> QED
      BY <1>10, <2>1, <2>2, <2>3, <2>4 DEF ReadContinuation
  <1> QED
    BY <1>4, <1>5, <1>6, <1>7, <1>8, <1>9, <1>10 DEF Next

\* When the loop of readResponse ends with bytes that begin as the running
\* call's answer does, they are that answer.
LEMMA CompletedIs ==
    ASSUME TypeInv, AnswersInLine, Receiving, Reads, NEW p, p = Report,
           NEW body \in Seq(Byte), NEW expected,
           \/ p.tag = Cmd /\ body = p.body /\ expected = p.len
           \/ rx.begun /\ SeqExpected(p) /\ body = rx.body \o p.body /\ expected = rx.expected,
           NEW answer \in Seq(Byte), Len(body) >= expected, Len(answer) = expected,
           \A j \in 1..expected : answer[j] = body[j],
           answer # << >>, answer[1][1] = n
    PROVE  /\ given[n].sent /\ answer = AnswerBytes(n, given[n])
           /\ answer[1] = ByteOf(n, given[n].ok, 1)
           /\ n \in Calls /\ given[n] \in [len : 0..MaxLen, ok : BOOLEAN, sent : BOOLEAN]
           /\ \A k \in DOMAIN Way' : Owned(Way'[k]) => CallOf(Way'[k]) # n
  <1>0. InitBody \in Nat \ {0} /\ ContBody \in Nat \ {0}
    BY CtapHidAssumption
  <1>1. n \in 1..n /\ n \in Calls /\ n \in Nat /\ n \in 0..MaxCalls
    <2>1. Running
      BY DEF Reads, Running
    <2> QED
      BY <2>1, RunningCall DEF TypeInv, TypeOK, ClientTypeOK
  <1>2. given[n] \in [len : 0..MaxLen, ok : BOOLEAN, sent : BOOLEAN] /\ given[n].len \in Nat
    <2>1. given[n] \in [len : 0..MaxLen, ok : BOOLEAN, sent : BOOLEAN]
      BY <1>1 DEF TypeInv, TypeOK, DeviceTypeOK
    <2> QED
      BY <2>1, CtapHidAssumption
  <1>3. expected \in Nat /\ expected >= 1 /\ 1 \in 1..expected
    <2>1. Len(answer) \in Nat /\ Len(answer) # 0
      OBVIOUS
    <2> QED
      BY <2>1
  <1>4. body[1][1] = n /\ answer[1] = body[1]
    BY <1>3
  <1>5. p \in Reports /\ IsOnWay(p)
    BY HeadOfWay, LeftOnWay
  <1>6. SUFFICES /\ given[n].sent /\ expected = given[n].len
                 /\ \A j \in 1..expected : body[j] = ByteOf(n, given[n].ok, j)
                 /\ \A k \in DOMAIN Way' : Owned(Way'[k]) /\ CallOf(Way'[k]) = n =>
                       PosOf(Way'[k]) > expected
    <2> SUFFICES ASSUME given[n].sent, expected = given[n].len,
                        \A j \in 1..expected : body[j] = ByteOf(n, given[n].ok, j),
                        \A k \in DOMAIN Way' : Owned(Way'[k]) /\ CallOf(Way'[k]) = n =>
                              PosOf(Way'[k]) > expected
                 PROVE  /\ answer = AnswerBytes(n, given[n])
                        /\ answer[1] = ByteOf(n, given[n].ok, 1)
                        /\ \A k \in DOMAIN Way' : Owned(Way'[k]) => CallOf(Way'[k]) # n
      BY <1>1, <1>2
    <2>1. answer = AnswerBytes(n, given[n])
      <3>1. PICK s \in Seq(Byte) : s = AnswerBytes(n, given[n])
        BY <1>1, <1>2, AnswerBytesAre
      <3>2. Len(s) = given[n].len /\ \A j \in 1..given[n].len : s[j] = ByteOf(n, given[n].ok, j)
        BY <1>1, <1>2, <3>1, AnswerBytesAre
      <3>3. Len(s) = Len(answer) /\ \A j \in 1..Len(answer) : s[j] = answer[j]
        BY <3>2
      <3>4. s = answer
        BY <3>3, SMTT(30)
      <3> QED
        BY <3>1, <3>4
    <2>2. ASSUME NEW k \in DOMAIN Way', Owned(Way'[k])
          PROVE  CallOf(Way'[k]) # n
      <3>1. PICK q : q = Way'[k]
        OBVIOUS
      <3>2. IsOnWay(q) /\ Owned(q)
        BY <2>2, <3>1, LeftOnWay
      <3>3. CallOf(q) = n => PosOf(q) <= given[n].len
        BY <3>2, AnswerIs
      <3>4. PosOf(q) \in Nat
        BY <3>2, AnswerIs
      <3>5. CallOf(q) = n => PosOf(q) > expected
        BY <2>2, <3>1
      <3> QED
        BY <1>2, <3>1, <3>3, <3>4, <3>5
    <2> QED
      BY <1>3, <1>4, <2>1, <2>2
  <1>7. CASE p.tag = Cmd /\ body = p.body /\ expected = p.len
    <2>1. CallOf(p) = n
      BY <1>4, <1>7 DEF CallOf
    <2>2. Owned(p)
      <3>1. p.body # << >>
        BY <1>3, <1>7
      <3> QED
        BY <1>1, <2>1, <3>1 DEF Owned
    <2>3. /\ given[n].sent /\ Len(p.body) = InitBody
          /\ p.len = given[n].len /\ p.len \in Nat
          /\ \A j \in 1..InitBody : j <= p.len => p.body[j] = ByteOf(n, given[n].ok, j)
          /\ \A k \in DOMAIN Way' : Owned(Way'[k]) /\ n = CallOf(Way'[k]) =>
                InitBody + 1 <= PosOf(Way'[k])
      BY <1>7, <2>1, <2>2, OwnFirst
    <2>4. expected <= InitBody
      BY <1>7, <2>3
    <2>5. \A j \in 1..expected : body[j] = ByteOf(n, given[n].ok, j)
      BY <1>0, <1>3, <1>7, <2>3, <2>4
    <2>6. ASSUME NEW k \in DOMAIN Way', Owned(Way'[k]), CallOf(Way'[k]) = n
          PROVE  PosOf(Way'[k]) > expected
      <3>1. PICK q : q = Way'[k]
        OBVIOUS
      <3>2. PosOf(q) \in Nat
        BY <2>6, <3>1, LeftOnWay, AnswerIs
      <3>3. InitBody + 1 <= PosOf(q)
        BY <2>3, <2>6, <3>1
      <3> QED
        BY <1>0, <1>3, <2>4, <3>1, <3>2, <3>3
    <2> QED
      BY <1>7, <2>3, <2>5, <2>6
  <1>8. CASE rx.begun /\ SeqExpected(p) /\ body = rx.body \o p.body /\ expected = rx.expected
    <2>1. PICK r \in Seq(Byte) : r = rx.body
      BY DEF TypeInv, TypeOK, ClientTypeOK
    <2>2. PICK f \in Seq(Byte) : f = p.body
      BY <1>5 DEF Reports
    <2>3. PICK m \in Nat : m = Len(r)
      BY <2>1
    <2>4. /\ Len(body) = m + Len(f)
          /\ \A j \in 1..m : body[j] = r[j]
          /\ \A j \in 1..Len(f) : body[m + j] = f[j]
      <3>1. /\ Len(r \o f) = Len(r) + Len(f)
            /\ \A j \in 1..Len(r) : (r \o f)[j] = r[j]
            /\ \A j \in 1..Len(f) : (r \o f)[Len(r) + j] = f[j]
        BY Joined
      <3>2. body = r \o f
        BY <1>8, <2>1, <2>2
      <3> QED
        BY <2>3, <3>1, <3>2, Zenon
    <2>5. rx.body[1][1] = n
      <3>1. r # << >>
        BY <1>8, <2>1 DEF Receiving
      <3>2. 1 \in 1..m
        BY <2>3, <3>1
      <3> QED
        BY <1>4, <2>1, <2>4, <3>2
    <2>6. /\ m >= InitBody
          /\ given[n].sent /\ rx.expected = given[n].len
          /\ Len(p.body) = ContBody
          /\ PosOf(p) \in Nat /\ PosOf(p) <= given[n].len
          /\ \/ PosOf(p) = m + 1 /\ Exact
             \/ PosOf(p) >= m + 1 + ContBody
          /\ \A j \in 1..ContBody : PosOf(p) + j - 1 <= given[n].len =>
                p.body[j] = ByteOf(n, given[n].ok, PosOf(p) + j - 1)
          /\ \A k \in DOMAIN Way' : Owned(Way'[k]) =>
                /\ CallOf(Way'[k]) = n
                /\ PosOf(p) + ContBody <= PosOf(Way'[k])
      BY <1>8, <2>1, <2>3, <2>5, OwnNext
    <2>7. expected <= m + ContBody /\ expected = given[n].len
      BY <1>8, <2>2, <2>4, <2>6
    <2>8. PosOf(p) = m + 1 /\ Exact
      BY <1>0, <1>2, <2>6, <2>7
    <2>9. ASSUME NEW j \in 1..expected
          PROVE  body[j] = ByteOf(n, given[n].ok, j)
      <3>1. CASE j <= m
        <4>1. j \in 1..m
          BY <1>3, <3>1
        <4>2. body[j] = r[j] /\ r[j] = ByteOf(n, given[n].ok, j)
          BY <2>1, <2>3, <2>4, <2>8, <4>1 DEF Exact
        <4> QED
          BY <4>2
      <3>2. CASE ~(j <= m)
        <4>1. PICK i \in 1..ContBody : j = m + i
          <5>1. j - m \in 1..ContBody /\ j = m + (j - m)
            BY <1>0, <1>3, <2>7, <3>2
          <5> QED
            BY <5>1
        <4>2. PosOf(p) + i - 1 = j /\ j <= given[n].len
          BY <1>0, <1>3, <2>7, <2>8, <4>1
        <4>3. p.body[i] = ByteOf(n, given[n].ok, j)
          BY <2>6, <4>2
        <4>4. body[j] = p.body[i]
          BY <2>2, <2>4, <2>6, <4>1
        <4> QED
          BY <4>3, <4>4
      <3> QED
        BY <3>1, <3>2
    <2>10. ASSUME NEW k \in DOMAIN Way', Owned(Way'[k]), CallOf(Way'[k]) = n
           PROVE  PosOf(Way'[k]) > expected
      <3>1. PICK q : q = Way'[k]
        OBVIOUS
      <3>2. PosOf(q) \in Nat
        BY <2>10, <3>1, LeftOnWay, AnswerIs
      <3>3. PosOf(p) + ContBody <= PosOf(q)
        BY <2>6, <2>10, <3>1
      <3> QED
        BY <1>0, <1>3, <2>7, <2>8, <3>1, <3>2, <3>3
    <2> QED
      BY <2>6, <2>7, <2>9, <2>10
  <1> QED
    BY <1>7, <1>8

LEMMA AnswersInLineStep ==
    TypeInv /\ Requests /\ AnswersInLine /\ [Next]_vars => AnswersInLine'
  <1> SUFFICES ASSUME TypeInv, Requests, AnswersInLine, [Next]_vars
               PROVE  AnswersInLine'
    OBVIOUS
  <1>1. CASE DevKeepAlive \/ DevAnswer \/ DevError
    BY <1>1, MessageAdded
  <1>2. CASE ~(DevKeepAlive \/ DevAnswer \/ DevError)
    <2>1. Thinner(Way', Way)
      BY <1>2, WayThinner
    <2>2. n \in Nat
      BY CtapHidAssumption DEF TypeInv, TypeOK, ClientTypeOK
    <2>3. n' = n \/ n' = n + 1
      BY <1>2 DEF Next, vars, client, StartCall, RequestTooLong, SendPacket, WriteFails,
                  ReadFails, ReadRefused, ReadError, ReadKeepAlive, ReadFirst,
                  ReadContinuation, Reads, Reopen, DevTake, DevEmit, ForeignReport, Unplug
    <2>4. given' = given
      BY <1>2 DEF Next, vars, authenticator, StartCall, RequestTooLong, SendPacket, WriteFails,
                  ReadFails, ReadRefused, ReadError, ReadKeepAlive, ReadFirst,
                  ReadContinuation, Reads, Reopen, DevTake, DevEmit, ForeignReport, Unplug
    <2>5. n' \in Nat /\ n <= n'
      <3>1. CASE n' = n
        BY <2>2, <3>1
      <3>2. CASE n' = n + 1
        <4>1. PICK m \in Nat : m = n + 1 /\ n <= m
          BY <2>2
        <4> QED
          BY <3>2, <4>1, Zenon
      <3> QED
        BY <2>3, <3>1, <3>2
    <2> QED
      BY <2>1, <2>4, <2>5, AnswersThinned
  <1> QED
    BY <1>1, <1>2

\* The bytes the loop of readResponse ends with, and the answer cut from them.
Completes(body, expected, answer) ==
    /\ \/ ~rx.begun /\ Report.tag = Cmd /\ body = Report.body /\ expected = Report.len
       \/ /\ rx.begun /\ SeqExpected(Report)
          /\ body = rx.body \o Report.body /\ expected = rx.expected
    /\ Len(body) >= expected /\ Len(answer) = expected
    /\ \A j \in 1..expected : answer[j] = body[j]

\* What reading a packet of an answer comes to.
LEMMA ReadEnds ==
    ASSUME TypeInv, ReadFirst \/ ReadContinuation
    PROVE  /\ Reads /\ OnOurChannel(Report)
           /\ \/ UNCHANGED <<pc, phase, conn, cid, tx, callbacks, out>>
              \/ Fail
              \/ \E body \in Seq(Byte), expected \in Nat, answer \in Seq(Byte) :
                    /\ Completes(body, expected, answer)
                    /\ \/ /\ phase = "init" /\ Len(answer) >= InitLen /\ EchoesNonce(answer)
                          /\ Return("ok", answer, answer[NonceLen + 1][1])
                       \/ /\ phase # "init" /\ answer # << >> /\ answer[1][2] # 1
                          /\ Return("refused", answer, cid)
                       \/ /\ phase # "init" /\ answer # << >> /\ answer[1][2] = 1
                          /\ Return("ok", answer, cid)
  <1>1. Reads /\ OnOurChannel(Report)
    BY DEF ReadFirst, ReadContinuation
  <1>2. PICK p \in Reports : p = Report
    BY <1>1, HeadOfWay
  <1>3. rx.body \in Seq(Byte) /\ p.body \in Seq(Byte)
        /\ rx.expected \in 0..MaxLen /\ p.len \in 0..MaxLen
    BY <1>2 DEF TypeInv, TypeOK, ClientTypeOK, Reports
  <1>4. ASSUME NEW body \in Seq(Byte), NEW expected \in 0..MaxLen, Received(body, expected),
               \/ ~rx.begun /\ p.tag = Cmd /\ body = p.body /\ expected = p.len
               \/ rx.begun /\ SeqExpected(p) /\ body = rx.body \o p.body /\ expected = rx.expected
        PROVE  \/ Fail
               \/ \E answer \in Seq(Byte) :
                    /\ Completes(body, expected, answer)
                    /\ \/ /\ phase = "init" /\ Len(answer) >= InitLen /\ EchoesNonce(answer)
                          /\ Return("ok", answer, answer[NonceLen + 1][1])
                       \/ /\ phase # "init" /\ answer # << >> /\ answer[1][2] # 1
                          /\ Return("refused", answer, cid)
                       \/ /\ phase # "init" /\ answer # << >> /\ answer[1][2] = 1
                          /\ Return("ok", answer, cid)
    <2>1. PICK answer \in Seq(Byte) :
              /\ Len(body) >= expected /\ Len(answer) = expected
              /\ \A j \in 1..expected : answer[j] = body[j]
              /\ \/ /\ phase = "init" /\ Len(answer) >= InitLen /\ EchoesNonce(answer)
                    /\ Return("ok", answer, answer[NonceLen + 1][1])
                 \/ /\ phase # "init" /\ answer # << >> /\ answer[1][2] # 1
                    /\ Return("refused", answer, cid)
                 \/ /\ phase # "init" /\ answer # << >> /\ answer[1][2] = 1
                    /\ Return("ok", answer, cid)
                 \/ Fail
      BY <1>4, ReceivedCases
    <2>2. Completes(body, expected, answer)
      BY <1>2, <1>4, <2>1 DEF Completes
    <2> QED
      BY <2>1, <2>2
  <1>5. CASE ReadFirst
    <2>1. p.tag = Cmd /\ ~rx.begun
      BY <1>2, <1>5 DEF ReadFirst
    <2>2. \/ Received(p.body, p.len)
          \/ UNCHANGED <<pc, phase, conn, cid, tx, callbacks, out>>
      BY <1>2, <1>5 DEF ReadFirst
    <2>3. p.len \in Nat
      BY <1>3, CtapHidAssumption
    <2> QED
      BY <1>1, <1>3, <1>4, <2>1, <2>2, <2>3
  <1>6. CASE ReadContinuation
    <2>1. SeqExpected(p) /\ rx.begun
      BY <1>2, <1>6 DEF ReadContinuation
    <2>2. rx.body \o p.body \in Seq(Byte)
      BY <1>3, Joined
    <2>3. PICK b \in Seq(Byte) : b = rx.body \o p.body
      BY <2>2
    <2>4. \/ Received(b, rx.expected)
          \/ UNCHANGED <<pc, phase, conn, cid, tx, callbacks, out>>
      BY <1>2, <1>6, <2>3 DEF ReadContinuation
    <2>5. rx.expected \in Nat
      BY <1>3, CtapHidAssumption
    <2> QED
      BY <1>1, <1>3, <1>4, <2>1, <2>3, <2>4, <2>5
  <1> QED
    BY <1>5, <1>6

\* The last outcome is the call's, the others stay.
LEMMA ReturnAppends ==
    ASSUME TypeInv, NEW res, NEW body, NEW channel, Return(res, body, channel)
    PROVE  /\ Len(out) \in Nat /\ DOMAIN out = 1..Len(out)
           /\ DOMAIN out' = 1..(Len(out) + 1) /\ Len(out') = Len(out) + 1
           /\ \A k \in DOMAIN out : out'[k] = out[k]
           /\ out'[Len(out) + 1] = [call |-> n', conn |-> conn, phase |-> phase,
                                    res |-> res, body |-> body]
           /\ conn' = conn /\ cid' = channel
           /\ phase' = IF res # "ok" THEN phase
                       ELSE IF phase = "init" THEN "info" ELSE "live"
           /\ pc' \in {"idle", "closed"} /\ rx' = NoRx
  <1>1. PICK o : o = [call |-> n', conn |-> conn, phase |-> phase, res |-> res, body |-> body]
    OBVIOUS
  <1>2. PICK s \in Seq(Outcomes) : s = out
    BY DEF TypeInv, TypeOK, ClientTypeOK
  <1>3. out' = Append(s, o)
    BY <1>1, <1>2 DEF Return, Outcome
  <1>4. /\ Len(s) \in Nat /\ DOMAIN s = 1..Len(s)
        /\ DOMAIN Append(s, o) = 1..(Len(s) + 1) /\ Len(Append(s, o)) = Len(s) + 1
        /\ \A k \in DOMAIN s : Append(s, o)[k] = s[k]
        /\ Append(s, o)[Len(s) + 1] = o
    OBVIOUS
  <1>5. /\ conn' = conn /\ cid' = channel
        /\ phase' = IF res # "ok" THEN phase
                    ELSE IF phase = "init" THEN "info" ELSE "live"
        /\ pc' \in {"idle", "closed"} /\ rx' = NoRx
    BY DEF Return, AfterFailure
  <1> QED
    BY <1>1, <1>2, <1>3, <1>4, <1>5

LEMMA ChannelKept ==
    ASSUME TypeInv, ChannelIsOurs, NEW res, NEW body, Return(res, body, cid),
           res = "ok" => phase # "init"
    PROVE  ChannelIsOurs'
  <1> SUFFICES ASSUME phase' # "init" PROVE ChannelIsOurs'
    BY DEF ChannelIsOurs
  <1>1. /\ Len(out) \in Nat /\ DOMAIN out = 1..Len(out)
        /\ DOMAIN out' = 1..(Len(out) + 1)
        /\ \A k \in DOMAIN out : out'[k] = out[k]
        /\ conn' = conn /\ cid' = cid
        /\ phase' = IF res # "ok" THEN phase
                    ELSE IF phase = "init" THEN "info" ELSE "live"
    BY ReturnAppends
  <1>2. PICK k \in DOMAIN out : /\ out[k].conn = conn /\ out[k].phase = "init"
                                /\ out[k].res = "ok" /\ cid = out[k].call
    BY <1>1 DEF ChannelIsOurs
  <1>3. k \in DOMAIN out'
    BY <1>1
  <1> QED
    BY <1>1, <1>2, <1>3 DEF ChannelIsOurs

\* NewClient takes the channel its own answer names: the call's number.
LEMMA ChannelGiven ==
    ASSUME TypeInv, AnswersInLine, Receiving, Reads,
           NEW body \in Seq(Byte), NEW expected \in Nat, NEW answer \in Seq(Byte),
           Completes(body, expected, answer), Len(answer) >= InitLen, EchoesNonce(answer)
    PROVE  answer[1] = <<n, 1>> /\ answer # << >> /\ answer[NonceLen + 1][1] = n
  <1>1. NonceLen \in Nat \ {0} /\ InitLen \in Nat /\ NonceLen + 1 <= InitLen
    BY CtapHidAssumption
  <1>2. Len(answer) \in Nat /\ NonceLen \in 0..Len(answer) /\ answer # << >>
    BY <1>1
  <1>3. answer[1] = <<n, 1>>
    <2>1. PICK s : s = SubSeq(answer, 1, NonceLen)
      OBVIOUS
    <2>2. s[1] = answer[1]
      <3>1. \A j \in 1..NonceLen : s[j] = answer[j]
        BY <1>2, <2>1, FirstBytes
      <3> QED
        BY <1>1, <3>1
    <2>3. s = [i \in 1..NonceLen |-> <<n, i>>]
      BY <2>1 DEF EchoesNonce, Request
    <2> QED
      BY <1>1, <2>2, <2>3
  <1>4. /\ answer = AnswerBytes(n, given[n]) /\ n \in Calls
        /\ given[n] \in [len : 0..MaxLen, ok : BOOLEAN, sent : BOOLEAN]
    <2>1. answer[1][1] = n
      BY <1>3
    <2>2. PICK p : p = Report
      OBVIOUS
    <2>3. /\ \/ p.tag = Cmd /\ body = p.body /\ expected = p.len
             \/ rx.begun /\ SeqExpected(p) /\ body = rx.body \o p.body /\ expected = rx.expected
          /\ Len(body) >= expected /\ Len(answer) = expected
          /\ \A j \in 1..expected : answer[j] = body[j]
      BY <2>2 DEF Completes
    <2> QED
      BY <1>2, <2>1, <2>2, <2>3, CompletedIs
  <1>5. n \in 0..MaxCalls
    BY <1>4, CtapHidAssumption DEF Calls
  <1>6. /\ Len(answer) = given[n].len
        /\ \A j \in 1..given[n].len : answer[j] = ByteOf(n, given[n].ok, j)
        /\ \A j \in Nat : ByteOf(n, given[n].ok, j)[1] = n
    BY <1>4, <1>5, AnswerBytesAre
  <1>7. NonceLen + 1 \in 1..given[n].len /\ NonceLen + 1 \in Nat
    BY <1>1, <1>2, <1>6
  <1> QED
    BY <1>2, <1>3, <1>6, <1>7

LEMMA ChannelStep ==
    TypeInv /\ AnswersInLine /\ Receiving /\ ChannelIsOurs /\ [Next]_vars => ChannelIsOurs'
  <1> SUFFICES ASSUME TypeInv, AnswersInLine, Receiving, ChannelIsOurs, [Next]_vars
               PROVE  ChannelIsOurs'
    OBVIOUS
  <1>1. CASE UNCHANGED <<phase, conn, cid, out>>
    BY <1>1 DEF ChannelIsOurs
  <1>2. CASE Fail
    BY <1>2, ChannelKept DEF Fail
  <1>3. CASE ReadFirst \/ ReadContinuation
    <2>1. CASE UNCHANGED <<pc, phase, conn, cid, tx, callbacks, out>>
      BY <1>1, <2>1
    <2>2. ASSUME NEW body \in Seq(Byte), NEW expected \in Nat, NEW answer \in Seq(Byte),
                 Completes(body, expected, answer),
                 \/ /\ phase = "init" /\ Len(answer) >= InitLen /\ EchoesNonce(answer)
                    /\ Return("ok", answer, answer[NonceLen + 1][1])
                 \/ phase # "init" /\ Return("refused", answer, cid)
                 \/ phase # "init" /\ Return("ok", answer, cid)
          PROVE  ChannelIsOurs'
      <3>1. CASE phase # "init" /\ (Return("refused", answer, cid) \/ Return("ok", answer, cid))
        BY <3>1, ChannelKept
      <3>2. CASE /\ phase = "init" /\ Len(answer) >= InitLen /\ EchoesNonce(answer)
                 /\ Return("ok", answer, answer[NonceLen + 1][1])
        <4>1. Reads
          BY <1>3, ReadEnds
        <4>2. answer[NonceLen + 1][1] = n /\ n' = n
          BY <2>2, <3>2, <4>1, ChannelGiven, HeadOfWay
        <4>3. Return("ok", answer, n)
          BY <3>2, <4>2
        <4>4. /\ Len(out) \in Nat /\ DOMAIN out' = 1..(Len(out) + 1)
              /\ out'[Len(out) + 1] = [call |-> n', conn |-> conn, phase |-> phase,
                                       res |-> "ok", body |-> answer]
              /\ conn' = conn /\ cid' = n
          BY <4>3, ReturnAppends
        <4>5. PICK k : k = Len(out) + 1
          OBVIOUS
        <4>6. k \in DOMAIN out'
          BY <4>4, <4>5
        <4>7. /\ out'[k].conn = conn' /\ out'[k].phase = "init" /\ out'[k].res = "ok"
              /\ cid' = out'[k].call
          BY <3>2, <4>2, <4>4, <4>5
        <4> QED
          BY <4>6, <4>7 DEF ChannelIsOurs
      <3> QED
        BY <2>2, <3>1, <3>2
    <2> QED
      BY <1>2, <1>3, <2>1, <2>2, ReadEnds
  <1>4. CASE StartCall \/ SendPacket \/ ReadKeepAlive \/ DevTake \/ DevKeepAlive \/ DevAnswer
             \/ DevError \/ DevEmit \/ ForeignReport \/ Unplug \/ UNCHANGED vars
    BY <1>1, <1>4 DEF StartCall, SendPacket, ReadKeepAlive, DevTake, DevKeepAlive, DevAnswer,
                      DevError, DevEmit, ForeignReport, Unplug, vars, client
  <1>5. CASE RequestTooLong
    BY <1>5, ChannelKept DEF RequestTooLong
  <1>6. CASE WriteFails \/ ReadFails \/ ReadRefused
    BY <1>2, <1>6 DEF WriteFails, ReadFails, ReadRefused
  <1>7. CASE ReadError
    BY <1>7, ChannelKept DEF ReadError
  <1>8. CASE Reopen
    BY <1>8 DEF Reopen, ChannelIsOurs
  <1> QED
    BY <1>3, <1>4, <1>5, <1>6, <1>7, <1>8 DEF Next

-----------------------------------------------------------------------------
(* What a call hands back, and what it leaves behind *)

\* A call that fails makes its connection unclean; another keeps the past.
LEMMA CleanBefore ==
    ASSUME TypeInv, NEW res, NEW body, NEW channel, Return(res, body, channel)
    PROVE  /\ \A k \in 1..(Len(out) + 1) : \A c : Clean(k - 1, c)' => Clean(k - 1, c)
           /\ Clean(Len(out), conn)' => res # "failed" /\ Clean(Len(out), conn)
  <1>1. /\ Len(out) \in Nat /\ DOMAIN out = 1..Len(out)
        /\ DOMAIN out' = 1..(Len(out) + 1) /\ Len(out') = Len(out) + 1
        /\ \A k \in DOMAIN out : out'[k] = out[k]
        /\ out'[Len(out) + 1] = [call |-> n', conn |-> conn, phase |-> phase,
                                 res |-> res, body |-> body]
        /\ conn' = conn
    BY ReturnAppends
  <1>2. ASSUME NEW k \in 1..(Len(out) + 1), NEW c, Clean(k - 1, c)'
        PROVE  Clean(k - 1, c)
    <2>1. \A j \in 1..(k - 1) : j \in DOMAIN out
      BY <1>1
    <2> QED
      BY <1>1, <1>2, <2>1 DEF Clean
  <1>3. ASSUME Clean(Len(out), conn)'
        PROVE  res # "failed" /\ Clean(Len(out), conn)
    <2>1. PICK m : m = Len(out) + 1
      OBVIOUS
    <2>2. \A j \in 1..m : out'[j].conn = conn => out'[j].res # "failed"
      BY <1>1, <1>3, <2>1 DEF Clean
    <2>3. m \in 1..m /\ \A j \in 1..Len(out) : j \in 1..m /\ j \in DOMAIN out
      BY <1>1, <2>1
    <2>4. out'[m].conn = conn /\ out'[m].res = res
      BY <1>1, <2>1
    <2> QED
      BY <1>1, <2>2, <2>3, <2>4 DEF Clean
  <1> QED
    BY <1>2, <1>3

\* On a clean connection, what ends the loop of readResponse is the answer to
\* the running call.
LEMMA OwnWhenClean ==
    ASSUME TypeInv, AnswersInLine, Receiving, ChannelIsOurs, OneExchange, phase # "init",
           Reads, OnOurChannel(Report),
           NEW body \in Seq(Byte), NEW expected \in Nat, NEW answer \in Seq(Byte),
           Completes(body, expected, answer), answer # << >>
    PROVE  /\ given[n].sent /\ answer = AnswerBytes(n, given[n])
           /\ answer[1] = ByteOf(n, given[n].ok, 1) /\ n \in Calls
           /\ given[n] \in [len : 0..MaxLen, ok : BOOLEAN, sent : BOOLEAN]
           /\ \A k \in DOMAIN Way' : Owned(Way'[k]) => CallOf(Way'[k]) # n
           /\ Owned(Report) /\ Report.tag # CmdKeepAlive
  <1>1. PICK p \in Reports : p = Report
    BY HeadOfWay
  <1>2. /\ \/ p.tag = Cmd /\ body = p.body /\ expected = p.len
           \/ rx.begun /\ SeqExpected(p) /\ body = rx.body \o p.body /\ expected = rx.expected
        /\ Len(body) >= expected /\ Len(answer) = expected
        /\ \A j \in 1..expected : answer[j] = body[j]
    BY <1>1 DEF Completes
  <1>3. expected # 0 /\ 1 \in 1..expected
    <2>1. Len(answer) \in Nat /\ Len(answer) # 0
      OBVIOUS
    <2> QED
      BY <1>2, <2>1
  <1>4. p.cid = cid /\ cid # Broadcast /\ cid # Alien /\ IsOnWay(p)
    <2>1. cid \in 0..MaxCalls /\ cid # Broadcast
      BY ChannelNumber DEF TypeInv, TypeOK, ClientTypeOK
    <2>2. cid # Alien
      BY <2>1 DEF Alien
    <2> QED
      BY <1>1, <2>1, <2>2, LeftOnWay DEF OnOurChannel
  <1>5. Owned(p) /\ answer[1][1] = n
    <2>1. CASE p.tag = Cmd /\ body = p.body /\ expected = p.len
      <3>1. p \notin ForeignReports
        BY <1>4, ForeignTyped
      <3>2. Owned(p)
        <4>1. ~IsNotice(p)
          BY <1>3, <2>1 DEF IsNotice, Cmd, CmdKeepAlive, CmdError, CmdInit, CmdCBOR
        <4> QED
          BY <1>4, <3>1, <4>1 DEF IsOnWay
      <3>3. CallOf(p) = n
        BY <1>1, <1>4, <3>2, HeadOfWay DEF OneExchange
      <3> QED
        BY <1>2, <1>3, <2>1, <3>2, <3>3 DEF CallOf
    <2>2. CASE rx.begun /\ SeqExpected(p) /\ body = rx.body \o p.body /\ expected = rx.expected
      <3>1. rx.body[1][1] = n
        BY <2>2 DEF OneExchange, ReadsOwn
      <3>2. Owned(p)
        BY <1>1, <2>2, <3>1, OwnNext
      <3>3. answer[1] = rx.body[1]
        <4>1. PICK r \in Seq(Byte) : r = rx.body
          BY DEF TypeInv, TypeOK, ClientTypeOK
        <4>2. PICK f \in Seq(Byte) : f = p.body
          BY <1>1 DEF Reports
        <4>3. \A j \in 1..Len(r) : (r \o f)[j] = r[j]
          BY Joined
        <4>4. r # << >>
          BY <2>2, <4>1 DEF Receiving
        <4>5. 1 \in 1..Len(r)
          BY <4>4
        <4>6. body[1] = r[1]
          BY <2>2, <4>1, <4>2, <4>3, <4>5
        <4> QED
          BY <1>2, <1>3, <4>1, <4>6
      <3> QED
        BY <3>1, <3>2, <3>3
    <2> QED
      BY <1>2, <2>1, <2>2
  <1>6. p.tag # CmdKeepAlive
    BY <1>4, <1>5, OwnedIsData
  <1> QED
    BY <1>1, <1>2, <1>5, <1>6, CompletedIs

LEMMA OwnAnswerKept ==
    ASSUME NEW o, OwnAnswer(o), given[o.call].sent => given'[o.call] = given[o.call]
    PROVE  OwnAnswer(o)'
  <1>1. CASE o.body = << >>
    BY <1>1 DEF OwnAnswer
  <1>2. CASE o.body # << >>
    <2>1. /\ given[o.call].sent /\ o.body = AnswerBytes(o.call, given[o.call])
          /\ o.res = "ok" <=> given[o.call].ok
      BY <1>2 DEF OwnAnswer
    <2>2. given'[o.call] = given[o.call]
      BY <2>1
    <2> QED
      BY <2>1, <2>2 DEF OwnAnswer
  <1> QED
    BY <1>1, <1>2

LEMMA ReturnOwn ==
    ASSUME TypeInv, AnswersItsRequest, given' = given, n' \in Nat,
           NEW res, NEW body, NEW channel, Return(res, body, channel),
           Len(out) + 1 = n',
           Clean(Len(out), conn) /\ body # << >> =>
              /\ given[n'].sent /\ body = AnswerBytes(n', given[n'])
              /\ res = "ok" <=> given[n'].ok
    PROVE  AnswersItsRequest'
  <1>1. /\ Len(out) \in Nat /\ DOMAIN out = 1..Len(out)
        /\ DOMAIN out' = 1..(Len(out) + 1) /\ Len(out') = Len(out) + 1
        /\ \A k \in DOMAIN out : out'[k] = out[k]
        /\ out'[Len(out) + 1] = [call |-> n', conn |-> conn, phase |-> phase,
                                 res |-> res, body |-> body]
    BY ReturnAppends
  <1>2. ASSUME NEW k \in 1..(Len(out) + 1), Clean(k - 1, out[k].conn)'
        PROVE  OwnAnswer(out[k])'
    <2>1. PICK c : c = out'[k].conn
      OBVIOUS
    <2>2. Clean(k - 1, c)'
      BY <1>2, <2>1 DEF Clean
    <2>3. Clean(k - 1, c)
      BY <2>2, CleanBefore
    <2>4. CASE k \in DOMAIN out
      <3>1. PICK o : o = out[k]
        OBVIOUS
      <3>2. out'[k] = o
        BY <1>1, <2>4, <3>1
      <3>3. OwnAnswer(o)
        BY <2>1, <2>3, <2>4, <3>1, <3>2 DEF AnswersItsRequest
      <3>4. OwnAnswer(o)'
        BY <3>3, OwnAnswerKept
      <3> QED
        BY <3>2, <3>4 DEF OwnAnswer
    <2>5. CASE k = Len(out) + 1
      <3>1. PICK m : m = n'
        OBVIOUS
      <3>2. out'[k] = [call |-> m, conn |-> conn, phase |-> phase, res |-> res, body |-> body]
        BY <1>1, <2>5, <3>1
      <3>3. k - 1 = Len(out) /\ c = conn
        BY <1>1, <2>1, <2>5, <3>2
      <3>4. body # << >> => /\ given[m].sent /\ body = AnswerBytes(m, given[m])
                            /\ res = "ok" <=> given[m].ok
        BY <2>3, <3>1, <3>3
      <3> QED
        BY <3>2, <3>4 DEF OwnAnswer
    <2> QED
      BY <1>1, <2>4, <2>5
  <1> QED
    BY <1>1, <1>2 DEF AnswersItsRequest

\* What was handed back stays right: no answer is given twice.
LEMMA OwnAnswersKept ==
    ASSUME TypeInv, AnswersItsRequest, out' = out,
           \A q \in 1..n : given[q].sent => given'[q] = given[q]
    PROVE  AnswersItsRequest'
  <1>1. ASSUME NEW k \in DOMAIN out, Clean(k - 1, out[k].conn)'
        PROVE  OwnAnswer(out[k])'
    <2>1. PICK o : o = out[k]
      OBVIOUS
    <2>2. o.call \in 1..n
      <3>1. out \in Seq(Outcomes) /\ Len(out) <= n /\ n \in Nat /\ out[k].call = k
        BY DEF TypeInv, TypeOK, ClientTypeOK, History
      <3> QED
        BY <2>1, <3>1
    <2>3. OwnAnswer(o)
      BY <1>1, <2>1 DEF AnswersItsRequest, Clean
    <2>4. OwnAnswer(o)'
      BY <2>2, <2>3, OwnAnswerKept
    <2> QED
      BY <2>1, <2>4 DEF OwnAnswer
  <1> QED
    BY <1>1 DEF AnswersItsRequest

LEMMA AnswersItsRequestStep ==
    TypeInv /\ Requests /\ AnswersInLine /\ Receiving /\ ChannelIsOurs /\ CleanSoFar
       /\ AnswersItsRequest /\ [Next]_vars => AnswersItsRequest'
  <1> SUFFICES ASSUME TypeInv, Requests, AnswersInLine, Receiving, ChannelIsOurs, CleanSoFar,
                      AnswersItsRequest, [Next]_vars
               PROVE  AnswersItsRequest'
    OBVIOUS
  <1>1. CASE UNCHANGED <<out, given>>
    BY <1>1, OwnAnswersKept
  <1>2. CASE DevKeepAlive \/ DevAnswer \/ DevError
    <2>1. \A q \in 1..n : given[q].sent => given'[q] = given[q]
      BY <1>2, MessageAdded
    <2>2. out' = out
      BY <1>2 DEF DevKeepAlive, DevAnswer, DevError, client
    <2> QED
      BY <2>1, <2>2, OwnAnswersKept
  <1>3. ASSUME NEW res, Return(res, << >>, cid), given' = given,
               \/ Running /\ n' = n
               \/ pc = "idle" /\ n' = n + 1
        PROVE  AnswersItsRequest'
    <2>1. n \in Nat /\ n' \in Nat /\ Len(out) + 1 = n'
      <3>1. n \in Nat /\ Len(out) \in Nat
        BY ReturnAppends, <1>3 DEF TypeInv, TypeOK, ClientTypeOK
      <3>2. Len(out) = IF Running THEN n - 1 ELSE n
        BY DEF TypeInv, History
      <3>3. CASE Running /\ n' = n
        <4>1. Len(out) + 1 = n
          BY <3>1, <3>2, <3>3
        <4> QED
          BY <3>1, <3>3, <4>1, Zenon
      <3>4. CASE pc = "idle" /\ n' = n + 1
        <4>1. PICK m \in Nat : m = n + 1
          BY <3>1
        <4>2. Len(out) + 1 = m
          BY <3>1, <3>2, <3>4, <4>1 DEF Running
        <4> QED
          BY <3>1, <3>4, <4>1, <4>2, Zenon
      <3> QED
        BY <1>3, <3>3, <3>4
    <2> QED
      BY <1>3, <2>1, ReturnOwn
  <1>4. CASE StartCall \/ SendPacket \/ ReadKeepAlive \/ Reopen \/ DevTake \/ DevEmit
             \/ ForeignReport \/ Unplug \/ UNCHANGED vars
    BY <1>1, <1>4 DEF StartCall, SendPacket, ReadKeepAlive, Reads, Reopen, DevTake, DevEmit,
                      ForeignReport, Unplug, vars, client, authenticator
  <1>5. CASE RequestTooLong
    BY <1>3, <1>5 DEF RequestTooLong, authenticator
  <1>6. CASE WriteFails \/ ReadFails \/ ReadRefused \/ ReadError
    BY <1>3, <1>6 DEF WriteFails, ReadFails, ReadRefused, ReadError, Reads, Fail, Running,
                      authenticator
  <1>7. CASE ReadFirst \/ ReadContinuation
    <2>1. Reads /\ OnOurChannel(Report) /\ Running /\ n' = n /\ given' = given
      BY <1>7, ReadEnds DEF Reads, Running, authenticator
    <2>2. CASE Fail
      BY <1>3, <2>1, <2>2 DEF Fail
    <2>3. CASE UNCHANGED <<pc, phase, conn, cid, tx, callbacks, out>>
      BY <1>1, <2>1, <2>3
    <2>4. ASSUME NEW body \in Seq(Byte), NEW expected \in Nat, NEW answer \in Seq(Byte),
                 Completes(body, expected, answer),
                 \/ /\ phase = "init" /\ Len(answer) >= InitLen /\ EchoesNonce(answer)
                    /\ Return("ok", answer, answer[NonceLen + 1][1])
                 \/ /\ phase # "init" /\ answer # << >> /\ answer[1][2] # 1
                    /\ Return("refused", answer, cid)
                 \/ /\ phase # "init" /\ answer # << >> /\ answer[1][2] = 1
                    /\ Return("ok", answer, cid)
          PROVE  AnswersItsRequest'
      <3>1. n' \in Nat /\ Len(out) + 1 = n'
        <4>1. Len(out) + 1 = n /\ n \in Nat
          BY <2>1, RunningCall
        <4> QED
          BY <2>1, <4>1, Zenon
      <3>2. CASE /\ phase = "init" /\ Len(answer) >= InitLen /\ EchoesNonce(answer)
                 /\ Return("ok", answer, answer[NonceLen + 1][1])
        <4>1. answer[1] = <<n, 1>> /\ answer # << >>
          BY <2>1, <2>4, <3>2, ChannelGiven
        <4>2. given[n].sent /\ answer = AnswerBytes(n, given[n]) /\ n \in Calls
              /\ answer[1] = ByteOf(n, given[n].ok, 1)
              /\ given[n] \in [len : 0..MaxLen, ok : BOOLEAN, sent : BOOLEAN]
          <5>1. PICK p : p = Report
            OBVIOUS
          <5>2. /\ \/ p.tag = Cmd /\ body = p.body /\ expected = p.len
                   \/ rx.begun /\ SeqExpected(p) /\ body = rx.body \o p.body
                      /\ expected = rx.expected
                /\ Len(body) >= expected /\ Len(answer) = expected
                /\ \A j \in 1..expected : answer[j] = body[j]
            BY <2>4, <5>1 DEF Completes
          <5>3. answer[1][1] = n
            BY <4>1
          <5>4. Reads /\ answer # << >>
            BY <2>1, <4>1
          <5> QED
            BY <5>1, <5>2, <5>3, <5>4, CompletedIs
        <4>3. given[n].ok
          <5>1. n \in 0..MaxCalls
            BY <4>2, CtapHidAssumption DEF Calls
          <5>2. ByteOf(n, given[n].ok, 1)[2] = IF given[n].ok THEN 1 ELSE 0
            BY <4>2, <5>1, AnswerBytesAre
          <5> QED
            BY <4>1, <4>2, <5>2
        <4> QED
          BY <2>1, <3>1, <3>2, <4>2, <4>3, ReturnOwn
      <3>3. ASSUME phase # "init", answer # << >>, NEW res, Return(res, answer, cid),
                   res = "ok" <=> answer[1][2] = 1
            PROVE  AnswersItsRequest'
        <4>1. ASSUME Clean(Len(out), conn)
              PROVE  /\ given[n].sent /\ answer = AnswerBytes(n, given[n])
                     /\ res = "ok" <=> given[n].ok
          <5>1. OneExchange
            BY <3>3, <4>1 DEF CleanSoFar
          <5>2. given[n].sent /\ answer = AnswerBytes(n, given[n]) /\ n \in Calls
                /\ answer[1] = ByteOf(n, given[n].ok, 1)
                /\ given[n] \in [len : 0..MaxLen, ok : BOOLEAN, sent : BOOLEAN]
            BY <2>1, <2>4, <3>3, <5>1, OwnWhenClean
          <5>3. n \in 0..MaxCalls
            BY <5>2, CtapHidAssumption DEF Calls
          <5>4. ByteOf(n, given[n].ok, 1)[2] = IF given[n].ok THEN 1 ELSE 0
            BY <5>2, <5>3, AnswerBytesAre
          <5> QED
            BY <3>3, <5>2, <5>4
        <4> QED
          BY <2>1, <3>1, <3>3, <4>1, ReturnOwn
      <3> QED
        BY <2>4, <3>2, <3>3
    <2> QED
      BY <1>7, <2>2, <2>3, <2>4, ReadEnds
  <1> QED
    BY <1>2, <1>4, <1>5, <1>6, <1>7 DEF Next

-----------------------------------------------------------------------------
(* What a call leaves behind *)

NoneOn(s, c) == \A k \in DOMAIN s : s[k].cid # c

LEMMA NoneInEither ==
    ASSUME NEW f \in Seq(Reports), NEW d \in Seq(Reports), NEW w, w = f \o d, NEW c
    PROVE  NoneOn(d, c) /\ NoneOn(f, c) <=> NoneOn(w, c)
  <1>1. PICK m \in Nat, l \in Nat : m = Len(f) /\ l = Len(d)
    OBVIOUS
  <1>2. DOMAIN w = 1..(m + l) /\ \A k \in 1..(m + l) : w[k] = IF k <= m THEN f[k] ELSE d[k - m]
    BY <1>1, ConcatHalves DEF Halves
  <1>3. DOMAIN f = 1..m /\ DOMAIN d = 1..l
    BY <1>1
  <1>4. ASSUME \A k \in DOMAIN w : w[k].cid # c
        PROVE  (\A k \in DOMAIN d : d[k].cid # c) /\ (\A k \in DOMAIN f : f[k].cid # c)
    <2>1. ASSUME NEW k \in 1..l
          PROVE  d[k].cid # c
      <3>1. k + m \in 1..(m + l) /\ ~(k + m <= m) /\ (k + m) - m = k
        OBVIOUS
      <3>2. w[k + m] = d[k]
        BY <1>2, <3>1
      <3> QED
        BY <1>2, <1>4, <3>1, <3>2
    <2>2. ASSUME NEW k \in 1..m
          PROVE  f[k].cid # c
      <3>1. k \in 1..(m + l) /\ k <= m
        OBVIOUS
      <3> QED
        BY <1>2, <1>4, <3>1
    <2> QED
      BY <1>3, <2>1, <2>2
  <1>5. ASSUME (\A k \in DOMAIN d : d[k].cid # c) /\ (\A k \in DOMAIN f : f[k].cid # c)
        PROVE  \A k \in DOMAIN w : w[k].cid # c
    <2> SUFFICES ASSUME NEW k \in 1..(m + l) PROVE w[k].cid # c
      BY <1>2
    <2>1. CASE k <= m
      <3>1. k \in 1..m
        BY <2>1
      <3> QED
        BY <1>2, <1>3, <1>5, <2>1, <3>1
    <2>2. CASE ~(k <= m)
      <3>1. k - m \in 1..l
        BY <2>2
      <3> QED
        BY <1>2, <1>3, <1>5, <2>2, <3>1
    <2> QED
      BY <2>1, <2>2
  <1> QED
    BY <1>4, <1>5 DEF NoneOn

\* A channel no packet and no request of the authenticator is on.
LEMMA QuietIs ==
    ASSUME TypeInv, NEW c
    PROVE  Quiet(c) <=> /\ \A k \in DOMAIN toDev : toDev[k].cid # c
                        /\ dev.st # "idle" => dev.cid # c
                        /\ \A k \in DOMAIN Way : Way[k].cid # c
  <1>1. PICK f \in Seq(Reports), d \in Seq(Reports) : f = fromDev /\ d = devOut
    BY DEF TypeInv, TypeOK, DeviceTypeOK
  <1>2. PICK w : w = Way
    OBVIOUS
  <1>3. w = f \o d /\ f \in Seq(Reports) /\ d \in Seq(Reports)
    BY <1>1, <1>2 DEF Way
  <1>4. NoneOn(d, c) /\ NoneOn(f, c) <=> NoneOn(w, c)
    BY <1>3, NoneInEither
  <1> QED
    BY <1>1, <1>2, <1>4 DEF Quiet, NoneOn

LEMMA QuietNext ==
    ASSUME TypeInv', NEW c
    PROVE  Quiet(c)' <=> /\ \A k \in DOMAIN toDev' : toDev'[k].cid # c
                         /\ dev'.st # "idle" => dev'.cid # c
                         /\ \A k \in DOMAIN Way' : Way'[k].cid # c
  <1>1. PICK f \in Seq(Reports), d \in Seq(Reports) : f = fromDev' /\ d = devOut'
    BY DEF TypeInv, TypeOK, DeviceTypeOK
  <1>2. PICK w : w = Way'
    OBVIOUS
  <1>3. w = f \o d /\ f \in Seq(Reports) /\ d \in Seq(Reports)
    BY <1>1, <1>2 DEF Way
  <1>4. NoneOn(d, c) /\ NoneOn(f, c) <=> NoneOn(w, c)
    BY <1>3, NoneInEither
  <1> QED
    BY <1>1, <1>2, <1>4 DEF Quiet, NoneOn

\* Nothing can be wrong on a quiet channel.
LEMMA QuietStep ==
    ASSUME TypeInv', NEW c, c = cid', Quiet(c)', ~rx'.begun
    PROVE  OneExchange'
  <1>1. /\ \A k \in DOMAIN toDev' : toDev'[k].cid # c
        /\ dev'.st # "idle" => dev'.cid # c
        /\ \A k \in DOMAIN Way' : Way'[k].cid # c
    BY QuietNext
  <1>2. Quiet(cid)'
    BY DEF Quiet
  <1> QED
    BY <1>1, <1>2 DEF OneExchange

\* A channel that is given out is new: nothing has ever been sent on it.
LEMMA NewChannel ==
    ASSUME TypeInv, Requests, AnswersInLine, Running
    PROVE  Quiet(n)
  <1>1. n \in Nat /\ n \in 1..MaxCalls
    BY RunningCall, CtapHidAssumption
  <1>2. ASSUME NEW k \in DOMAIN toDev
        PROVE  toDev[k].cid # n
    <2>1. PICK p : p = toDev[k]
      OBVIOUS
    <2>2. CallOf(p) \in 1..n /\ IsRequest(p) /\ CallOf(p) \in Nat
      BY <2>1, Waiting DEF Requests
    <2>3. p.cid \in 0..(CallOf(p) - 1)
      BY <2>2 DEF IsRequest
    <2>4. PICK q \in Nat : q = CallOf(p)
      BY <2>2
    <2> QED
      BY <1>1, <2>1, <2>2, <2>3, <2>4
  <1>3. ASSUME dev.st # "idle"
        PROVE  dev.cid # n
    <2>1. PICK q : q = Asked
      OBVIOUS
    <2>2. q \in 1..n /\ dev.cid \in 0..(q - 1)
      BY <1>3, <2>1 DEF Requests, GatheredInOrder
    <2> QED
      BY <1>1, <2>2
  <1>4. ASSUME NEW k \in DOMAIN Way
        PROVE  Way[k].cid # n
    <2>1. PICK p : p = Way[k]
      OBVIOUS
    <2>2. IsOnWay(p)
      BY <1>4, <2>1 DEF AnswersInLine
    <2>3. CASE p \in ForeignReports
      BY <1>1, <2>1, <2>3, ForeignTyped DEF Broadcast, Alien
    <2>4. CASE Owned(p)
      <3>1. PICK q : q = CallOf(p)
        OBVIOUS
      <3>2. q \in 1..n /\ p.cid \in 0..(q - 1)
        BY <2>2, <2>4, <3>1, AnswerIs
      <3> QED
        BY <1>1, <2>1, <3>2
    <2>5. CASE p \notin ForeignReports /\ ~Owned(p)
      <3>1. p.cid \in 0..(n - 1)
        BY <2>2, <2>5 DEF IsOnWay, IsNotice
      <3> QED
        BY <1>1, <2>1, <3>1
    <2> QED
      BY <2>3, <2>4, <2>5
  <1> QED
    BY <1>2, <1>3, <1>4, QuietIs

\* An exchange in which nothing is added that comes from the authenticator.
LEMMA ExchangeThinned ==
    ASSUME OneExchange, n' = n, cid' = cid, Thinner(Way', Way),
           cid # Broadcast, cid # Alien,
           ~Running' => Quiet(cid)',
           \A k \in DOMAIN toDev' : toDev'[k].cid = cid => CallOf(toDev'[k]) = n,
           dev'.st # "idle" /\ dev'.cid = cid => Asked' = n,
           rx'.begun => ReadsOwn' /\ ~Asking',
           ~Asking => ~Asking',
           \/ ~rx'.begun
           \/ rx.begun
           \/ \A k \in DOMAIN Way' : Way'[k].cid = cid => Way'[k].tag # CmdKeepAlive
    PROVE  OneExchange'
  <1>1. PICK old, new, c : old = Way /\ new = Way' /\ c = cid
    OBVIOUS
  <1>2. Thinner(new, old)
    BY <1>1
  <1>3. ASSUME NEW k \in DOMAIN new, new[k].cid = c
        PROVE  new[k] \notin ForeignReports
    BY <1>1, <1>3, ForeignTyped
  <1>4. /\ \A k \in DOMAIN old : old[k].cid = c =>
              /\ Owned(old[k]) => CallOf(old[k]) = n
              /\ IF old[k].tag = CmdKeepAlive THEN ~rx.begun ELSE ~Asking
        /\ \A k, l \in DOMAIN old :
              k < l /\ old[k].cid = c /\ old[l].cid = c /\ old[k].tag # CmdKeepAlive
              => Owned(old[k]) /\ Owned(old[l])
    BY <1>1 DEF OneExchange
  <1>5. ASSUME NEW k \in DOMAIN new, new[k].cid = c
        PROVE  /\ Owned(new[k]) => CallOf(new[k]) = n
               /\ IF new[k].tag = CmdKeepAlive THEN ~rx'.begun ELSE ~Asking'
    <2>1. PICK i \in DOMAIN old : new[k] = old[i]
      BY <1>2, <1>3, <1>5 DEF Thinner
    <2>2. /\ Owned(new[k]) => CallOf(new[k]) = n
          /\ IF new[k].tag = CmdKeepAlive THEN ~rx.begun ELSE ~Asking
      BY <1>4, <1>5, <2>1
    <2>3. new[k].tag = CmdKeepAlive => ~rx'.begun
      BY <1>1, <1>5, <2>2
    <2> QED
      BY <2>2, <2>3
  <1>6. ASSUME NEW k \in DOMAIN new, NEW l \in DOMAIN new, k < l,
               new[k].cid = c, new[l].cid = c, new[k].tag # CmdKeepAlive
        PROVE  Owned(new[k]) /\ Owned(new[l])
    <2>1. new[k] \notin ForeignReports /\ new[l] \notin ForeignReports
      BY <1>3, <1>6
    <2>2. PICK i \in DOMAIN old, j \in DOMAIN old :
             i < j /\ new[k] = old[i] /\ new[l] = old[j]
      BY <1>2, <1>6, <2>1 DEF Thinner
    <2> QED
      BY <1>4, <1>6, <2>2
  <1> QED
    BY <1>1, <1>5, <1>6 DEF OneExchange

\* On a connection past NewClient, the channel is a number of its own.
LEMMA OwnChannel ==
    ASSUME TypeInv, ChannelIsOurs, phase # "init"
    PROVE  cid \in Nat /\ cid # Broadcast /\ cid # Alien
  <1>1. cid \in 0..MaxCalls /\ cid # Broadcast
    BY ChannelNumber DEF TypeInv, TypeOK, ClientTypeOK
  <1>2. cid \in Nat
    BY <1>1, CtapHidAssumption
  <1> QED
    BY <1>1, <1>2 DEF Alien

\* Nothing is begun, or the same as before.
LEMMA SameReading ==
    ASSUME OneExchange, n' = n, rx' = rx, ~Asking => ~Asking'
    PROVE  rx'.begun => ReadsOwn' /\ ~Asking'
  BY DEF OneExchange, ReadsOwn

\* Each call starts with nothing of its channel under way, and what it writes
\* is its own.
LEMMA ExchangeSends ==
    ASSUME TypeInv, TypeInv', ChannelIsOurs, Requests, OneExchange, phase # "init",
           Thinner(Way', Way),
           \/ StartCall
           \/ RequestTooLong /\ cid' = cid /\ rx' = NoRx
           \/ SendPacket
    PROVE  OneExchange'
  <1>1. CASE StartCall \/ (RequestTooLong /\ cid' = cid /\ rx' = NoRx)
    <2>1. pc = "idle" /\ UNCHANGED <<cid, toDev, fromDev, devOut, dev>>
      BY <1>1 DEF StartCall, RequestTooLong, authenticator
    <2>2. Quiet(cid)
      BY <2>1 DEF OneExchange, Running
    <2>3. Quiet(cid)'
      BY <2>1, <2>2 DEF Quiet
    <2>4. ~rx'.begun
      <3>1. CASE StartCall
        BY <2>1, <3>1 DEF StartCall, TypeInv, History
      <3>2. CASE rx' = NoRx
        BY <3>2 DEF NoRx
      <3> QED
        BY <1>1, <3>1, <3>2
    <2>5. PICK c : c = cid'
      OBVIOUS
    <2>6. Quiet(c)'
      BY <2>3, <2>5 DEF Quiet
    <2> QED
      BY <2>4, <2>5, <2>6, QuietStep
  <1>2. CASE SendPacket
    <2>1. /\ pc = "send" /\ toDev' = Append(toDev, NextPacket) /\ pc' \in {"send", "recv"}
          /\ UNCHANGED <<phase, cid, rx, n, dev>>
      BY <1>2 DEF SendPacket, authenticator
    <2>2. PICK p : p = NextPacket
      OBVIOUS
    <2>3. CallOf(p) = n
      BY <2>1, <2>2, NextPacketIs DEF Requests
    <2>4. ASSUME NEW k \in DOMAIN toDev', toDev'[k].cid = cid
          PROVE  CallOf(toDev'[k]) = n
      <3>1. PICK s \in Seq(Reports), m \in Nat : s = toDev /\ m = Len(s)
        BY DEF TypeInv, TypeOK, DeviceTypeOK
      <3>2. toDev' = Append(s, p) /\ DOMAIN Append(s, p) = 1..(m + 1) /\ DOMAIN s = 1..m
            /\ Append(s, p)[m + 1] = p /\ \A i \in 1..m : Append(s, p)[i] = s[i]
        BY <2>1, <2>2, <3>1
      <3>3. k \in 1..(m + 1)
        BY <2>4, <3>2
      <3>4. CASE k = m + 1
        BY <2>3, <3>2, <3>4
      <3>5. CASE k # m + 1
        <4>1. k \in 1..m
          BY <3>1, <3>3, <3>5
        <4> QED
          BY <2>4, <3>1, <3>2, <4>1 DEF OneExchange
      <3> QED
        BY <3>4, <3>5
    <2>5. ~rx'.begun
      BY <2>1 DEF TypeInv, History
    <2>6. dev'.st # "idle" /\ dev'.cid = cid => Asked' = n
      BY <2>1 DEF OneExchange, Asked
    <2>7. Asking /\ Running'
      BY <2>1 DEF Asking, Running
    <2> QED
      BY <2>1, <2>4, <2>5, <2>6, <2>7, OwnChannel, ExchangeThinned
  <1> QED
    BY <1>1, <1>2

\* A quiet channel stays quiet when nothing is added to it.
LEMMA QuietThinned ==
    ASSUME TypeInv, TypeInv', NEW c, Quiet(c), c # Broadcast, c # Alien, Thinner(Way', Way),
           \A k \in DOMAIN toDev' : \E i \in DOMAIN toDev : toDev'[k] = toDev[i],
           dev'.st # "idle" /\ dev'.cid = c =>
              \/ dev.st # "idle" /\ dev.cid = c
              \/ \E i \in DOMAIN toDev : toDev[i].cid = c
    PROVE  Quiet(c)'
  <1>1. PICK old, new : old = Way /\ new = Way'
    OBVIOUS
  <1>2. /\ \A k \in DOMAIN toDev : toDev[k].cid # c
        /\ dev.st # "idle" => dev.cid # c
        /\ \A k \in DOMAIN old : old[k].cid # c
    BY <1>1, QuietIs
  <1>3. ASSUME NEW k \in DOMAIN new
        PROVE  new[k].cid # c
    <2>1. CASE new[k] \in ForeignReports
      BY <2>1, ForeignTyped
    <2>2. CASE \E i \in DOMAIN old : new[k] = old[i]
      BY <1>2, <2>2
    <2>3. Thinner(new, old)
      BY <1>1
    <2> QED
      BY <2>1, <2>2, <2>3 DEF Thinner
  <1>4. \A k \in DOMAIN toDev' : toDev'[k].cid # c
    BY <1>2
  <1>5. dev'.st # "idle" => dev'.cid # c
    BY <1>2
  <1> QED
    BY <1>1, <1>3, <1>4, <1>5, QuietNext

\* What the authenticator takes it takes as it was written.
LEMMA TakenIs ==
    ASSUME TypeInv, Requests, DevTake
    PROVE  /\ \A k \in DOMAIN toDev' : \E i \in DOMAIN toDev : toDev'[k] = toDev[i]
           /\ \/ dev.st # "idle" /\ dev'.cid = dev.cid /\ Asked' = Asked
              \/ \E i \in DOMAIN toDev : dev'.cid = toDev[i].cid /\ Asked' = CallOf(toDev[i])
  <1>1. toDev # << >> /\ toDev' = Tail(toDev) /\ toDev \in Seq(Reports)
    BY DEF DevTake, TypeInv, TypeOK, DeviceTypeOK
  <1>2. PICK len \in Nat : len = Len(toDev) /\ len >= 1
    BY <1>1
  <1>3. PICK p : p = Head(toDev) /\ p = toDev[1] /\ 1 \in DOMAIN toDev
    BY <1>1, <1>2
  <1>4. /\ DOMAIN toDev = 1..len /\ DOMAIN toDev' = 1..(len - 1)
        /\ \A k \in 1..(len - 1) : k + 1 \in 1..len /\ toDev'[k] = toDev[k + 1]
    BY <1>1, <1>2
  <1>5. p.body \in Seq(Byte) /\ p.body # << >>
    BY <1>3, Waiting DEF Requests, Reports
  <1>6. CASE /\ p.tag \in Commands
             /\ dev' = Gathered([Idle EXCEPT !.cid = p.cid, !.cmd = p.tag,
                                             !.need = p.len], p.body)
    <2>1. dev'.got = << >> \o p.body /\ dev'.cid = p.cid
      BY <1>6 DEF Gathered, Idle
    <2>2. << >> \o p.body = p.body
      BY <1>5
    <2>3. Asked' = CallOf(p)
      BY <2>1, <2>2 DEF Asked, CallOf
    <2> QED
      BY <1>3, <1>4, <2>1, <2>3
  <1>7. CASE /\ dev.st = "gather" /\ p.cid = dev.cid /\ p.tag = dev.seq
             /\ dev' = Gathered([dev EXCEPT !.seq = (@ + 1) % SeqSpace], p.body)
    <2>1. PICK g \in Seq(Byte), f \in Seq(Byte) : g = dev.got /\ f = p.body /\ g # << >>
      BY <1>5, <1>7 DEF TypeInv, TypeOK, DeviceTypeOK, Filled
    <2>2. dev'.got = g \o f /\ dev'.cid = dev.cid
      <3>1. dev \in [st : {"idle", "gather", "work"}, cid : -1..MaxCalls, cmd : Int,
                     need : 0..MaxLen, got : Seq(Byte), seq : 0..(SeqSpace - 1),
                     kas : 0..MaxKeepAlives]
        BY DEF TypeInv, TypeOK, DeviceTypeOK
      <3> QED
        BY <1>7, <2>1, <3>1 DEF Gathered
    <2>3. (g \o f)[1] = g[1]
      <3>1. 1 \in 1..Len(g)
        BY <2>1
      <3>2. \A j \in 1..Len(g) : (g \o f)[j] = g[j]
        BY Joined
      <3> QED
        BY <3>1, <3>2
    <2>4. Asked' = Asked
      BY <2>1, <2>2, <2>3 DEF Asked
    <2> QED
      BY <1>4, <1>7, <2>2, <2>4
  <1> QED
    BY <1>3, <1>6, <1>7 DEF DevTake

\* What the authenticator takes, or the operating system hands on, stays what
\* it is.
LEMMA ExchangeGoesOn ==
    ASSUME TypeInv, TypeInv', ChannelIsOurs, Requests, OneExchange, phase # "init",
           Thinner(Way', Way), n' = n,
           DevTake \/ ReadKeepAlive \/ DevEmit \/ ForeignReport \/ Unplug \/ UNCHANGED vars
    PROVE  OneExchange'
  <1>1. pc' = pc /\ cid' = cid
    BY DEF DevTake, ReadKeepAlive, DevEmit, ForeignReport, Unplug, vars, client
  <1>2. \A k \in DOMAIN toDev' : \E i \in DOMAIN toDev : toDev'[k] = toDev[i]
    <2>1. CASE toDev' = toDev
      BY <2>1
    <2>2. CASE DevTake
      BY <2>2, TakenIs
    <2> QED
      BY <2>1, <2>2 DEF ReadKeepAlive, Reads, DevEmit, ForeignReport, Unplug, vars
  <1>3. \/ dev' = dev
        \/ dev.st # "idle" /\ dev'.cid = dev.cid /\ Asked' = Asked
        \/ \E i \in DOMAIN toDev : dev'.cid = toDev[i].cid /\ Asked' = CallOf(toDev[i])
    <2>1. CASE DevTake
      BY <2>1, TakenIs
    <2>2. CASE dev' = dev
      BY <2>2
    <2> QED
      BY <2>1, <2>2 DEF ReadKeepAlive, Reads, DevEmit, ForeignReport, Unplug, vars, authenticator
  <1>4. PICK c : c = cid /\ c # Broadcast /\ c # Alien
    BY OwnChannel
  <1>5. ASSUME ~Running' PROVE Quiet(cid)'
    <2>1. Quiet(c)
      BY <1>1, <1>4, <1>5 DEF OneExchange, Running
    <2>2. Quiet(c)'
      BY <1>2, <1>3, <1>4, <2>1, QuietThinned
    <2> QED
      BY <1>1, <1>4, <2>2 DEF Quiet
  <1>6. \A k \in DOMAIN toDev' : toDev'[k].cid = cid => CallOf(toDev'[k]) = n
    BY <1>2 DEF OneExchange
  <1>7. dev'.st # "idle" /\ dev'.cid = cid => Asked' = n
    <2>1. CASE dev' = dev
      BY <2>1 DEF OneExchange, Asked
    <2>2. CASE dev' # dev
      BY <1>3, <2>2 DEF OneExchange
    <2> QED
      BY <2>1, <2>2
  <1>8. ~Asking => ~Asking'
    BY <1>1, <1>2, <1>3 DEF Asking
  <1>9. (rx'.begun => ReadsOwn' /\ ~Asking') /\ (~rx'.begun \/ rx.begun)
    <2>1. CASE rx' = rx
      BY <1>8, <2>1, SameReading
    <2>2. CASE ReadKeepAlive
      <3>1. ~rx.begun
        BY <2>2 DEF ReadKeepAlive, IsKeepAlive
      <3>2. ~rx'.begun
        BY <2>2, <3>1 DEF ReadKeepAlive, TypeInv, TypeOK, ClientTypeOK
      <3> QED
        BY <3>2
    <2> QED
      BY <2>1, <2>2 DEF DevTake, DevEmit, ForeignReport, Unplug, vars, client
  <1> QED
    BY <1>1, <1>4, <1>5, <1>6, <1>7, <1>8, <1>9, ExchangeThinned

\* A packet that is no keep-alive ends the wait, and only packets of the same
\* answer come after it.
LEMMA LastOfExchange ==
    ASSUME TypeInv, AnswersInLine, ChannelIsOurs, OneExchange, phase # "init",
           Reads, OnOurChannel(Report), Report.tag # CmdKeepAlive
    PROVE  /\ ~Asking
           /\ \A k \in DOMAIN Way' : Way'[k].cid = cid =>
                 /\ Owned(Report) /\ Owned(Way'[k]) /\ CallOf(Way'[k]) = n
                 /\ Way'[k].tag # CmdKeepAlive
  <1>1. PICK p : p = Report
    OBVIOUS
  <1>2. 1 \in DOMAIN Way /\ p = Way[1] /\ p.cid = cid /\ p.tag # CmdKeepAlive
    BY <1>1, HeadOfWay DEF OnOurChannel
  <1>3. ~Asking
    BY <1>2 DEF OneExchange
  <1>4. ASSUME NEW k \in DOMAIN Way', Way'[k].cid = cid
        PROVE  Owned(p) /\ Owned(Way'[k]) /\ CallOf(Way'[k]) = n /\ Way'[k].tag # CmdKeepAlive
    <2>1. PICK l \in DOMAIN Way : 1 < l /\ Way'[k] = Way[l]
      BY HeadOfWay
    <2>2. PICK q : q = Way[l]
      OBVIOUS
    <2>3. q.cid = cid /\ IsOnWay(q)
      BY <1>4, <2>1, <2>2 DEF AnswersInLine
    <2>4. Owned(p) /\ Owned(q) /\ CallOf(q) = n
      BY <1>2, <2>1, <2>2, <2>3 DEF OneExchange
    <2>5. q.tag # CmdKeepAlive
      BY <2>3, <2>4, OwnedIsData
    <2> QED
      BY <2>1, <2>2, <2>4, <2>5
  <1> QED
    BY <1>1, <1>3, <1>4

LEMMA NothingAsked ==
    ASSUME TypeInv', NEW c, c = cid, cid' = cid, toDev' = toDev, dev' = dev, ~Asking,
           \A k \in DOMAIN Way' : Way'[k].cid # c, ~rx'.begun
    PROVE  OneExchange'
  <1>1. /\ \A k \in DOMAIN toDev' : toDev'[k].cid # c
        /\ dev'.st # "idle" => dev'.cid # c
    BY DEF Asking
  <1>2. Quiet(c)'
    BY <1>1, QuietNext
  <1> QED
    BY <1>2, QuietStep

\* The authenticator's error is the last packet of the exchange.
LEMMA ExchangeRefused ==
    ASSUME TypeInv, TypeInv', AnswersInLine, ChannelIsOurs, OneExchange, phase # "init",
           ReadError
    PROVE  OneExchange'
  <1>1. Reads /\ OnOurChannel(Report) /\ Report.tag = CmdError /\ cid' = cid /\ rx' = NoRx
    BY DEF ReadError, Return
  <1>2. Report.tag # CmdKeepAlive
    BY <1>1 DEF CmdError, CmdKeepAlive
  <1>3. PICK p, c : p = Report /\ c = cid
    OBVIOUS
  <1>4. ~Owned(p)
    <2>1. IsOnWay(p)
      BY <1>1, <1>3, LeftOnWay
    <2> QED
      BY <1>1, <1>3, <2>1, OwnedIsData
  <1>5. ~Asking /\ \A k \in DOMAIN Way' : Way'[k].cid # c
    BY <1>1, <1>2, <1>3, <1>4, LastOfExchange
  <1>6. toDev' = toDev /\ dev' = dev
    BY <1>1, HeadOfWay
  <1>7. ~rx'.begun
    BY <1>1 DEF NoRx
  <1> QED
    BY <1>1, <1>3, <1>5, <1>6, <1>7, NothingAsked

\* When the answer is complete nothing of it is left.
LEMMA ExchangeAnswered ==
    ASSUME TypeInv, TypeInv', AnswersInLine, Receiving, ChannelIsOurs, OneExchange,
           phase # "init", Reads, OnOurChannel(Report),
           NEW body \in Seq(Byte), NEW expected \in Nat, NEW answer \in Seq(Byte),
           Completes(body, expected, answer), answer # << >>, cid' = cid, rx' = NoRx
    PROVE  OneExchange'
  <1>1. /\ \A k \in DOMAIN Way' : Owned(Way'[k]) => CallOf(Way'[k]) # n
        /\ Report.tag # CmdKeepAlive
    BY OwnWhenClean
  <1>2. PICK c : c = cid
    OBVIOUS
  <1>3. ~Asking /\ \A k \in DOMAIN Way' : Way'[k].cid # c
    BY <1>1, <1>2, LastOfExchange
  <1>4. toDev' = toDev /\ dev' = dev
    BY HeadOfWay
  <1>5. ~rx'.begun
    BY DEF NoRx
  <1> QED
    BY <1>2, <1>3, <1>4, <1>5, NothingAsked

\* A packet that does not complete the answer is followed by the rest of it.
LEMMA ExchangeContinues ==
    ASSUME TypeInv, TypeInv', AnswersInLine, Receiving, ChannelIsOurs, OneExchange,
           phase # "init", Thinner(Way', Way), ReadFirst \/ ReadContinuation,
           UNCHANGED <<pc, cid>>, rx'.begun
    PROVE  OneExchange'
  <1>1. /\ Reads /\ OnOurChannel(Report) /\ n' = n /\ toDev' = toDev /\ dev' = dev
        /\ pc = "recv"
    BY HeadOfWay DEF ReadFirst, ReadContinuation, Reads
  <1>2. PICK p \in Reports : p = Report
    BY <1>1, HeadOfWay
  <1>3. p.cid = cid /\ cid \in Nat /\ cid # Broadcast /\ cid # Alien
    BY <1>1, <1>2, OwnChannel DEF OnOurChannel
  <1>4. p.body \in Seq(Byte) /\ rx.body \in Seq(Byte)
    BY <1>2 DEF Reports, TypeInv, TypeOK, ClientTypeOK
  <1>5. p.tag # CmdKeepAlive /\ rx'.body[1][1] = n
    <2>1. CASE ReadFirst
      <3>1. p.tag = Cmd
        BY <1>2, <2>1 DEF ReadFirst
      <3>2. Len(p.body) < p.len /\ rx'.body = p.body
        <4>1. ~Received(p.body, p.len)
          <5>1. Received(p.body, p.len) => rx' = NoRx
            BY ReceivedEnds
          <5> QED
            BY <5>1 DEF NoRx
        <4> QED
          BY <1>2, <2>1, <4>1 DEF ReadFirst, TypeInv, TypeOK, ClientTypeOK
      <3>3. p.tag # CmdKeepAlive /\ p.tag # CmdError
        BY <3>1 DEF Cmd, CmdKeepAlive, CmdError, CmdInit, CmdCBOR
      <3>4. Owned(p)
        <4>1. p \notin ForeignReports
          BY <1>3, ForeignTyped
        <4>2. ~IsNotice(p)
          BY <1>4, <3>2, <3>3 DEF IsNotice
        <4>3. IsOnWay(p)
          BY <1>1, <1>2, LeftOnWay
        <4> QED
          BY <4>1, <4>2, <4>3 DEF IsOnWay
      <3>5. CallOf(p) = n
        <4>1. 1 \in DOMAIN Way /\ p = Way[1]
          BY <1>1, <1>2, HeadOfWay
        <4> QED
          BY <1>3, <3>4, <4>1 DEF OneExchange
      <3> QED
        BY <3>2, <3>3, <3>5 DEF CallOf
    <2>2. CASE ReadContinuation
      <3>1. rx.begun /\ SeqExpected(p)
        BY <1>2, <2>2 DEF ReadContinuation
      <3>2. rx.body[1][1] = n
        BY <3>1 DEF OneExchange, ReadsOwn
      <3>3. PICK b \in Seq(Byte), r \in Seq(Byte), f \in Seq(Byte) :
               b = r \o f /\ r = rx.body /\ f = p.body
        BY <1>4, Joined
      <3>4. rx'.body = b
        <4>1. ~Received(b, rx.expected)
          <5>1. Received(b, rx.expected) => rx' = NoRx
            BY ReceivedEnds
          <5> QED
            BY <5>1 DEF NoRx
        <4> QED
          BY <1>2, <2>2, <3>3, <4>1 DEF ReadContinuation, TypeInv, TypeOK, ClientTypeOK
      <3>5. r # << >>
        BY <3>1, <3>3 DEF Receiving
      <3>6. 1 \in 1..Len(r)
        BY <3>5
      <3>7. \A j \in 1..Len(r) : (r \o f)[j] = r[j]
        BY Joined
      <3>8. b[1] = r[1]
        BY <3>3, <3>6, <3>7
      <3>9. Owned(p)
        BY <1>1, <1>2, <3>1, <3>2, OwnNext
      <3>10. p.tag # CmdKeepAlive
        <4>1. IsOnWay(p)
          BY <1>1, <1>2, LeftOnWay
        <4> QED
          BY <3>9, <4>1, OwnedIsData
      <3> QED
        BY <3>2, <3>3, <3>4, <3>8, <3>10
    <2> QED
      BY <2>1, <2>2
  <1>6. ~Asking /\ \A k \in DOMAIN Way' : Way'[k].cid = cid => Way'[k].tag # CmdKeepAlive
    BY <1>1, <1>2, <1>5, LastOfExchange
  <1>7. ReadsOwn' /\ ~Asking'
    BY <1>1, <1>5, <1>6 DEF ReadsOwn, Asking
  <1>8. Running'
    BY <1>1 DEF Running
  <1>9. /\ \A k \in DOMAIN toDev' : toDev'[k].cid = cid => CallOf(toDev'[k]) = n
        /\ dev'.st # "idle" /\ dev'.cid = cid => Asked' = n
    BY <1>1 DEF OneExchange, Asked
  <1> QED
    BY <1>1, <1>3, <1>6, <1>7, <1>8, <1>9, ExchangeThinned

\* The authenticator answers the running call, keeps it waiting or refuses it.
LEMMA ExchangeAdded ==
    ASSUME TypeInv, TypeInv', Requests, AnswersInLine, OneExchange,
           DevKeepAlive \/ DevAnswer \/ DevError
    PROVE  OneExchange'
  <1>1. PICK fr \in Seq(Reports) :
           /\ IsMessage(fr, Asked, dev.cid) /\ Longer(Way', Way, fr)
           /\ \A k \in DOMAIN fr : fr[k].tag = CmdKeepAlive <=> dev'.st = "work"
    BY MessageAdded
  <1>2. /\ dev.st = "work" /\ n' = n
        /\ UNCHANGED <<pc, cid, rx, toDev>>
    BY MessageAdded DEF DevKeepAlive, DevAnswer, DevError, client
  <1>3. \/ dev'.st = "work" /\ dev'.cid = dev.cid /\ Asked' = Asked
        \/ dev'.st = "idle"
    <2>1. CASE DevKeepAlive
      <3>1. dev' = [dev EXCEPT !.kas = @ + 1]
        BY <2>1 DEF DevKeepAlive
      <3>2. dev \in [st : {"idle", "gather", "work"}, cid : -1..MaxCalls, cmd : Int,
                     need : 0..MaxLen, got : Seq(Byte), seq : 0..(SeqSpace - 1),
                     kas : 0..MaxKeepAlives]
        BY DEF TypeInv, TypeOK, DeviceTypeOK
      <3>3. dev'.st = dev.st /\ dev'.cid = dev.cid /\ dev'.got = dev.got
        BY <3>1, <3>2
      <3> QED
        BY <1>2, <3>3 DEF Asked
    <2>2. CASE DevAnswer \/ DevError
      <3>1. dev' = Idle
        BY <2>2 DEF DevAnswer, DevError
      <3> QED
        BY <3>1 DEF Idle
    <2> QED
      BY <2>1, <2>2
  <1>4. dev.cid = cid => Asked = n /\ Asking /\ ~rx.begun
    BY <1>2 DEF OneExchange, Asking
  <1>5. dev.cid = cid /\ dev'.st = "idle" => ~Asking'
    <2> SUFFICES ASSUME dev.cid = cid, dev'.st = "idle" PROVE ~Asking'
      OBVIOUS
    <2>1. /\ \A k \in DOMAIN toDev : n < CallOf(toDev[k])
          /\ pc = "send" => n < n
      BY <1>2, <1>4, WorkIsBehind
    <2>2. n \in Nat
      BY DEF TypeInv, TypeOK, ClientTypeOK
    <2>3. \A k \in DOMAIN toDev : toDev[k].cid # cid
      <3> SUFFICES ASSUME NEW k \in DOMAIN toDev, toDev[k].cid = cid PROVE FALSE
        OBVIOUS
      <3>1. CallOf(toDev[k]) = n
        BY DEF OneExchange
      <3> QED
        BY <2>1, <2>2, <3>1
    <2>4. pc # "send"
      BY <2>1, <2>2
    <2> QED
      BY <1>2, <2>3, <2>4 DEF Asking
  <1>6. ~Asking => ~Asking'
    BY <1>2, <1>3 DEF Asking
  <1>7. PICK old, new, c : old = Way /\ new = Way' /\ c = cid
    OBVIOUS
  <1>8. Longer(new, old, fr)
    BY <1>1, <1>7
  <1>9. /\ \A k \in DOMAIN old : old[k].cid = c =>
              /\ Owned(old[k]) => CallOf(old[k]) = n
              /\ IF old[k].tag = CmdKeepAlive THEN ~rx.begun ELSE ~Asking
        /\ \A k, l \in DOMAIN old :
              k < l /\ old[k].cid = c /\ old[l].cid = c /\ old[k].tag # CmdKeepAlive
              => Owned(old[k]) /\ Owned(old[l])
    BY <1>7 DEF OneExchange
  <1>10. ASSUME NEW k \in DOMAIN fr, fr[k].cid = c
         PROVE  /\ Owned(fr[k]) => CallOf(fr[k]) = n
                /\ IF fr[k].tag = CmdKeepAlive THEN ~rx.begun ELSE ~Asking'
    <2>1. fr[k].cid = dev.cid /\ (Owned(fr[k]) => CallOf(fr[k]) = Asked)
      BY <1>1 DEF IsMessage
    <2>2. dev.cid = cid
      BY <1>7, <1>10, <2>1
    <2>3. fr[k].tag = CmdKeepAlive <=> dev'.st = "work"
      BY <1>1
    <2> QED
      BY <1>3, <1>4, <1>5, <2>1, <2>2, <2>3
  <1>11. ASSUME NEW k \in DOMAIN new, new[k].cid = c
         PROVE  /\ Owned(new[k]) => CallOf(new[k]) = n
                /\ IF new[k].tag = CmdKeepAlive THEN ~rx.begun ELSE ~Asking'
    <2>1. CASE \E i \in DOMAIN old : new[k] = old[i]
      BY <1>6, <1>9, <1>11, <2>1
    <2>2. CASE \E i \in DOMAIN fr : new[k] = fr[i]
      BY <1>10, <1>11, <2>2
    <2> QED
      BY <1>8, <2>1, <2>2 DEF Longer
  <1>12. ASSUME NEW k \in DOMAIN new, NEW l \in DOMAIN new, k < l,
                new[k].cid = c, new[l].cid = c, new[k].tag # CmdKeepAlive
         PROVE  Owned(new[k]) /\ Owned(new[l])
    <2>1. CASE \E i, j \in DOMAIN old : i < j /\ new[k] = old[i] /\ new[l] = old[j]
      BY <1>9, <1>12, <2>1
    <2>2. CASE \E i, j \in DOMAIN fr : i < j /\ new[k] = fr[i] /\ new[l] = fr[j]
      BY <1>1, <2>2 DEF IsMessage
    <2>3. ASSUME NEW i \in DOMAIN old, NEW j \in DOMAIN fr, new[k] = old[i], new[l] = fr[j]
          PROVE  FALSE
      <3>1. fr[j].cid = dev.cid
        BY <1>1 DEF IsMessage
      <3>2. Asking
        BY <1>4, <1>7, <1>12, <2>3, <3>1
      <3> QED
        BY <1>9, <1>12, <2>3, <3>2
    <2> QED
      BY <1>8, <1>12, <2>1, <2>2, <2>3 DEF Longer
  <1>13. ASSUME ~Running' PROVE Quiet(cid)'
    <2>1. Quiet(c)
      BY <1>2, <1>7, <1>13 DEF OneExchange, Running
    <2>2. /\ \A k \in DOMAIN toDev : toDev[k].cid # c
          /\ dev.st # "idle" => dev.cid # c
          /\ \A k \in DOMAIN old : old[k].cid # c
      BY <1>7, <2>1, QuietIs
    <2>3. \A k \in DOMAIN new : new[k].cid # c
      <3> SUFFICES ASSUME NEW k \in DOMAIN new PROVE new[k].cid # c
        OBVIOUS
      <3>1. CASE \E i \in DOMAIN old : new[k] = old[i]
        BY <2>2, <3>1
      <3>2. CASE \E i \in DOMAIN fr : new[k] = fr[i]
        BY <1>1, <1>2, <2>2, <3>2 DEF IsMessage
      <3> QED
        BY <1>8, <3>1, <3>2 DEF Longer
    <2>4. \A k \in DOMAIN toDev' : toDev'[k].cid # c
      BY <1>2, <2>2
    <2>5. dev'.st # "idle" => dev'.cid # c
      BY <1>2, <1>3, <2>2
    <2>6. Quiet(c)'
      BY <1>7, <2>3, <2>4, <2>5, QuietNext
    <2> QED
      BY <1>2, <1>7, <2>6 DEF Quiet
  <1>14. \A k \in DOMAIN toDev' : toDev'[k].cid = cid' => CallOf(toDev'[k]) = n'
    BY <1>2 DEF OneExchange
  <1>15. dev'.st # "idle" /\ dev'.cid = cid' => Asked' = n'
    BY <1>2, <1>3, <1>4
  <1>16. rx'.begun => ReadsOwn' /\ ~Asking'
    BY <1>2, <1>6, SameReading
  <1>17. rx'.begun = rx.begun /\ cid' = c /\ n' = n
    BY <1>2, <1>7
  <1> QED
    BY <1>7, <1>11, <1>12, <1>13, <1>14, <1>15, <1>16, <1>17 DEF OneExchange

LEMMA CleanSoFarStep ==
    TypeInv /\ TypeInv' /\ Requests /\ AnswersInLine /\ Receiving /\ ChannelIsOurs
       /\ CleanSoFar /\ [Next]_vars => CleanSoFar'
  <1> SUFFICES ASSUME TypeInv, TypeInv', Requests, AnswersInLine, Receiving, ChannelIsOurs,
                      CleanSoFar, [Next]_vars, phase' # "init", Clean(Len(out), conn)'
               PROVE  OneExchange'
    BY DEF CleanSoFar
  <1>1. ASSUME UNCHANGED <<phase, conn, out>>
        PROVE  phase # "init" /\ OneExchange
    <2>1. Clean(Len(out), conn)
      BY <1>1 DEF Clean
    <2> QED
      BY <1>1, <2>1 DEF CleanSoFar
  <1>2. ASSUME NEW res, NEW body, NEW channel, Return(res, body, channel)
        PROVE  /\ res # "failed" /\ cid' = channel /\ rx' = NoRx
               /\ phase # "init" => OneExchange
               /\ res # "ok" => phase # "init"
    <2>1. res # "failed" /\ Clean(Len(out), conn)
      BY <1>2, CleanBefore
    <2>2. cid' = channel /\ rx' = NoRx /\ (res # "ok" => phase' = phase)
      BY <1>2 DEF Return
    <2> QED
      BY <2>1, <2>2 DEF CleanSoFar
  <1>3. CASE WriteFails \/ ReadFails \/ ReadRefused \/ Fail
    <2>1. Fail
      BY <1>3 DEF WriteFails, ReadFails, ReadRefused
    <2> QED
      BY <1>2, <2>1 DEF Fail
  <1>4. CASE DevKeepAlive \/ DevAnswer \/ DevError
    <2>1. UNCHANGED <<phase, conn, out>>
      BY <1>4 DEF DevKeepAlive, DevAnswer, DevError, client
    <2> QED
      BY <1>1, <1>4, <2>1, ExchangeAdded
  <1>5. CASE ~(DevKeepAlive \/ DevAnswer \/ DevError)
    <2>1. Thinner(Way', Way)
      BY <1>5, WayThinner
    <2>2. CASE StartCall \/ SendPacket
      <3>1. UNCHANGED <<phase, conn, out>>
        BY <2>2 DEF StartCall, SendPacket
      <3> QED
        BY <1>1, <2>1, <2>2, <3>1, ExchangeSends
    <2>3. CASE RequestTooLong
      <3>1. Return("unsent", << >>, cid)
        BY <2>3 DEF RequestTooLong
      <3>2. phase # "init" /\ OneExchange /\ cid' = cid /\ rx' = NoRx
        BY <1>2, <3>1
      <3> QED
        BY <2>1, <2>3, <3>2, ExchangeSends
    <2>4. CASE ReadError
      <3>1. Return("refused", << >>, cid)
        BY <2>4 DEF ReadError
      <3>2. phase # "init" /\ OneExchange
        BY <1>2, <3>1
      <3> QED
        BY <2>4, <3>2, ExchangeRefused
    <2>5. CASE DevTake \/ ReadKeepAlive \/ DevEmit \/ ForeignReport \/ Unplug \/ UNCHANGED vars
      <3>1. UNCHANGED <<phase, conn, out>> /\ n' = n
        BY <2>5 DEF DevTake, ReadKeepAlive, Reads, DevEmit, ForeignReport, Unplug, vars, client
      <3> QED
        BY <1>1, <2>1, <2>5, <3>1, ExchangeGoesOn
    <2>6. CASE ReadFirst \/ ReadContinuation
      <3>1. Reads /\ OnOurChannel(Report)
        BY <2>6, ReadEnds
      <3>2. CASE UNCHANGED <<pc, phase, conn, cid, tx, callbacks, out>>
        <4>1. phase # "init" /\ OneExchange
          BY <1>1, <3>2
        <4>2. rx'.begun
          <5>1. pc = "recv" /\ pc' = pc
            BY <3>1, <3>2 DEF Reads
          <5>2. \A body, expected : ~Received(body, expected)
            <6>1. \A res, body, channel : ~Return(res, body, channel)
              BY <5>1 DEF Return, AfterFailure
            <6> QED
              BY <6>1 DEF Received, ReturnInit, ReturnCBOR, Fail
          <5> QED
            BY <2>6, <5>2 DEF ReadFirst, ReadContinuation, TypeInv, TypeOK, ClientTypeOK
        <4> QED
          BY <2>1, <2>6, <3>2, <4>1, <4>2, ExchangeContinues
      <3>3. CASE Fail
        BY <1>3, <3>3
      <3>4. ASSUME NEW body \in Seq(Byte), NEW expected \in Nat, NEW answer \in Seq(Byte),
                   Completes(body, expected, answer),
                   \/ /\ phase = "init" /\ Len(answer) >= InitLen /\ EchoesNonce(answer)
                      /\ Return("ok", answer, answer[NonceLen + 1][1])
                   \/ /\ phase # "init" /\ answer # << >>
                      /\ Return("refused", answer, cid) \/ Return("ok", answer, cid)
            PROVE  OneExchange'
        <4>1. CASE /\ phase = "init" /\ Len(answer) >= InitLen /\ EchoesNonce(answer)
                   /\ Return("ok", answer, answer[NonceLen + 1][1])
          <5>1. PICK c : c = n
            OBVIOUS
          <5>2. cid' = c /\ rx' = NoRx
            <6>1. answer[NonceLen + 1][1] = n
              BY <3>1, <3>4, <4>1, ChannelGiven
            <6> QED
              BY <1>2, <4>1, <5>1, <6>1
          <5>3. Quiet(c)
            <6>1. Running
              BY <3>1 DEF Reads, Running
            <6> QED
              BY <5>1, <6>1, NewChannel
          <5>4. Quiet(c)'
            <6>1. c \in Nat /\ c # Broadcast /\ c # Alien
              <7>1. Running
                BY <3>1 DEF Reads, Running
              <7>2. n \in 1..MaxCalls
                BY <7>1, RunningCall
              <7> QED
                BY <5>1, <7>2, CtapHidAssumption DEF Broadcast, Alien
            <6>2. toDev' = toDev /\ dev' = dev
              BY <3>1, HeadOfWay
            <6> QED
              BY <2>1, <5>3, <6>1, <6>2, QuietThinned
          <5>5. ~rx'.begun
            BY <5>2 DEF NoRx
          <5> QED
            BY <5>2, <5>4, <5>5, QuietStep
        <4>2. ASSUME phase # "init", answer # << >>, NEW res, Return(res, answer, cid)
              PROVE  OneExchange'
          <5>1. OneExchange /\ cid' = cid /\ rx' = NoRx
            BY <1>2, <4>2
          <5> QED
            BY <3>1, <3>4, <4>2, <5>1, ExchangeAnswered
        <4> QED
          BY <3>4, <4>1, <4>2
      <3> QED
        BY <2>6, <3>2, <3>3, <3>4, ReadEnds
    <2>7. CASE Reopen
      BY <2>7 DEF Reopen
    <2> QED
      BY <1>3, <1>5, <2>2, <2>3, <2>4, <2>5, <2>6, <2>7 DEF Next
  <1> QED
    BY <1>4, <1>5

-----------------------------------------------------------------------------
(* What calls hand back: answers of the authenticator, in order and none    *)
(* twice, and whole where no report is dropped.                             *)

\* The packet of the sequence number readResponse expects is a continuation
\* packet of an answer.
LEMMA NumberedIsNext ==
    ASSUME TypeInv, AnswersInLine, Reads, NEW p, p = Report, SeqExpected(p)
    PROVE  /\ IsOnWay(p) /\ Owned(p) /\ PosOf(p) # 1 /\ PosOf(p) \in Nat \ {0}
           /\ Room(PosOf(p)) = ContBody /\ Len(p.body) = ContBody
  <1>1. IsOnWay(p)
    BY LeftOnWay
  <1>2. p.tag \in 0..(SeqSpace - 1)
    <2>1. rx.seq \in Nat /\ SeqSpace \in Nat \ {0}
      <3>1. rx.seq \in 0..(2 * SeqSpace - 1)
        BY DEF TypeInv, TypeOK, ClientTypeOK
      <3> QED
        BY <3>1, CtapHidAssumption
    <2> QED
      BY <2>1 DEF SeqExpected
  <1>3. p.tag \notin Commands /\ p.tag # Runt
    BY <1>2, NumbersAreNotCommands
  <1>4. Owned(p)
    <2>1. p \notin ForeignReports
      BY <1>3, ForeignTyped DEF Commands
    <2>2. ~IsNotice(p)
      BY <1>3 DEF IsNotice, Commands, CommandOn
    <2> QED
      BY <1>1, <2>1, <2>2 DEF IsOnWay
  <1>5. PosOf(p) # 1
    <2>1. PosOf(p) = 1 => p.tag = CommandOn(p.cid)
      BY <1>1, <1>4, AnswerIs
    <2> QED
      BY <1>3, <2>1 DEF CommandOn, Commands
  <1>6. Room(PosOf(p)) = ContBody
    BY <1>5 DEF Room
  <1> QED
    BY <1>1, <1>4, <1>5, <1>6, AnswerIs

\* An initialization packet readResponse takes begins an answer to a call made
\* after the one that opened the connection, unless it announces nothing.
LEMMA FirstIsOwned ==
    ASSUME TypeInv, AnswersInLine, ChannelIsOurs, Reads, NEW p, p = Report, p.tag = Cmd,
           OnOurChannel(p)
    PROVE  /\ IsOnWay(p) /\ p.body # << >>
           /\ phase # "init" /\ p.len # 0 => Owned(p) /\ cid < CallOf(p)
  <1>1. IsOnWay(p)
    BY LeftOnWay
  <1>2. Cmd # Runt /\ Cmd # CmdKeepAlive /\ Cmd # CmdError
    BY DEF Cmd, CmdInit, CmdCBOR, CmdKeepAlive, CmdError, Runt
  <1>3. p.body # << >>
    <2>1. CASE p \in ForeignReports
      BY <1>2, <2>1, ForeignTyped
    <2>2. CASE Owned(p)
      BY <2>2 DEF Owned
    <2>3. CASE IsNotice(p)
      BY <2>3, CtapHidAssumption DEF IsNotice
    <2> QED
      BY <1>1, <2>1, <2>2, <2>3 DEF IsOnWay
  <1>4. ASSUME phase # "init", p.len # 0
        PROVE  Owned(p) /\ cid < CallOf(p)
    <2>1. p \notin ForeignReports
      BY <1>4, OwnChannel, ForeignTyped DEF OnOurChannel
    <2>2. ~IsNotice(p)
      BY <1>2, <1>4 DEF IsNotice
    <2>3. Owned(p)
      BY <1>1, <2>1, <2>2 DEF IsOnWay
    <2>4. p.cid \in 0..(CallOf(p) - 1) /\ CallOf(p) \in 1..n /\ n \in Nat
      BY <1>1, <2>3, AnswerIs
    <2> QED
      BY <2>3, <2>4 DEF OnOurChannel
  <1> QED
    BY <1>1, <1>3, <1>4

\* Bytes that are an answer's from the first to the last are the answer.
LEMMA SameBytes ==
    ASSUME NEW q \in Calls, NEW a \in [len : 0..MaxLen, ok : BOOLEAN, sent : BOOLEAN],
           NEW answer \in Seq(Byte), Len(answer) = a.len,
           \A j \in 1..a.len : answer[j] = ByteOf(q, a.ok, j)
    PROVE  answer = AnswerBytes(q, a)
  <1>1. q \in 0..MaxCalls
    BY CtapHidAssumption DEF Calls
  <1>2. PICK s \in Seq(Byte) : s = AnswerBytes(q, a)
    BY <1>1, AnswerBytesAre
  <1>3. Len(s) = a.len /\ \A j \in 1..a.len : s[j] = ByteOf(q, a.ok, j)
    BY <1>1, <1>2, AnswerBytesAre
  <1>4. Len(s) = Len(answer) /\ \A j \in 1..Len(answer) : s[j] = answer[j]
    BY <1>3
  <1>5. s = answer
    BY <1>4, SMTT(30)
  <1> QED
    BY <1>2, <1>5

\* Behind the last packet of an answer there are only later answers.
LEMMA NothingBehind ==
    ASSUME TypeInv, AnswersInLine, Reads, NEW p, p = Report, Owned(p),
           given[CallOf(p)].len < PosOf(p) + Room(PosOf(p))
    PROVE  \A k \in DOMAIN Way' : Owned(Way'[k]) => CallOf(p) < CallOf(Way'[k])
  <1> SUFFICES ASSUME NEW k \in DOMAIN Way', Owned(Way'[k])
               PROVE  CallOf(p) < CallOf(Way'[k])
    OBVIOUS
  <1>1. IsOnWay(p)
    BY LeftOnWay
  <1>2. PICK r : r = Way'[k]
    OBVIOUS
  <1>3. IsOnWay(r) /\ Before(p, r) /\ Owned(r)
    BY <1>2, LeftOnWay
  <1>4. /\ CallOf(p) <= CallOf(r)
        /\ CallOf(p) = CallOf(r) => PosOf(p) + Room(PosOf(p)) <= PosOf(r)
    BY <1>1, <1>3, Behind
  <1>5. /\ CallOf(r) \in 1..n /\ n \in Nat /\ PosOf(r) \in Nat
        /\ PosOf(r) <= given[CallOf(r)].len
    BY <1>3, AnswerIs
  <1>6. /\ CallOf(p) \in 1..n /\ PosOf(p) \in Nat /\ Room(PosOf(p)) \in Nat
        /\ given[CallOf(p)].len \in Nat
    BY <1>1, AnswerIs
  <1>7. CallOf(p) # CallOf(r)
    BY <1>4, <1>5, <1>6
  <1> QED
    BY <1>2, <1>4, <1>5, <1>6, <1>7

\* The call an outcome stands for, which no later answer changes.
LEMMA AnswerOfKept ==
    ASSUME NEW o, o.body # << >> => o.body[1][1] \in Calls /\ given[o.body[1][1]].sent,
           \A q \in Calls : given[q].sent => given'[q] = given[q]
    PROVE  AnswerOf(o)' = AnswerOf(o)
  BY DEF AnswerOf

LEMMA AnswerOfIs ==
    ASSUME TypeInv, Unanswered, HandedBack, NEW k \in DOMAIN out
    PROVE  /\ AnswerOf(out[k]) \in Int
           /\ AnswerOf(out[k]) \in {-1, 0} \/ AnswerOf(out[k]) \in 1..n
           /\ AnswerOf(out[k]) \in 1..n => given[AnswerOf(out[k])].sent
  <1>1. PICK o : o = out[k]
    OBVIOUS
  <1>2. o.body # << >> => o.body[1][1] \in Calls /\ given[o.body[1][1]].sent
    BY <1>1 DEF HandedBack
  <1>3. n \in 0..MaxCalls /\ Calls = 1..MaxCalls /\ MaxCalls \in Nat
    BY CtapHidAssumption DEF TypeInv, TypeOK, ClientTypeOK, Calls
  <1>4. AnswerOf(o) \in {-1, 0} \/ (AnswerOf(o) \in Calls /\ given[AnswerOf(o)].sent)
    BY <1>2 DEF AnswerOf
  <1>5. \A q \in Calls : given[q].sent => q \in 1..n
    BY <1>3 DEF Unanswered
  <1>6. AnswerOf(o) \in {-1, 0} \/ (AnswerOf(o) \in 1..n /\ given[AnswerOf(o)].sent)
    BY <1>4, <1>5
  <1>7. AnswerOf(o) \in Int
    BY <1>3, <1>6
  <1>8. AnswerOf(o) \in {-1, 0} => AnswerOf(o) \notin 1..n
    OBVIOUS
  <1> QED
    BY <1>1, <1>6, <1>7, <1>8

\* The answer readResponse ends with, when it is all in its first packet.
LEMMA ReturnedAtOnce ==
    ASSUME TypeInv, AnswersInLine, NoneTwice, Reads, NEW p, p = Report, p.tag = Cmd, Owned(p),
           NEW answer \in Seq(Byte), Len(p.body) >= p.len, Len(answer) = p.len,
           \A j \in 1..p.len : answer[j] = p.body[j],
           NEW q, q = CallOf(p)
    PROVE  /\ q \in 1..n /\ q \in Calls /\ given[q].sent
           /\ answer = AnswerBytes(q, given[q])
           /\ \A k \in DOMAIN out : AnswerOf(out[k]) < q
           /\ \A k \in DOMAIN Way' : Owned(Way'[k]) => q < CallOf(Way'[k])
  <1>1. IsOnWay(p)
    BY LeftOnWay
  <1>2. /\ q \in 1..n /\ q \in Calls /\ given[q].sent
        /\ given[q] \in [len : 0..MaxLen, ok : BOOLEAN, sent : BOOLEAN] /\ given[q].len \in Nat
    BY <1>1, AnswerIs
  <1>3. /\ Len(p.body) = InitBody /\ p.len = given[q].len
        /\ \A j \in 1..InitBody : j <= p.len => p.body[j] = ByteOf(q, given[q].ok, j)
    BY OwnFirst
  <1>4. InitBody \in Nat \ {0}
    BY CtapHidAssumption
  <1>5. \A j \in 1..given[q].len : answer[j] = ByteOf(q, given[q].ok, j)
    <2> TAKE j \in 1..given[q].len
    <2>1. j \in 1..InitBody /\ j <= p.len /\ j \in 1..p.len
      BY <1>2, <1>3, <1>4
    <2> QED
      BY <1>3, <2>1
  <1>6. answer = AnswerBytes(q, given[q])
    BY <1>2, <1>3, <1>5, SameBytes
  <1>7. PosOf(p) = 1 /\ Room(PosOf(p)) = InitBody
    <2>1. p.tag \in Commands
      BY DEF Cmd, Commands
    <2>2. PosOf(p) = 1
      BY <1>1, <2>1, AnswerIs
    <2> QED
      BY <2>2 DEF Room
  <1>8. given[q].len < PosOf(p) + Room(PosOf(p))
    BY <1>2, <1>3, <1>4, <1>7
  <1>9. \A k \in DOMAIN Way' : Owned(Way'[k]) => q < CallOf(Way'[k])
    BY <1>8, NothingBehind
  <1>10. \A k \in DOMAIN out : AnswerOf(out[k]) < q
    BY HeadOfWay DEF NoneTwice
  <1> QED
    BY <1>2, <1>6, <1>9, <1>10

\* ... and when it ends with a continuation packet.
LEMMA ReturnedAtLast ==
    ASSUME TypeInv, AnswersInLine, Begun, NoneTwice, "latest" \notin platform => Assembles,
           Reads, NEW p, p = Report, SeqExpected(p), ReadsAnswer,
           NEW body \in Seq(Byte), body = rx.body \o p.body,
           NEW answer \in Seq(Byte), Len(body) >= rx.expected, Len(answer) = rx.expected,
           \A j \in 1..rx.expected : answer[j] = body[j],
           NEW q, q = rx.body[1][1]
    PROVE  /\ q \in 1..n /\ q \in Calls /\ given[q].sent /\ answer[1][1] = q
           /\ "latest" \notin platform => answer = AnswerBytes(q, given[q])
           /\ \A k \in DOMAIN out : AnswerOf(out[k]) < q
           /\ answer = AnswerBytes(q, given[q]) =>
                \A k \in DOMAIN Way' : Owned(Way'[k]) => q < CallOf(Way'[k])
  <1>0. InitBody \in Nat \ {0} /\ ContBody \in Nat \ {0}
    BY CtapHidAssumption
  <1>1. /\ IsOnWay(p) /\ Owned(p) /\ PosOf(p) # 1 /\ PosOf(p) \in Nat \ {0}
        /\ Room(PosOf(p)) = ContBody /\ Len(p.body) = ContBody /\ p.body \in Seq(Byte)
    <2>1. p.body \in Seq(Byte)
      BY HeadOfWay DEF Reports
    <2> QED
      BY <2>1, NumberedIsNext
  <1>2. PICK r \in Seq(Byte), f \in Seq(Byte) : r = rx.body /\ f = p.body
    BY <1>1 DEF TypeInv, TypeOK, ClientTypeOK
  <1>3. PICK m \in Nat : m = Len(r)
    BY <1>2
  <1>4. /\ q \in 1..n /\ given[q].sent /\ rx.expected = given[q].len /\ m < rx.expected
        /\ m >= InitBody
    BY <1>2, <1>3 DEF Begun
  <1>5. n \in 0..MaxCalls /\ q \in Calls /\ MaxCalls \in Nat
    <2>1. n \in 0..MaxCalls /\ MaxCalls \in Nat
      BY CtapHidAssumption DEF TypeInv, TypeOK, ClientTypeOK
    <2> QED
      BY <1>4, <2>1 DEF Calls
  <1>6. PICK a \in [len : 0..MaxLen, ok : BOOLEAN, sent : BOOLEAN] : a = given[q]
    BY <1>5 DEF TypeInv, TypeOK, DeviceTypeOK
  <1>7. a.len \in Nat /\ a.len = rx.expected
    BY <1>4, <1>6, CtapHidAssumption
  <1>8. /\ Len(body) = m + ContBody
        /\ \A j \in 1..m : body[j] = r[j]
        /\ \A j \in 1..ContBody : body[m + j] = f[j]
    <2>1. /\ Len(r \o f) = Len(r) + Len(f)
          /\ \A j \in 1..Len(r) : (r \o f)[j] = r[j]
          /\ \A j \in 1..Len(f) : (r \o f)[Len(r) + j] = f[j]
      BY Joined
    <2>2. body = r \o f /\ Len(f) = ContBody
      BY <1>1, <1>2
    <2> QED
      BY <1>3, <2>1, <2>2, Zenon
  <1>9. 1 \in 1..m /\ 1 \in 1..a.len /\ m + 1 \in 1..a.len /\ 1 \in 1..ContBody /\ m + 1 # 1
    BY <1>0, <1>4, <1>7, SMTT(30)
  <1>10. answer[1][1] = q
    BY <1>2, <1>7, <1>8, <1>9
  <1>11. \A k \in DOMAIN out : AnswerOf(out[k]) < q
    BY DEF NoneTwice
  <1>12. \A j \in 1..ContBody : PosOf(p) + j - 1 <= given[CallOf(p)].len =>
            p.body[j] = ByteOf(CallOf(p), given[CallOf(p)].ok, PosOf(p) + j - 1)
    BY <1>1, AnswerIs
  <1>13. ASSUME "latest" \notin platform
         PROVE  answer = AnswerBytes(q, a)
    <2>1. CallOf(p) = q /\ PosOf(p) = m + 1 /\ \A j \in 1..m : r[j] = ByteOf(q, a.ok, j)
      <3>1. 1 \in DOMAIN Way /\ p = Way[1] /\ \A k \in DOMAIN Way : ~(k < 1)
        <4>1. Way \in Seq(Reports)
          BY WayIs
        <4> QED
          BY <4>1, HeadOfWay
      <3> QED
        BY <1>1, <1>2, <1>3, <1>6, <1>13, <3>1 DEF Assembles
    <2>2. ASSUME NEW j \in 1..a.len
          PROVE  answer[j] = ByteOf(q, a.ok, j)
      <3>1. answer[j] = body[j]
        BY <1>7
      <3>2. CASE j <= m
        <4>1. j \in 1..m
          BY <3>2
        <4> QED
          BY <1>8, <2>1, <3>1, <4>1
      <3>3. CASE ~(j <= m)
        <4>1. PICK i \in 1..ContBody : j = m + i
          <5>1. j - m \in 1..ContBody /\ j = m + (j - m)
            BY <1>0, <1>7, <1>8, <3>3
          <5> QED
            BY <5>1
        <4>2. PosOf(p) + i - 1 = j /\ j <= a.len
          BY <1>0, <1>7, <2>1, <4>1
        <4>3. p.body[i] = ByteOf(q, a.ok, j)
          BY <1>6, <1>12, <2>1, <4>2
        <4> QED
          BY <1>2, <1>8, <3>1, <4>1, <4>3
      <3> QED
        BY <3>2, <3>3
    <2> QED
      BY <1>5, <1>7, <2>2, SameBytes
  <1>14. ASSUME answer = AnswerBytes(q, a)
         PROVE  \A k \in DOMAIN Way' : Owned(Way'[k]) => q < CallOf(Way'[k])
    <2>1. q \in 0..MaxCalls /\ m + 1 \in Nat
      BY <1>5, SMTT(30) DEF Calls
    <2>2. answer[m + 1] = ByteOf(q, a.ok, m + 1)
      BY <1>9, <1>14, <2>1, AnswerBytesAre, SMTT(30)
    <2>3. ByteOf(q, a.ok, m + 1)[1] = q /\ ByteOf(q, a.ok, m + 1)[2] = m + 1
      BY <1>9, <2>1, AnswerBytesAre, SMTT(30)
    <2>4. answer[m + 1] = p.body[1]
      BY <1>2, <1>7, <1>8, <1>9
    <2>5. CallOf(p) = q /\ PosOf(p) = m + 1
      <3>1. p.body[1][1] = q /\ p.body[1][2] = m + 1 /\ m + 1 # 0
        BY <2>2, <2>3, <2>4
      <3> QED
        BY <3>1 DEF CallOf, PosOf
    <2>6. given[CallOf(p)].len < PosOf(p) + Room(PosOf(p))
      BY <1>0, <1>1, <1>6, <1>7, <1>8, <2>5
    <2> QED
      BY <1>1, <2>5, <2>6, NothingBehind
  <1> QED
    BY <1>4, <1>5, <1>6, <1>10, <1>11, <1>13, <1>14

\* What a call hands back is whole where nothing is dropped, and of a call later
\* than all that were handed back; where packets were dropped, it may be whole.
LEMMA WhatIsReturned ==
    ASSUME TypeInv, AnswersInLine, Receiving, ChannelIsOurs, Begun, NoneTwice,
           "latest" \notin platform => Assembles, Reads, OnOurChannel(Report),
           NEW body \in Seq(Byte), NEW expected \in Nat, NEW answer \in Seq(Byte),
           Completes(body, expected, answer), answer # << >>,
           NEW q, q = answer[1][1], phase = "init" => q # 0
    PROVE  /\ q \in 1..n /\ q \in Calls /\ given[q].sent
           /\ phase # "init" => cid < q
           /\ "latest" \notin platform => answer = AnswerBytes(q, given[q])
           /\ \A k \in DOMAIN out : AnswerOf(out[k]) < q
           /\ answer = AnswerBytes(q, given[q]) =>
                \A k \in DOMAIN Way' : Owned(Way'[k]) => q < CallOf(Way'[k])
  <1>1. PICK p : p = Report
    OBVIOUS
  <1>2. /\ expected # 0 /\ 1 \in 1..expected
        /\ Len(body) >= expected /\ Len(answer) = expected
        /\ \A j \in 1..expected : answer[j] = body[j]
    <2>1. /\ Len(body) >= expected /\ Len(answer) = expected
          /\ \A j \in 1..expected : answer[j] = body[j]
      BY DEF Completes
    <2>2. expected # 0
      BY <2>1
    <2> QED
      BY <2>1, <2>2
  <1>3. q = body[1][1]
    BY <1>2
  <1>4. CASE ~rx.begun /\ p.tag = Cmd /\ body = p.body /\ expected = p.len
    <2>1. /\ IsOnWay(p) /\ p.body # << >>
          /\ phase # "init" /\ p.len # 0 => Owned(p) /\ cid < CallOf(p)
      BY <1>1, <1>4, FirstIsOwned
    <2>2. q = CallOf(p)
      BY <1>3, <1>4 DEF CallOf
    <2>3. Owned(p) /\ (phase # "init" => cid < q)
      BY <1>2, <1>4, <2>1, <2>2 DEF Owned
    <2> QED
      BY <1>1, <1>2, <1>4, <2>2, <2>3, ReturnedAtOnce
  <1>5. CASE rx.begun /\ SeqExpected(p) /\ body = rx.body \o p.body /\ expected = rx.expected
    <2>1. q = rx.body[1][1]
      <3>1. PICK r \in Seq(Byte), f \in Seq(Byte) : r = rx.body /\ f = p.body
        BY <1>1, HeadOfWay DEF TypeInv, TypeOK, ClientTypeOK, Reports
      <3>2. r # << >>
        BY <1>5, <3>1 DEF Receiving
      <3>3. 1 \in 1..Len(r)
        BY <3>2
      <3>4. (r \o f)[1] = r[1]
        BY <3>3, Joined
      <3> QED
        BY <1>3, <1>5, <3>1, <3>4
    <2>2. ReadsAnswer /\ (phase # "init" => cid < q)
      <3>1. phase # "init" => cid < q
        BY <1>5, <2>1 DEF Begun
      <3>2. phase # "init" => q # 0
        BY <3>1, OwnChannel
      <3> QED
        BY <1>5, <2>1, <3>1, <3>2 DEF ReadsAnswer
    <2>3. /\ SeqExpected(p) /\ body = rx.body \o p.body
          /\ Len(body) >= rx.expected /\ Len(answer) = rx.expected
          /\ \A j \in 1..rx.expected : answer[j] = body[j]
      BY <1>2, <1>5
    <2> QED
      BY <1>1, <2>1, <2>2, <2>3, ReturnedAtLast
  <1> QED
    BY <1>1, <1>4, <1>5 DEF Completes

\* One queue of reports is the end of another, or that with a foreign report in it.
EndOf(new, old, d, l) ==
    /\ DOMAIN old = 1..(d + l) /\ DOMAIN new = 1..l
    /\ \A k \in 1..l : new[k] = old[d + k]

Inserted(new, old, x, l) ==
    /\ DOMAIN old = 1..l /\ DOMAIN new = 1..(l + 1) /\ new[x] \in ForeignReports
    /\ \A k \in 1..(l + 1) : /\ k < x => new[k] = old[k]
                             /\ k > x => new[k] = old[k - 1]

\* Nothing between two reports of the old queue was dropped if both are left.
Kept(new, old) ==
    \A k, l \in DOMAIN new : k < l =>
       \/ new[k] \in ForeignReports \/ new[l] \in ForeignReports
       \/ \E i, j \in DOMAIN old :
             /\ i < j /\ new[k] = old[i] /\ new[l] = old[j]
             /\ \A m \in DOMAIN old : i <= m /\ m < j =>
                   \E h \in DOMAIN new : h < l /\ new[h] = old[m]

\* Nothing was dropped at all.
Whole(new, old) ==
    \A l \in DOMAIN new :
       \/ new[l] \in ForeignReports
       \/ \E j \in DOMAIN old :
             /\ new[l] = old[j]
             /\ \A m \in DOMAIN old : m < j => \E h \in DOMAIN new : h < l /\ new[h] = old[m]

LEMMA EndIsKept ==
    ASSUME NEW d \in Nat, NEW l \in Nat, NEW new, NEW old, EndOf(new, old, d, l)
    PROVE  Kept(new, old) /\ (d = 0 => Whole(new, old))
  <1>1. DOMAIN old = 1..(d + l) /\ DOMAIN new = 1..l /\ \A k \in 1..l : new[k] = old[d + k]
    BY DEF EndOf
  <1>2. ASSUME NEW a \in DOMAIN new, NEW b \in DOMAIN new, a < b
        PROVE  \E i, j \in DOMAIN old :
                  /\ i < j /\ new[a] = old[i] /\ new[b] = old[j]
                  /\ \A m \in DOMAIN old : i <= m /\ m < j =>
                        \E h \in DOMAIN new : h < b /\ new[h] = old[m]
    <2>1. /\ d + a \in DOMAIN old /\ d + b \in DOMAIN old /\ d + a < d + b
          /\ new[a] = old[d + a] /\ new[b] = old[d + b]
      BY <1>1, <1>2
    <2>2. ASSUME NEW m \in DOMAIN old, d + a <= m, m < d + b
          PROVE  \E h \in DOMAIN new : h < b /\ new[h] = old[m]
      <3>1. m - d \in DOMAIN new /\ m - d < b /\ d + (m - d) = m
        BY <1>1, <1>2, <2>2
      <3> QED
        BY <1>1, <3>1
    <2> QED
      BY <2>1, <2>2
  <1>3. ASSUME d = 0, NEW b \in DOMAIN new
        PROVE  \E j \in DOMAIN old :
                  /\ new[b] = old[j]
                  /\ \A m \in DOMAIN old : m < j => \E h \in DOMAIN new : h < b /\ new[h] = old[m]
    <2>1. DOMAIN old = DOMAIN new /\ \A k \in DOMAIN new : new[k] = old[k]
      BY <1>1, <1>3
    <2> QED
      BY <2>1
  <1>4. Kept(new, old)
    BY <1>2 DEF Kept
  <1>5. d = 0 => Whole(new, old)
    BY <1>3 DEF Whole
  <1> QED
    BY <1>4, <1>5

LEMMA InsertedIsKept ==
    ASSUME NEW l \in Nat, NEW x \in 1..(l + 1), NEW new, NEW old, Inserted(new, old, x, l)
    PROVE  Kept(new, old) /\ Whole(new, old)
  <1>1. /\ DOMAIN old = 1..l /\ DOMAIN new = 1..(l + 1) /\ new[x] \in ForeignReports
        /\ \A k \in 1..(l + 1) : /\ k < x => new[k] = old[k]
                                 /\ k > x => new[k] = old[k - 1]
    BY DEF Inserted
  <1> DEFINE Old(k) == IF k < x THEN k ELSE k - 1
             New(m) == IF m < x THEN m ELSE m + 1
  <1>2. ASSUME NEW k \in DOMAIN new, k # x
        PROVE  Old(k) \in DOMAIN old /\ new[k] = old[Old(k)]
    BY <1>1, <1>2
  <1>3. ASSUME NEW m \in DOMAIN old
        PROVE  New(m) \in DOMAIN new /\ new[New(m)] = old[m]
    <2>1. CASE m < x
      BY <1>1, <2>1
    <2>2. CASE ~(m < x)
      <3>1. m + 1 \in 1..(l + 1) /\ m + 1 > x /\ (m + 1) - 1 = m
        BY <1>1, <2>2
      <3> QED
        BY <1>1, <2>2, <3>1
    <2> QED
      BY <2>1, <2>2
  <1>4. \A a, b \in DOMAIN new : a # x /\ b # x /\ a < b => Old(a) < Old(b)
    BY <1>1
  <1>5. \A b \in DOMAIN new, m \in DOMAIN old : b # x /\ m < Old(b) => New(m) < b
    BY <1>1
  <1> HIDE DEF Old, New
  <1>6. ASSUME NEW b \in DOMAIN new, b # x, NEW m \in DOMAIN old, m < Old(b)
        PROVE  \E h \in DOMAIN new : h < b /\ new[h] = old[m]
    BY <1>3, <1>5, <1>6
  <1>7. Kept(new, old)
    BY <1>1, <1>2, <1>4, <1>6 DEF Kept
  <1>8. Whole(new, old)
    BY <1>1, <1>2, <1>6 DEF Whole
  <1> QED
    BY <1>7, <1>8

\* Where the backend keeps every report, reports are only taken from the front.
LEMMA KeptQueues ==
    ASSUME NEW f \in Seq(Reports), NEW d \in Seq(Reports), NEW g, NEW e,
           NEW old, old = f \o d, NEW new, new = g \o e
    PROVE  /\ \/ g = f /\ e = d
              \/ d # << >> /\ e = Tail(d) /\ g = Append(f, Head(d))
              \/ e = d /\ \E p \in ForeignReports : g = Append(f, p)
              => Kept(new, old) /\ Whole(new, old)
           /\ e = d /\ ((f # << >> /\ g = Tail(f)) \/ g = << >>) => Kept(new, old)
  <1>1. PICK m \in Nat, l \in Nat : m = Len(f) /\ l = Len(d)
    OBVIOUS
  <1>2. Halves(old, f, m, d, l)
    BY <1>1, ConcatHalves
  <1>3. ASSUME g = f /\ e = d PROVE Kept(new, old) /\ Whole(new, old)
    <2>1. new = old /\ DOMAIN old = 1..(0 + (m + l)) /\ 0 + (m + l) = m + l /\ m + l \in Nat
      BY <1>2, <1>3 DEF Halves
    <2>2. \A k \in 1..(m + l) : 0 + k = k
      OBVIOUS
    <2>3. EndOf(new, old, 0, m + l)
      BY <2>1, <2>2 DEF EndOf
    <2> QED
      BY <2>1, <2>3, EndIsKept
  <1>4. ASSUME d # << >> /\ e = Tail(d) /\ g = Append(f, Head(d))
        PROVE  Kept(new, old) /\ Whole(new, old)
    <2>1. PICK y \in Nat : l = y + 1
      <3>1. l - 1 \in Nat /\ l = (l - 1) + 1
        BY <1>1, <1>4
      <3> QED
        BY <3>1
    <2>2. /\ e \in Seq(Reports) /\ Len(e) = y /\ (\A k \in 1..y : e[k] = d[k + 1])
          /\ Head(d) = d[1] /\ d[1] \in Reports
      BY <1>1, <1>4, <2>1, Shorter
    <2>3. PICK x \in Nat : x = m + 1
      BY <1>1
    <2>4. g \in Seq(Reports) /\ Len(g) = x /\ g[x] = d[1] /\ \A k \in 1..m : g[k] = f[k]
      BY <1>1, <1>4, <2>2, <2>3
    <2>5. Halves(new, g, x, e, y)
      BY <2>2, <2>4, ConcatHalves
    <2>6. PICK s \in Nat : s = m + l /\ s = x + y
      BY <2>1, <2>3
    <2>7. \A k \in 1..s : new[k] = old[0 + k]
      <3> TAKE k \in 1..s
      <3>1. 0 + k = k
        OBVIOUS
      <3>2. CASE k <= m
        <4>1. k <= x /\ k \in 1..m
          BY <2>3, <3>2
        <4>2. new[k] = g[k] /\ old[k] = f[k]
          BY <1>2, <2>5, <2>6, <3>2, <4>1 DEF Halves
        <4> QED
          BY <2>4, <3>1, <4>1, <4>2
      <3>3. CASE k = x
        <4>1. k - m = 1 /\ ~(k <= m) /\ k <= x
          BY <2>3, <3>3
        <4>2. new[k] = g[k] /\ old[k] = d[1]
          BY <1>2, <2>5, <2>6, <4>1 DEF Halves
        <4> QED
          BY <2>4, <3>1, <3>3, <4>2
      <3>4. CASE k > x
        <4>1. ~(k <= m) /\ ~(k <= x) /\ k - x \in 1..y /\ k - m = (k - x) + 1
          BY <2>3, <2>6, <3>4
        <4>2. new[k] = e[k - x] /\ old[k] = d[k - m]
          BY <1>2, <2>5, <2>6, <4>1 DEF Halves
        <4> QED
          BY <2>2, <3>1, <4>1, <4>2
      <3>5. k <= m \/ k = x \/ k > x
        BY <2>3, <2>6
      <3> QED
        BY <3>2, <3>3, <3>4, <3>5
    <2>8. DOMAIN old = 1..(0 + s) /\ DOMAIN new = 1..s
      BY <1>2, <2>5, <2>6 DEF Halves
    <2>9. EndOf(new, old, 0, s)
      BY <2>7, <2>8 DEF EndOf
    <2> QED
      BY <2>9, EndIsKept
  <1>5. ASSUME e = d /\ \E p \in ForeignReports : g = Append(f, p)
        PROVE  Kept(new, old) /\ Whole(new, old)
    <2>1. PICK p \in ForeignReports : g = Append(f, p)
      BY <1>5
    <2>2. p \in Reports
      BY ForeignTyped
    <2>3. PICK x \in Nat : x = m + 1
      BY <1>1
    <2>4. g \in Seq(Reports) /\ Len(g) = x /\ g[x] = p /\ \A k \in 1..m : g[k] = f[k]
      BY <1>1, <2>1, <2>2, <2>3
    <2>5. Halves(new, g, x, d, l)
      BY <1>1, <1>5, <2>4, ConcatHalves
    <2>6. PICK s \in Nat : s = m + l /\ s + 1 = x + l
      BY <2>3
    <2>7. ASSUME NEW k \in 1..(s + 1)
          PROVE  /\ k < x => new[k] = old[k]
                 /\ k > x => new[k] = old[k - 1]
      <3>1. ASSUME k < x PROVE new[k] = old[k]
        <4>1. k <= x /\ k <= m /\ k \in 1..m /\ k \in 1..s
          BY <2>3, <2>6, <3>1
        <4>2. new[k] = g[k] /\ old[k] = f[k]
          BY <1>2, <2>5, <2>6, <4>1 DEF Halves
        <4> QED
          BY <2>4, <3>1, <4>1, <4>2
      <3>2. ASSUME k > x PROVE new[k] = old[k - 1]
        <4>1. ~(k <= x) /\ ~(k - 1 <= m) /\ k - 1 \in 1..s /\ k - x = (k - 1) - m
          BY <2>3, <2>6, <3>2
        <4>2. new[k] = d[k - x] /\ old[k - 1] = d[(k - 1) - m]
          BY <1>2, <2>5, <2>6, <4>1 DEF Halves
        <4> QED
          BY <4>1, <4>2
      <3> QED
        BY <3>1, <3>2
    <2>8. DOMAIN old = 1..s /\ DOMAIN new = 1..(s + 1) /\ x \in 1..(s + 1) /\ new[x] = p
      <3>1. DOMAIN old = 1..s /\ DOMAIN new = 1..(s + 1) /\ x \in 1..(s + 1) /\ x <= x
        BY <1>2, <2>3, <2>5, <2>6 DEF Halves
      <3>2. new[x] = g[x]
        BY <2>5, <2>6, <3>1 DEF Halves
      <3> QED
        BY <2>4, <3>1, <3>2
    <2>9. Inserted(new, old, x, s)
      BY <2>7, <2>8 DEF Inserted
    <2> QED
      BY <2>8, <2>9, InsertedIsKept
  <1>6. ASSUME e = d /\ f # << >> /\ g = Tail(f) PROVE Kept(new, old)
    <2>1. PICK x \in Nat : m = x + 1
      <3>1. m - 1 \in Nat /\ m = (m - 1) + 1
        BY <1>1, <1>6
      <3> QED
        BY <3>1
    <2>2. g \in Seq(Reports) /\ Len(g) = x /\ \A k \in 1..x : g[k] = f[k + 1]
      BY <1>1, <1>6, <2>1, Shorter, ZenonT(60)
    <2>3. Halves(new, g, x, d, l)
      BY <1>1, <1>6, <2>2, ConcatHalves
    <2>4. PICK s \in Nat : s = x + l /\ 1 + s = m + l
      BY <2>1
    <2>5. \A k \in 1..s : new[k] = old[1 + k]
      <3> TAKE k \in 1..s
      <3>1. 1 + k \in 1..(m + l) /\ 1 + k = k + 1
        BY <2>4
      <3>2. CASE k <= x
        <4>1. 1 + k <= m /\ k \in 1..x
          BY <2>1, <3>2
        <4>2. new[k] = g[k] /\ old[1 + k] = f[1 + k]
          BY <1>2, <2>3, <2>4, <3>1, <3>2, <4>1 DEF Halves
        <4> QED
          BY <2>2, <3>1, <4>1, <4>2
      <3>3. CASE ~(k <= x)
        <4>1. ~(1 + k <= m) /\ (1 + k) - m = k - x
          BY <2>1, <3>3
        <4>2. new[k] = d[k - x] /\ old[1 + k] = d[(1 + k) - m]
          BY <1>2, <2>3, <2>4, <3>1, <3>3, <4>1 DEF Halves
        <4> QED
          BY <4>1, <4>2
      <3> QED
        BY <3>2, <3>3
    <2>6. DOMAIN old = 1..(1 + s) /\ DOMAIN new = 1..s
      BY <1>2, <2>3, <2>4 DEF Halves
    <2>7. EndOf(new, old, 1, s)
      BY <2>5, <2>6 DEF EndOf
    <2> QED
      BY <2>7, EndIsKept
  <1>7. ASSUME e = d /\ g = << >> PROVE Kept(new, old)
    <2>1. g \in Seq(Reports) /\ Len(g) = 0
      BY <1>7
    <2>2. Halves(new, g, 0, d, l)
      BY <1>1, <1>7, <2>1, ConcatHalves
    <2>3. DOMAIN old = 1..(m + l) /\ DOMAIN new = 1..l
      BY <1>2, <2>2 DEF Halves
    <2>4. \A k \in 1..l : new[k] = old[m + k]
      <3> TAKE k \in 1..l
      <3>1. k - 0 = k /\ ~(k <= 0) /\ ~(m + k <= m) /\ (m + k) - m = k /\ m + k \in 1..(m + l)
            /\ k \in 1..(0 + l)
        OBVIOUS
      <3>2. new[k] = d[k - 0] /\ old[m + k] = d[(m + k) - m]
        BY <1>2, <2>2, <3>1 DEF Halves
      <3> QED
        BY <3>1, <3>2
    <2>5. EndOf(new, old, m, l)
      BY <2>3, <2>4 DEF EndOf
    <2> QED
      BY <2>5, EndIsKept
  <1> QED
    BY <1>3, <1>4, <1>5, <1>6, <1>7

\* Where the backend keeps every report, a step that adds no message drops at most
\* the one that is read.
LEMMA WayKept ==
    ASSUME TypeInv, [Next]_vars, ~(DevKeepAlive \/ DevAnswer \/ DevError),
           "latest" \notin platform
    PROVE  /\ Kept(Way', Way)
           /\ DevTake \/ DevEmit \/ ForeignReport \/ Unplug \/ UNCHANGED vars => Whole(Way', Way)
  <1>1. PICK f \in Seq(Reports), d \in Seq(Reports) : f = fromDev /\ d = devOut
    BY DEF TypeInv, TypeOK, DeviceTypeOK
  <1>2. PICK g, e, old, new :
           g = fromDev' /\ e = devOut' /\ old = Way /\ new = Way'
    OBVIOUS
  <1>3. old = f \o d /\ new = g \o e
    BY <1>1, <1>2 DEF Way
  <1>4. CASE StartCall \/ RequestTooLong \/ SendPacket \/ WriteFails \/ DevTake \/ Unplug
               \/ UNCHANGED vars
    <2>1. g = f /\ e = d
      BY <1>1, <1>2, <1>4
         DEF StartCall, RequestTooLong, SendPacket, WriteFails, DevTake, Unplug, vars,
             authenticator
    <2>2. Kept(new, old) /\ Whole(new, old)
      BY <1>3, <2>1, KeptQueues
    <2> QED
      BY <1>2, <2>2
  <1>5. CASE DevEmit
    <2>1. d # << >> /\ e = Tail(d) /\ g = Append(f, Head(d))
      BY <1>1, <1>2, <1>5 DEF DevEmit, Queued
    <2>2. \/ g = f /\ e = d
          \/ d # << >> /\ e = Tail(d) /\ g = Append(f, Head(d))
          \/ e = d /\ \E p \in ForeignReports : g = Append(f, p)
      BY <2>1, Zenon
    <2>3. Kept(new, old) /\ Whole(new, old)
      BY <1>3, <2>2, KeptQueues, Zenon
    <2> QED
      BY <1>2, <2>3
  <1>6. CASE ForeignReport
    <2>1. e = d /\ \E p \in ForeignReports : g = Append(f, p)
      BY <1>1, <1>2, <1>6 DEF ForeignReport, Queued, authenticator
    <2>2. Kept(new, old) /\ Whole(new, old)
      BY <1>3, <2>1, KeptQueues
    <2> QED
      BY <1>2, <2>2
  <1>7. CASE Reads \/ ReadFails \/ Reopen
    <2>1. \/ g = f /\ e = d
          \/ e = d /\ ((f # << >> /\ g = Tail(f)) \/ g = << >>)
      BY <1>1, <1>2, <1>7 DEF Reads, ReadFails, Reopen, authenticator
    <2>2. Kept(new, old)
      BY <1>3, <2>1, KeptQueues
    <2> QED
      BY <1>2, <1>4, <1>5, <1>6, <2>2
  <1>8. ReadRefused \/ ReadError \/ ReadKeepAlive \/ ReadFirst \/ ReadContinuation => Reads
    BY DEF ReadRefused, ReadError, ReadKeepAlive, ReadFirst, ReadContinuation
  <1> QED
    BY <1>4, <1>5, <1>6, <1>7, <1>8 DEF Next

\* The packets of a message start with a first one, and each follows the one before.
FollowOn(fr) ==
    \A k \in DOMAIN fr : Owned(fr[k]) /\ PosOf(fr[k]) # 1 =>
       k - 1 \in DOMAIN fr /\ Owned(fr[k - 1]) /\ Follows(fr[k], fr[k - 1])

LEMMA MessageFollows ==
    ASSUME TypeInv, Requests, AnswersInLine, DevKeepAlive \/ DevAnswer \/ DevError
    PROVE  \E fr \in Seq(Reports) :
              Halves(Way', Way, Len(Way), fr, Len(fr)) /\ FollowOn(fr)
  <1>1. /\ dev.st = "work" /\ fromDev' = fromDev
    BY DEF DevKeepAlive, DevAnswer, DevError, client
  <1>2. PICK q, c : q = Asked /\ c = dev.cid
    OBVIOUS
  <1>3. q \in Calls /\ dev.cmd = CommandOn(c) /\ c \in -1..MaxCalls
    <2>1. q \in 1..n /\ q \in Nat /\ q \in Calls /\ n \in 0..MaxCalls /\ MaxCalls \in Nat
      BY <1>1, <1>2, WorkIsBehind, CtapHidAssumption DEF TypeInv, TypeOK, ClientTypeOK
    <2>2. c \in 0..(q - 1) /\ dev.cmd = CommandOn(c)
      BY <1>1, <1>2 DEF Requests, GatheredInOrder
    <2> QED
      BY <2>1, <2>2
  <1>4. SUFFICES \E fr \in Seq(Reports) : devOut' = devOut \o fr /\ FollowOn(fr)
    <2> SUFFICES ASSUME NEW fr \in Seq(Reports), devOut' = devOut \o fr, FollowOn(fr)
                 PROVE  Halves(Way', Way, Len(Way), fr, Len(fr))
      OBVIOUS
    <2>1. PICK f \in Seq(Reports), d \in Seq(Reports) : f = fromDev /\ d = devOut
      BY DEF TypeInv, TypeOK, DeviceTypeOK
    <2>2. PICK old, new : old = Way /\ new = Way' /\ old = f \o d /\ new = f \o (d \o fr)
      BY <1>1, <2>1 DEF Way
    <2>3. old \in Seq(Reports)
      BY <2>2
    <2>4. new = old \o fr
      BY <2>2
    <2>5. Halves(new, old, Len(old), fr, Len(fr))
      BY <2>3, <2>4, ConcatHalves
    <2> QED
      BY <2>2, <2>5
  <1>5. ASSUME NEW msg \in Seq(Byte), Len(msg) <= 1, msg # << >> => msg[1][1] = 0,
               NEW cmd \in Int, devOut' = devOut \o Frames(c, cmd, msg)
        PROVE  \E fr \in Seq(Reports) : devOut' = devOut \o fr /\ FollowOn(fr)
    <2>1. PICK fr : fr = Frames(c, cmd, msg)
      OBVIOUS
    <2>2. Len(fr) = 1 /\ ~Owned(fr[1])
      BY <1>5, <2>1, FramesOfNotice
    <2>3. fr \in Seq(Reports)
      <3>1. Len(msg) <= MaxLen
        BY <1>5, CtapHidAssumption
      <3> QED
        BY <1>3, <2>1, <3>1, FramesTyped
    <2>4. DOMAIN fr = 1..1
      BY <2>2, <2>3
    <2>5. FollowOn(fr)
      BY <2>2, <2>4 DEF FollowOn
    <2> QED
      BY <1>5, <2>1, <2>3, <2>5
  <1>6. CASE DevKeepAlive
    <2>1. PICK s \in Statuses : devOut' = devOut \o Frames(c, CmdKeepAlive, <<<<0, s>>>>)
      BY <1>2, <1>6 DEF DevKeepAlive
    <2>2. <<<<0, s>>>> \in Seq(Byte)
      BY MessagesTyped
    <2>3. PICK msg \in Seq(Byte) : msg = <<<<0, s>>>>
      BY <2>2
    <2>4. Len(msg) <= 1 /\ msg[1][1] = 0 /\ CmdKeepAlive \in Int
      BY <2>3 DEF CmdKeepAlive
    <2> QED
      BY <1>5, <2>1, <2>3, <2>4
  <1>7. CASE DevError
    <2>1. devOut' = devOut \o Frames(c, CmdError, <<Pad>>)
      BY <1>2, <1>7 DEF DevError
    <2>2. <<Pad>> \in Seq(Byte)
      BY MessagesTyped
    <2>3. PICK msg \in Seq(Byte) : msg = <<Pad>>
      BY <2>2
    <2>4. Len(msg) <= 1 /\ msg[1][1] = 0 /\ CmdError \in Int
      BY <2>3 DEF Pad, CmdError
    <2> QED
      BY <1>5, <2>1, <2>3, <2>4
  <1>8. CASE DevAnswer
    <2>1. PICK len, ok :
             /\ len \in IF dev.cmd = CmdInit THEN {InitLen} ELSE RespLens
             /\ ok \in IF dev.cmd = CmdInit THEN {TRUE} ELSE BOOLEAN
             /\ devOut' = devOut \o Frames(c, CommandOn(c),
                             AnswerBytes(q, [len |-> len, ok |-> ok, sent |-> TRUE]))
      BY <1>2, <1>3, <1>8 DEF DevAnswer
    <2>2. PICK a : a = [len |-> len, ok |-> ok, sent |-> TRUE]
      OBVIOUS
    <2>3. a \in [len : 0..MaxLen, ok : BOOLEAN, sent : BOOLEAN]
      <3>1. InitLen \in 0..MaxLen /\ RespLens \subseteq 0..MaxLen
        BY CtapHidAssumption
      <3>2. len \in 0..MaxLen
        BY <2>1, <3>1
      <3>3. ok \in BOOLEAN
        BY <2>1
      <3> QED
        BY <2>2, <3>2, <3>3
    <2>4. CommandOn(c) \in Int
      BY DEF CommandOn, CmdInit, CmdCBOR
    <2>5. PICK msg : msg = AnswerBytes(q, a)
      OBVIOUS
    <2>6. msg \in Seq(Byte) /\ Len(msg) = a.len /\ a.len \in Nat /\ a.len <= MaxLen
      <3>1. q \in 0..MaxCalls
        BY <1>3, CtapHidAssumption DEF Calls
      <3> QED
        BY <2>3, <2>5, <3>1, AnswerBytesAre
    <2>7. CASE a.len = 0
      <3>1. Len(msg) <= 1 /\ msg = << >>
        BY <2>6, <2>7
      <3> QED
        BY <1>5, <2>1, <2>2, <2>4, <2>5, <2>6, <3>1
    <2>8. CASE a.len # 0
      <3>1. PICK fr : fr = Frames(c, CommandOn(c), msg)
        OBVIOUS
      <3>2. fr \in Seq(Reports)
        BY <1>3, <2>4, <2>6, <3>1, FramesTyped
      <3>3. /\ \A k \in 1..Len(fr) : Owned(fr[k]) /\ CallOf(fr[k]) = q
            /\ \A k \in 1..Len(fr) : PosOf(fr[k]) # 1 =>
                  k - 1 \in 1..Len(fr) /\ PosOf(fr[k]) = After(fr[k - 1])
        BY <1>3, <2>3, <2>5, <2>8, <3>1, FramesOfAnswer
      <3>4. DOMAIN fr = 1..Len(fr)
        BY <3>2
      <3>5. FollowOn(fr)
        BY <3>3, <3>4 DEF FollowOn, Follows
      <3> QED
        BY <2>1, <2>2, <2>5, <3>1, <3>2, <3>5
    <2> QED
      BY <2>7, <2>8
  <1> QED
    BY <1>6, <1>7, <1>8

\* Steps during which readResponse keeps what it has, begins, and goes on.
OtherSteps == DevTake \/ DevEmit \/ ForeignReport \/ Unplug \/ UNCHANGED vars
MessageSteps == DevKeepAlive \/ DevAnswer \/ DevError

BeginsReading ==
    /\ Reads /\ OnOurChannel(Report) /\ ~rx.begun /\ Report.tag = Cmd
    /\ Len(Report.body) < Report.len
    /\ rx'.body = Report.body /\ rx'.expected = Report.len

GoesOnReading ==
    /\ Reads /\ rx.begun /\ SeqExpected(Report)
    /\ rx'.body = rx.body \o Report.body /\ Len(rx'.body) < rx.expected
    /\ rx'.expected = rx.expected /\ rx'.body[1] = rx.body[1]

\* The steps of the others leave the client alone.
LEMMA OthersKeep ==
    ASSUME OtherSteps \/ MessageSteps
    PROVE  UNCHANGED client
  BY DEF OtherSteps, MessageSteps, DevTake, DevKeepAlive, DevAnswer, DevError, DevEmit,
         ForeignReport, Unplug, vars

\* How readResponse can have a part of an answer after a step.
LEMMA ReadingStep ==
    ASSUME TypeInv, Receiving, [Next]_vars, rx'.begun
    PROVE  /\ UNCHANGED <<phase, cid, n, out, conn>>
           /\ \/ rx' = rx /\ rx.begun /\ (OtherSteps \/ MessageSteps)
              \/ ReadFirst /\ BeginsReading /\ given' = given
              \/ ReadContinuation /\ GoesOnReading /\ given' = given
  <1>1. rx.begun => pc = "recv"
    BY DEF TypeInv, History
  <1>2. rx' = NoRx => ~rx'.begun
    BY DEF NoRx
  <1>3. CASE OtherSteps \/ MessageSteps
    BY <1>3, OthersKeep DEF client
  <1>4. CASE StartCall \/ SendPacket \/ Reopen
    <2>1. rx' = rx /\ pc # "recv"
      BY <1>4 DEF StartCall, SendPacket, Reopen
    <2> QED
      BY <1>1, <2>1
  <1>5. CASE RequestTooLong \/ WriteFails \/ ReadFails \/ ReadRefused \/ ReadError
    <2>1. rx' = NoRx
      BY <1>5 DEF RequestTooLong, WriteFails, ReadFails, ReadRefused, ReadError, Fail, Return
    <2> QED
      BY <1>2, <2>1
  <1>6. CASE ReadKeepAlive
    <2>1. ~rx.begun
      BY <1>6 DEF ReadKeepAlive, IsKeepAlive
    <2>2. rx' = rx \/ \E s : rx' = [rx EXCEPT !.lastKA = s]
      BY <1>6 DEF ReadKeepAlive
    <2>3. ~rx'.begun
      BY <2>1, <2>2 DEF TypeInv, TypeOK, ClientTypeOK
    <2> QED
      BY <2>3
  <1>7. CASE ReadFirst
    <2>1. PICK p : p = Report /\ Reads /\ OnOurChannel(p) /\ p.tag = Cmd /\ ~rx.begun
      BY <1>7 DEF ReadFirst
    <2>2. CASE Received(p.body, p.len)
      BY <1>2, <2>2, ReceivedEnds
    <2>3. CASE /\ Len(p.body) < p.len
               /\ rx' = [rx EXCEPT !.begun = TRUE, !.body = p.body, !.expected = p.len]
               /\ UNCHANGED <<pc, phase, conn, cid, tx, callbacks, out>>
      <3>1. rx'.body = p.body /\ rx'.expected = p.len
        BY <2>3 DEF TypeInv, TypeOK, ClientTypeOK
      <3> QED
        BY <1>7, <2>1, <2>3, <3>1, HeadOfWay DEF BeginsReading
    <2> QED
      BY <1>7, <2>1, <2>2, <2>3 DEF ReadFirst
  <1>8. CASE ReadContinuation
    <2>1. PICK p : p = Report /\ Reads /\ OnOurChannel(p) /\ SeqExpected(p) /\ rx.begun
      BY <1>8 DEF ReadContinuation
    <2>2. PICK r, f, b : /\ r \in Seq(Byte) /\ f \in Seq(Byte)
                         /\ r = rx.body /\ f = p.body /\ b = r \o f
      BY <2>1, HeadOfWay DEF TypeInv, TypeOK, ClientTypeOK, Reports
    <2>3. CASE Received(b, rx.expected)
      BY <1>2, <2>3, ReceivedEnds
    <2>4. CASE /\ Len(b) < rx.expected
               /\ rx' = [rx EXCEPT !.body = @ \o p.body, !.seq = NextByte(@)]
               /\ UNCHANGED <<pc, phase, conn, cid, tx, callbacks, out>>
      <3>1. rx'.body = b /\ rx'.expected = rx.expected
        BY <2>2, <2>4 DEF TypeInv, TypeOK, ClientTypeOK
      <3>2. b[1] = r[1]
        <4>1. r # << >>
          BY <2>1, <2>2 DEF Receiving
        <4>2. 1 \in 1..Len(r)
          BY <4>1
        <4>3. (r \o f)[1] = r[1]
          BY <4>2, Joined
        <4> QED
          BY <2>2, <4>3
      <3>3. GoesOnReading
        BY <2>1, <2>2, <2>4, <3>1, <3>2 DEF GoesOnReading
      <3> QED
        BY <1>8, <2>1, <2>4, <3>3, HeadOfWay
    <2> QED
      BY <1>8, <2>1, <2>2, <2>3, <2>4 DEF ReadContinuation
  <1> QED
    BY <1>3, <1>4, <1>5, <1>6, <1>7, <1>8 DEF Next, OtherSteps, MessageSteps

\* The answer of call q is handed back, or some bytes of it.
HandsOver(answer, q) ==
    /\ answer # << >> /\ q = answer[1][1]
    /\ q \in 1..n /\ q \in Calls /\ given[q].sent
    /\ IF phase = "init" THEN q = n ELSE cid < q
    /\ "latest" \notin platform => answer = AnswerBytes(q, given[q])
    /\ \A k \in DOMAIN out : AnswerOf(out[k]) < q
    /\ answer = AnswerBytes(q, given[q]) =>
          \A k \in DOMAIN Way' : Owned(Way'[k]) => q < CallOf(Way'[k])

\* How a step ends a call, if it does.
LEMMA StepReturns ==
    ASSUME TypeInv, AnswersInLine, Receiving, ChannelIsOurs, Begun, NoneTwice,
           "latest" \notin platform => Assembles, [Next]_vars
    PROVE  \/ out' = out
           \/ /\ given' = given
              /\ (pc = "idle" /\ n' = n + 1) \/ (Running /\ n' = n)
              /\ \E res, channel : Return(res, << >>, channel)
           \/ /\ given' = given /\ Running /\ n' = n
              /\ \E res, answer, channel, q :
                    Return(res, answer, channel) /\ HandsOver(answer, q)
  <1>1. CASE OtherSteps \/ MessageSteps
    BY <1>1, OthersKeep DEF client
  <1>2. CASE StartCall \/ SendPacket \/ Reopen \/ ReadKeepAlive
    BY <1>2 DEF StartCall, SendPacket, Reopen, ReadKeepAlive
  <1>3. CASE RequestTooLong \/ WriteFails \/ ReadFails \/ ReadRefused \/ ReadError
    <2>1. given' = given
      BY <1>3 DEF RequestTooLong, WriteFails, ReadFails, ReadRefused, ReadError, Reads,
                  authenticator
    <2>2. (pc = "idle" /\ n' = n + 1) \/ (Running /\ n' = n)
      <3>1. CASE RequestTooLong
        BY <3>1 DEF RequestTooLong
      <3>2. CASE WriteFails \/ ReadFails \/ ReadRefused \/ ReadError
        BY <3>2 DEF WriteFails, ReadFails, ReadRefused, ReadError, Reads, Running
      <3> QED
        BY <1>3, <3>1, <3>2
    <2>3. \E res, channel : Return(res, << >>, channel)
      BY <1>3 DEF RequestTooLong, WriteFails, ReadFails, ReadRefused, ReadError, Fail
    <2> QED
      BY <2>1, <2>2, <2>3
  <1>4. CASE ReadFirst \/ ReadContinuation
    <2>1. /\ Reads /\ OnOurChannel(Report)
          /\ \/ UNCHANGED <<pc, phase, conn, cid, tx, callbacks, out>>
             \/ Fail
             \/ \E body \in Seq(Byte), expected \in Nat, answer \in Seq(Byte) :
                   /\ Completes(body, expected, answer)
                   /\ \/ /\ phase = "init" /\ Len(answer) >= InitLen /\ EchoesNonce(answer)
                         /\ Return("ok", answer, answer[NonceLen + 1][1])
                      \/ /\ phase # "init" /\ answer # << >> /\ answer[1][2] # 1
                         /\ Return("refused", answer, cid)
                      \/ /\ phase # "init" /\ answer # << >> /\ answer[1][2] = 1
                         /\ Return("ok", answer, cid)
      BY <1>4, ReadEnds
    <2>2. given' = given /\ Running /\ n' = n
      BY <2>1, HeadOfWay DEF Reads, Running
    <2>3. CASE Fail
      BY <2>2, <2>3 DEF Fail
    <2>4. ASSUME NEW body \in Seq(Byte), NEW expected \in Nat, NEW answer \in Seq(Byte),
                 Completes(body, expected, answer),
                 \/ /\ phase = "init" /\ Len(answer) >= InitLen /\ EchoesNonce(answer)
                    /\ Return("ok", answer, answer[NonceLen + 1][1])
                 \/ /\ phase # "init" /\ answer # << >> /\ answer[1][2] # 1
                    /\ Return("refused", answer, cid)
                 \/ /\ phase # "init" /\ answer # << >> /\ answer[1][2] = 1
                    /\ Return("ok", answer, cid)
          PROVE  \E res, a, channel, q : Return(res, a, channel) /\ HandsOver(a, q)
      <3>1. phase = "init" => answer[1] = <<n, 1>> /\ answer # << >>
        BY <2>1, <2>4, ChannelGiven
      <3>2. PICK q : q = answer[1][1]
        OBVIOUS
      <3>3. answer # << >> /\ (phase = "init" => q = n /\ q # 0)
        <4>1. n # 0
          BY <2>2, RunningCall
        <4> QED
          BY <2>4, <3>1, <3>2, <4>1
      <3>4. /\ q \in 1..n /\ q \in Calls /\ given[q].sent
            /\ phase # "init" => cid < q
            /\ "latest" \notin platform => answer = AnswerBytes(q, given[q])
            /\ \A k \in DOMAIN out : AnswerOf(out[k]) < q
            /\ answer = AnswerBytes(q, given[q]) =>
                 \A k \in DOMAIN Way' : Owned(Way'[k]) => q < CallOf(Way'[k])
        BY <2>1, <2>4, <3>2, <3>3, WhatIsReturned
      <3>5. HandsOver(answer, q)
        BY <3>2, <3>3, <3>4 DEF HandsOver
      <3> QED
        BY <2>4, <3>5
    <2> QED
      BY <2>1, <2>2, <2>3, <2>4
  <1> QED
    BY <1>1, <1>2, <1>3, <1>4 DEF Next, OtherSteps, MessageSteps

\* Answers given stay as they are.
LEMMA GivenStays ==
    ASSUME TypeInv, Requests, AnswersInLine, [Next]_vars
    PROVE  \A q \in Calls : given[q].sent => q \in 1..n /\ given'[q] = given[q]
  <1>1. \A q \in Calls : given[q].sent => q \in 1..n
    <2>1. n \in 0..MaxCalls /\ Calls = 1..MaxCalls /\ MaxCalls \in Nat
      BY CtapHidAssumption DEF TypeInv, TypeOK, ClientTypeOK, Calls
    <2> QED
      BY <2>1 DEF Requests, Unanswered
  <1>2. CASE MessageSteps
    BY <1>1, <1>2, MessageAdded DEF MessageSteps
  <1>3. CASE ~MessageSteps
    <2>1. given' = given
      BY <1>3 DEF MessageSteps, Next, vars, authenticator, StartCall, RequestTooLong, SendPacket,
                  WriteFails, ReadFails, ReadRefused, ReadError, ReadKeepAlive, ReadFirst,
                  ReadContinuation, Reads, Reopen, DevTake, DevEmit, ForeignReport, Unplug
    <2> QED
      BY <1>1, <2>1
  <1> QED
    BY <1>2, <1>3

\* Outcomes are of answers that were given, those of one connection together.
LEMMA HandedBackStep ==
    ASSUME TypeInv, TypeInv', Requests, AnswersInLine, Receiving, ChannelIsOurs, HandedBack,
           Begun, NoneTwice, "latest" \notin platform => Assembles, [Next]_vars
    PROVE  HandedBack'
  <1>1. \A q \in Calls : given[q].sent => given'[q].sent
    BY GivenStays
  <1>2. /\ \A k, l \in DOMAIN out : k < l => out[k].conn <= out[l].conn
        /\ \A k \in DOMAIN out : out[k].body # << >> =>
              out[k].body[1][1] \in Calls /\ given[out[k].body[1][1]].sent
    BY DEF HandedBack
  <1>3. CASE out' = out
    BY <1>1, <1>2, <1>3 DEF HandedBack
  <1>4. ASSUME NEW res, NEW body, NEW channel, Return(res, body, channel),
               body # << >> => body[1][1] \in Calls /\ given'[body[1][1]].sent
        PROVE  HandedBack'
    <2>1. /\ Len(out) \in Nat /\ DOMAIN out = 1..Len(out)
          /\ DOMAIN out' = 1..(Len(out) + 1)
          /\ \A k \in DOMAIN out : out'[k] = out[k]
          /\ out'[Len(out) + 1] = [call |-> n', conn |-> conn, phase |-> phase,
                                   res |-> res, body |-> body]
      BY <1>4, ReturnAppends
    <2>2. PICK new \in Nat : new = Len(out) + 1 /\ DOMAIN out' = 1..new /\ DOMAIN out = 1..(new - 1)
      BY <2>1
    <2>3. out'[new].conn = conn /\ out'[new].body = body
      BY <2>1, <2>2
    <2>4. ASSUME NEW k \in DOMAIN out', NEW l \in DOMAIN out', k < l
          PROVE  out'[k].conn <= out'[l].conn
      <3>1. k \in DOMAIN out
        BY <2>2, <2>4
      <3>2. CASE l = new
        <4>1. out[k].conn <= conn
          BY <3>1 DEF TypeInv, History
        <4> QED
          BY <2>1, <2>3, <3>1, <3>2, <4>1
      <3>3. CASE l # new
        <4>1. l \in DOMAIN out
          BY <2>2, <3>3
        <4> QED
          BY <1>2, <2>1, <2>4, <3>1, <4>1
      <3> QED
        BY <3>2, <3>3
    <2>5. ASSUME NEW k \in DOMAIN out', out'[k].body # << >>
          PROVE  out'[k].body[1][1] \in Calls /\ given'[out'[k].body[1][1]].sent
      <3>1. CASE k = new
        BY <1>4, <2>3, <2>5, <3>1
      <3>2. CASE k # new
        <4>1. k \in DOMAIN out
          BY <2>2, <3>2
        <4> QED
          BY <1>1, <1>2, <2>1, <2>5, <4>1
      <3> QED
        BY <3>1, <3>2
    <2> QED
      BY <2>4, <2>5 DEF HandedBack
  <1>5. CASE \E res, channel : Return(res, << >>, channel)
    BY <1>4, <1>5
  <1>6. CASE \E res, answer, channel, q : Return(res, answer, channel) /\ HandsOver(answer, q)
    <2>1. PICK res, answer, channel, q : Return(res, answer, channel) /\ HandsOver(answer, q)
      BY <1>6
    <2>2. answer[1][1] \in Calls /\ given'[answer[1][1]].sent
      BY <1>1, <2>1 DEF HandsOver
    <2> QED
      BY <1>4, <2>1, <2>2
  <1> QED
    BY <1>3, <1>5, <1>6, StepReturns

\* What readResponse begins on is an answer, of a later call than the connection's.
LEMMA BegunStep ==
    ASSUME TypeInv, TypeInv', Requests, AnswersInLine, Receiving, ChannelIsOurs, Begun,
           [Next]_vars
    PROVE  Begun'
  <1> SUFFICES ASSUME rx'.begun PROVE Begun'
    BY DEF Begun, ReadsAnswer
  <1>0. InitBody \in Nat \ {0} /\ ContBody \in Nat \ {0}
    BY CtapHidAssumption
  <1>1. phase' = phase /\ cid' = cid /\ n' = n
    BY ReadingStep
  <1>2. CASE rx' = rx
    <2>1. \A q \in 1..n : given[q].sent => given'[q] = given[q]
      <3>1. 1..n \subseteq Calls
        BY CtapHidAssumption DEF TypeInv, TypeOK, ClientTypeOK, Calls
      <3> QED
        BY <3>1, GivenStays
    <2> QED
      BY <1>1, <1>2, <2>1 DEF Begun, ReadsAnswer
  <1>3. CASE BeginsReading /\ given' = given
    <2>1. PICK p : /\ p = Report /\ Reads /\ OnOurChannel(p) /\ p.tag = Cmd
                   /\ Len(p.body) < p.len /\ rx'.body = p.body /\ rx'.expected = p.len
      BY <1>3 DEF BeginsReading
    <2>2. /\ IsOnWay(p) /\ p.body # << >>
          /\ phase # "init" /\ p.len # 0 => Owned(p) /\ cid < CallOf(p)
      BY <2>1, FirstIsOwned
    <2>3. p.len # 0
      <3>1. p.len \in Nat /\ Len(p.body) \in Nat
        BY <2>1, HeadOfWay, CtapHidAssumption DEF Reports
      <3> QED
        BY <2>1, <3>1
    <2>4. CallOf(p) = rx'.body[1][1]
      BY <2>1 DEF CallOf
    <2>5. phase' # "init" => cid' < rx'.body[1][1]
      BY <1>1, <2>2, <2>3, <2>4
    <2>6. ASSUME rx'.body[1][1] # 0
          PROVE  /\ rx'.body[1][1] \in 1..n' /\ given'[rx'.body[1][1]].sent
                 /\ rx'.expected = given'[rx'.body[1][1]].len /\ Len(rx'.body) < rx'.expected
                 /\ Len(rx'.body) >= InitBody /\ AtCut(Len(rx'.body) + 1)
      <3>1. Owned(p)
        BY <2>2, <2>4, <2>6 DEF Owned
      <3>2. /\ CallOf(p) \in 1..n /\ given[CallOf(p)].sent /\ Len(p.body) = InitBody
            /\ p.len = given[CallOf(p)].len
        BY <2>1, <3>1, OwnFirst
      <3>3. AtCut(InitBody + 1)
        <4>1. AtCut(1) /\ Room(1) = InitBody /\ InitBody + 1 = 1 + InitBody
          BY <1>0 DEF AtCut, Room
        <4>2. AtCut(1 + Room(1))
          BY <4>1, CutNext
        <4> QED
          BY <4>1, <4>2
      <3> QED
        BY <1>0, <1>1, <1>3, <2>1, <2>4, <3>2, <3>3
    <2> QED
      BY <2>5, <2>6 DEF Begun, ReadsAnswer
  <1>4. CASE GoesOnReading /\ given' = given
    <2>1. PICK p : /\ p = Report /\ Reads /\ rx.begun /\ SeqExpected(p)
                   /\ rx'.body = rx.body \o p.body /\ Len(rx'.body) < rx.expected
                   /\ rx'.expected = rx.expected /\ rx'.body[1] = rx.body[1]
      BY <1>4 DEF GoesOnReading
    <2>2. phase' # "init" => cid' < rx'.body[1][1]
      BY <1>1, <2>1 DEF Begun
    <2>3. ASSUME rx'.body[1][1] # 0
          PROVE  /\ rx'.body[1][1] \in 1..n' /\ given'[rx'.body[1][1]].sent
                 /\ rx'.expected = given'[rx'.body[1][1]].len /\ Len(rx'.body) < rx'.expected
                 /\ Len(rx'.body) >= InitBody /\ AtCut(Len(rx'.body) + 1)
      <3>1. /\ rx.body[1][1] \in 1..n /\ given[rx.body[1][1]].sent
            /\ rx.expected = given[rx.body[1][1]].len
            /\ Len(rx.body) >= InitBody /\ AtCut(Len(rx.body) + 1)
        BY <2>1, <2>3 DEF Begun, ReadsAnswer
      <3>2. PICK r, f : r \in Seq(Byte) /\ f \in Seq(Byte) /\ r = rx.body /\ f = p.body
        BY <2>1, HeadOfWay DEF TypeInv, TypeOK, ClientTypeOK, Reports
      <3>3. Len(p.body) = ContBody
        BY <2>1, NumberedIsNext
      <3>4. PICK m \in Nat : m = Len(r)
        BY <3>2
      <3>5. Len(rx'.body) = m + ContBody
        <4>1. Len(r \o f) = Len(r) + Len(f)
          BY <3>2, Joined
        <4>2. rx'.body = r \o f /\ Len(f) = ContBody
          BY <2>1, <3>2, <3>3
        <4> QED
          BY <3>4, <4>1, <4>2, Zenon
      <3>6. AtCut(m + ContBody + 1)
        <4>1. m + 1 \in Nat \ {0} /\ Room(m + 1) = ContBody
              /\ (m + 1) + ContBody = m + ContBody + 1 /\ AtCut(m + 1)
          BY <1>0, <3>1, <3>2, <3>4 DEF Room
        <4>2. AtCut((m + 1) + Room(m + 1))
          BY <4>1, CutNext
        <4> QED
          BY <4>1, <4>2
      <3>7. m + ContBody >= InitBody
        BY <1>0, <3>1, <3>2, <3>4
      <3> QED
        BY <1>1, <1>4, <2>1, <3>1, <3>5, <3>6, <3>7
    <2> QED
      BY <2>2, <2>3 DEF Begun, ReadsAnswer
  <1> QED
    BY <1>2, <1>3, <1>4, ReadingStep

\* What a step leaves of an outcome, and what one more outcome is.
LEMMA NoneTwiceStep ==
    ASSUME TypeInv, TypeInv', Requests, AnswersInLine, Receiving, ChannelIsOurs, HandedBack,
           Begun, NoneTwice, "latest" \notin platform => Assembles, [Next]_vars
    PROVE  NoneTwice'
  <1>1. \A q \in Calls : given[q].sent => q \in 1..n /\ given'[q] = given[q]
    BY GivenStays
  <1>2. ASSUME NEW k \in DOMAIN out
        PROVE  /\ AnswerOf(out[k]) \in Int
               /\ AnswerOf(out[k]) \in {-1, 0} \/ AnswerOf(out[k]) \in 1..n
               /\ AnswerOf(out[k]) \in 1..n => given[AnswerOf(out[k])].sent
               /\ \A l \in DOMAIN Way : Owned(Way[l]) => AnswerOf(out[k]) < CallOf(Way[l])
               /\ ReadsAnswer => AnswerOf(out[k]) < rx.body[1][1]
    BY AnswerOfIs DEF NoneTwice, Requests
  <1>3. ASSUME NEW o, NEW k \in DOMAIN out, o = out[k]
        PROVE  AnswerOf(o)' = AnswerOf(o)
    <2>1. o.body # << >> => o.body[1][1] \in Calls /\ given[o.body[1][1]].sent
      BY <1>3 DEF HandedBack
    <2> QED
      BY <1>1, <2>1, AnswerOfKept
  <1>4. ASSUME NEW k \in DOMAIN out
        PROVE  /\ \A l \in DOMAIN Way' : Owned(Way'[l]) => AnswerOf(out[k]) < CallOf(Way'[l])
               /\ ReadsAnswer' => AnswerOf(out[k]) < rx'.body[1][1]
    <2>1. ASSUME NEW l \in DOMAIN Way', Owned(Way'[l])
          PROVE  AnswerOf(out[k]) < CallOf(Way'[l])
      <3>1. CASE MessageSteps
        <4>1. PICK fr \in Seq(Reports) : IsMessage(fr, Asked, dev.cid) /\ Longer(Way', Way, fr)
          BY <3>1, MessageAdded DEF MessageSteps
        <4>2. dev.st = "work" /\ \A q \in 1..n : given[q].sent => q < Asked
          BY <3>1, MessageAdded DEF MessageSteps
        <4>3. Asked \in 1..n /\ Asked \in Nat
          BY <4>2, WorkIsBehind
        <4>4. CASE \E i \in DOMAIN Way : Way'[l] = Way[i]
          BY <1>2, <2>1, <4>4
        <4>5. CASE \E i \in DOMAIN fr : Way'[l] = fr[i]
          <5>1. CallOf(Way'[l]) = Asked
            BY <2>1, <4>1, <4>5 DEF IsMessage
          <5>2. PICK a, b : a = AnswerOf(out[k]) /\ b = Asked
            OBVIOUS
          <5>3. a \in {-1, 0} \/ a < b
            BY <1>2, <4>2, <5>2
          <5>4. a < b
            BY <4>3, <5>2, <5>3
          <5> QED
            BY <5>1, <5>2, <5>4
        <4> QED
          BY <4>1, <4>4, <4>5 DEF Longer
      <3>2. CASE ~MessageSteps
        <4>1. Thinner(Way', Way)
          BY <3>2, WayThinner DEF MessageSteps
        <4>2. PICK i \in DOMAIN Way : Way'[l] = Way[i]
          BY <2>1, <4>1, ForeignNotOwned DEF Thinner
        <4> QED
          BY <1>2, <2>1, <4>2
      <3> QED
        BY <3>1, <3>2
    <2>2. ASSUME ReadsAnswer'
          PROVE  AnswerOf(out[k]) < rx'.body[1][1]
      <3>1. rx'.begun /\ rx'.body[1][1] # 0
        BY <2>2 DEF ReadsAnswer
      <3>2. CASE rx' = rx
        BY <1>2, <3>1, <3>2 DEF ReadsAnswer
      <3>3. CASE BeginsReading
        <4>1. PICK p : /\ p = Report /\ Reads /\ OnOurChannel(p) /\ p.tag = Cmd
                       /\ rx'.body = p.body
          BY <3>3 DEF BeginsReading
        <4>2. p.body # << >>
          BY <4>1, FirstIsOwned
        <4>3. Owned(p) /\ CallOf(p) = rx'.body[1][1]
          BY <3>1, <4>1, <4>2 DEF Owned, CallOf
        <4> QED
          BY <1>2, <4>1, <4>3, HeadOfWay
      <3>4. CASE GoesOnReading
        <4>1. rx.begun /\ rx'.body[1] = rx.body[1]
          BY <3>4 DEF GoesOnReading
        <4> QED
          BY <1>2, <3>1, <4>1 DEF ReadsAnswer
      <3> QED
        BY <3>1, <3>2, <3>3, <3>4, ReadingStep
    <2> QED
      BY <2>1, <2>2
  <1>5. ASSUME NEW o, NEW k \in DOMAIN out, o = out[k]
        PROVE  /\ \A l \in DOMAIN Way' : Owned(Way'[l]) => AnswerOf(o)' < CallOf(Way'[l])
               /\ ReadsAnswer' => AnswerOf(o)' < rx'.body[1][1]
    BY <1>3, <1>4, <1>5
  <1>6. CASE out' = out
    <2> SUFFICES ASSUME NEW k \in DOMAIN out'
                 PROVE  /\ \A l \in DOMAIN Way' : Owned(Way'[l]) => AnswerOf(out[k])' < CallOf(Way'[l])
                        /\ ReadsAnswer' => AnswerOf(out[k])' < rx'.body[1][1]
      BY DEF NoneTwice
    <2>1. PICK o : o = out[k] /\ o = out'[k] /\ k \in DOMAIN out
      BY <1>6
    <2>2. AnswerOf(out[k])' = AnswerOf(o)'
      BY <2>1 DEF AnswerOf
    <2> QED
      BY <1>5, <2>1, <2>2
  <1>7. ASSUME NEW res, NEW body, NEW channel, Return(res, body, channel), given' = given,
               NEW q, IF body = << >> THEN q = 0 ELSE HandsOver(body, q)
        PROVE  NoneTwice'
    <2>1. /\ Len(out) \in Nat /\ DOMAIN out = 1..Len(out)
          /\ DOMAIN out' = 1..(Len(out) + 1)
          /\ \A k \in DOMAIN out : out'[k] = out[k]
          /\ out'[Len(out) + 1] = [call |-> n', conn |-> conn, phase |-> phase,
                                   res |-> res, body |-> body]
          /\ rx' = NoRx
      BY <1>7, ReturnAppends
    <2> SUFFICES ASSUME NEW k \in DOMAIN out'
                 PROVE  /\ \A l \in DOMAIN Way' : Owned(Way'[l]) => AnswerOf(out[k])' < CallOf(Way'[l])
                        /\ ReadsAnswer' => AnswerOf(out[k])' < rx'.body[1][1]
      BY DEF NoneTwice
    <2>2. CASE k \in DOMAIN out
      <3>1. PICK o : o = out[k] /\ o = out'[k]
        BY <2>1, <2>2
      <3>2. AnswerOf(out[k])' = AnswerOf(o)'
        BY <3>1 DEF AnswerOf
      <3> QED
        BY <1>5, <2>2, <3>1, <3>2
    <2>3. CASE k \notin DOMAIN out
      <3>1. PICK o : o = out'[k] /\ o.body = body
        BY <2>1, <2>3
      <3>2. AnswerOf(out[k])' = AnswerOf(o)
        BY <1>7, <3>1 DEF AnswerOf
      <3>3. ~ReadsAnswer'
        BY <2>1 DEF ReadsAnswer, NoRx
      <3>4. ASSUME NEW l \in DOMAIN Way', Owned(Way'[l])
            PROVE  AnswerOf(o) < CallOf(Way'[l])
        <4>1. PICK p : p = Way'[l]
          OBVIOUS
        <4>2. CallOf(p) \in Nat \ {0}
          <5>1. AnswersInLine'
            BY AnswersInLineStep
          <5>2. IsOnWay(p)'
            BY <4>1, <5>1 DEF AnswersInLine
          <5>3. Owned(p) /\ CallOf(p)' = CallOf(p) /\ Owned(p)'
            BY <3>4, <4>1 DEF Owned, CallOf
          <5>4. IsAnswer(p)'
            BY <5>2, <5>3, ForeignNotOwned DEF IsOnWay
          <5>5. CallOf(p) \in 1..n' /\ n' \in Nat
            BY <5>4, CtapHidAssumption DEF IsAnswer, TypeInv, TypeOK, ClientTypeOK
          <5> QED
            BY <5>5
        <4>3. CASE AnswerOf(o) \in {-1, 0}
          BY <4>1, <4>2, <4>3
        <4>4. CASE AnswerOf(o) \notin {-1, 0}
          <5>1. body # << >> /\ AnswerOf(o) = body[1][1] /\ body = AnswerBytes(body[1][1], given[body[1][1]])
            BY <3>1, <4>4 DEF AnswerOf
          <5>2. HandsOver(body, q)
            BY <1>7, <5>1
          <5>3. q < CallOf(Way'[l]) /\ AnswerOf(o) = q
            BY <3>4, <5>1, <5>2 DEF HandsOver
          <5> QED
            BY <5>3
        <4> QED
          BY <4>3, <4>4
      <3> QED
        BY <3>2, <3>3, <3>4
    <2> QED
      BY <2>2, <2>3
  <1>8. CASE given' = given /\ \E res, channel : Return(res, << >>, channel)
    BY <1>7, <1>8
  <1>9. CASE /\ given' = given
             /\ \E res, answer, channel, q : Return(res, answer, channel) /\ HandsOver(answer, q)
    <2>1. PICK res, answer, channel, q : Return(res, answer, channel) /\ HandsOver(answer, q)
      BY <1>9
    <2>2. answer # << >>
      BY <2>1 DEF HandsOver
    <2> QED
      BY <1>7, <1>9, <2>1, <2>2
  <1> QED
    BY <1>6, <1>8, <1>9, StepReturns

LEMMA SamePlatform ==
    ASSUME [Next]_vars
    PROVE  platform' = platform
  BY DEF Next, vars, world, StartCall, RequestTooLong, SendPacket, WriteFails, ReadFails,
         ReadRefused, ReadError, ReadKeepAlive, ReadFirst, ReadContinuation, Reads, Reopen,
         DevTake, DevKeepAlive, DevAnswer, DevError, DevEmit, ForeignReport, Unplug

\* What a message adds to the reports on the way.
LEMMA AddedBehind ==
    ASSUME TypeInv, Requests, AnswersInLine, MessageSteps
    PROVE  \E m \in Nat :
              /\ DOMAIN Way = 1..m
              /\ \A k \in DOMAIN Way : k \in DOMAIN Way' /\ Way'[k] = Way[k]
              /\ \A l \in DOMAIN Way' : l \notin DOMAIN Way /\ Owned(Way'[l]) /\ PosOf(Way'[l]) # 1 =>
                    /\ l - 1 \in DOMAIN Way' /\ l - 1 < l
                    /\ Owned(Way'[l - 1]) /\ Follows(Way'[l], Way'[l - 1])
  <1>1. PICK fr \in Seq(Reports) : Halves(Way', Way, Len(Way), fr, Len(fr)) /\ FollowOn(fr)
    BY MessageFollows DEF MessageSteps
  <1>2. PICK old, new : old = Way /\ new = Way' /\ old \in Seq(Reports)
    BY WayIs
  <1>3. PICK m, x : m \in Nat /\ x \in Nat /\ m = Len(old) /\ x = Len(fr)
    BY <1>1, <1>2, SMTT(30)
  <1>4. /\ DOMAIN new = 1..(m + x) /\ DOMAIN old = 1..m /\ DOMAIN fr = 1..x
        /\ \A k \in 1..(m + x) : new[k] = IF k <= m THEN old[k] ELSE fr[k - m]
    BY <1>1, <1>2, <1>3 DEF Halves
  <1>5. \A k \in DOMAIN old : k \in DOMAIN new /\ new[k] = old[k]
    BY <1>3, <1>4
  <1>6. ASSUME NEW l \in DOMAIN new, l \notin DOMAIN old, Owned(new[l]), PosOf(new[l]) # 1
        PROVE  /\ l - 1 \in DOMAIN new /\ l - 1 < l
               /\ Owned(new[l - 1]) /\ Follows(new[l], new[l - 1])
    <2>1. PICK i : i = l - m /\ i \in 1..x /\ l > m /\ i = l - m
      BY <1>3, <1>4, <1>6
    <2>2. new[l] = fr[i]
      BY <1>3, <1>4, <2>1
    <2>3. i - 1 \in DOMAIN fr /\ Owned(fr[i - 1]) /\ Follows(fr[i], fr[i - 1])
      BY <1>1, <1>4, <1>6, <2>1, <2>2 DEF FollowOn
    <2>4. l - 1 \in 1..(m + x) /\ ~(l - 1 <= m) /\ (l - 1) - m = i - 1 /\ l - 1 < l
      BY <1>3, <1>4, <2>1, <2>3
    <2>5. new[l - 1] = fr[i - 1]
      BY <1>4, <2>4
    <2> QED
      BY <1>4, <2>2, <2>3, <2>4, <2>5
  <1> QED
    BY <1>2, <1>3, <1>4, <1>5, <1>6

\* Where every report is kept, no packet of an answer gets to be without the one
\* before it.
LEMMA UnbrokenStep ==
    ASSUME TypeInv, Requests, AnswersInLine, Unbroken, "latest" \notin platform, [Next]_vars
    PROVE  Unbroken'
  <1>1. PICK old, new : old = Way /\ new = Way'
    OBVIOUS
  <1>2. /\ \A k \in DOMAIN old : IsOnWay(old[k])
        /\ \A k, l \in DOMAIN old : k < l => Before(old[k], old[l])
    BY <1>1 DEF AnswersInLine
  <1>3. ASSUME NEW k \in DOMAIN old, NEW l \in DOMAIN old, k < l, Owned(old[k]), Owned(old[l]),
               PosOf(old[l]) # 1
        PROVE  \E m \in DOMAIN old : m < l /\ Owned(old[m]) /\ Follows(old[l], old[m])
    BY <1>1, <1>3 DEF Unbroken
  <1> SUFFICES ASSUME NEW k \in DOMAIN new, NEW l \in DOMAIN new, k < l,
                      Owned(new[k]), Owned(new[l]), PosOf(new[l]) # 1
               PROVE  \E m \in DOMAIN new : m < l /\ Owned(new[m]) /\ Follows(new[l], new[m])
    BY <1>1 DEF Unbroken
  <1>4. CASE MessageSteps
    <2>1. PICK m \in Nat :
              /\ DOMAIN old = 1..m
              /\ \A i \in DOMAIN old : i \in DOMAIN new /\ new[i] = old[i]
              /\ \A i \in DOMAIN new : i \notin DOMAIN old /\ Owned(new[i]) /\ PosOf(new[i]) # 1 =>
                    /\ i - 1 \in DOMAIN new /\ i - 1 < i
                    /\ Owned(new[i - 1]) /\ Follows(new[i], new[i - 1])
      BY <1>1, <1>4, AddedBehind
    <2>2. CASE l \in DOMAIN old
      <3>1. k \in DOMAIN old
        <4>1. new \in Seq(Reports)
          <5>1. TypeInv'
            BY NextTypeInv
          <5>2. fromDev' \in Seq(Reports) /\ devOut' \in Seq(Reports)
            BY <5>1 DEF TypeInv, TypeOK, DeviceTypeOK
          <5> QED
            BY <1>1, <5>2 DEF Way
        <4>2. k \in Nat /\ k >= 1
          BY <4>1
        <4> QED
          BY <2>1, <2>2, <4>2
      <3>2. \E i \in DOMAIN old : i < l /\ Owned(old[i]) /\ Follows(old[l], old[i])
        BY <1>3, <2>1, <2>2, <3>1
      <3> QED
        BY <2>1, <2>2, <3>2
    <2>3. CASE l \notin DOMAIN old
      BY <2>1, <2>3
    <2> QED
      BY <2>2, <2>3
  <1>5. CASE ~MessageSteps
    <2>1. Kept(new, old)
      BY <1>1, <1>5, WayKept DEF MessageSteps
    <2>2. PICK i \in DOMAIN old, j \in DOMAIN old :
             /\ i < j /\ new[k] = old[i] /\ new[l] = old[j]
             /\ \A m \in DOMAIN old : i <= m /\ m < j =>
                   \E h \in DOMAIN new : h < l /\ new[h] = old[m]
      BY <2>1, ForeignNotOwned DEF Kept
    <2>3. PICK m \in DOMAIN old : m < j /\ Owned(old[m]) /\ Follows(old[j], old[m])
      BY <1>3, <2>2
    <2>4. i <= m
      <3> SUFFICES ASSUME ~(i <= m) PROVE FALSE
        OBVIOUS
      <3>1. m < i
        <4>1. old \in Seq(Reports)
          BY <1>1, WayIs
        <4>2. i \in Nat /\ m \in Nat
          BY <4>1
        <4> QED
          BY <4>2
      <3>2. PICK a, b, c : a = old[m] /\ b = old[i] /\ c = old[j]
        OBVIOUS
      <3>3. /\ IsOnWay(a) /\ IsOnWay(b) /\ IsOnWay(c) /\ Owned(a) /\ Owned(b) /\ Owned(c)
            /\ Before(a, b) /\ Before(b, c) /\ Follows(c, a)
        BY <1>2, <2>2, <2>3, <3>1, <3>2
      <3>4. /\ CallOf(a) <= CallOf(b) /\ CallOf(b) <= CallOf(c)
            /\ CallOf(a) = CallOf(b) => PosOf(a) + Room(PosOf(a)) <= PosOf(b)
            /\ CallOf(b) = CallOf(c) => PosOf(b) + Room(PosOf(b)) <= PosOf(c)
        BY <3>3, Behind
      <3>5. /\ CallOf(a) \in Nat /\ CallOf(b) \in Nat /\ PosOf(a) \in Nat /\ PosOf(b) \in Nat
            /\ PosOf(c) \in Nat /\ Room(PosOf(b)) \in Nat \ {0} /\ Room(PosOf(a)) \in Nat
        BY <3>3, AnswerIs
      <3>6. CallOf(c) = CallOf(a) /\ PosOf(c) = PosOf(a) + Room(PosOf(a))
        BY <3>3 DEF Follows, After
      <3> QED
        BY <3>4, <3>5, <3>6
    <2>5. PICK h \in DOMAIN new : h < l /\ new[h] = old[m]
      BY <2>2, <2>3, <2>4
    <2> QED
      BY <2>2, <2>3, <2>5
  <1> QED
    BY <1>4, <1>5

\* Once a packet of an answer is read, the first packet left that is not the
\* first of its answer follows it.
LEMMA AfterHead ==
    ASSUME TypeInv, TypeInv', Reads, Unbroken, NEW p, p = Report, Owned(p),
           NEW l \in DOMAIN Way', Owned(Way'[l]), PosOf(Way'[l]) # 1
    PROVE  (\E k \in DOMAIN Way' : k < l /\ Owned(Way'[k])) \/ Follows(Way'[l], p)
  <1>1. PICK old, new : old = Way /\ new = Way' /\ old \in Seq(Reports) /\ new \in Seq(Reports)
    <2>1. fromDev' \in Seq(Reports) /\ devOut' \in Seq(Reports)
      BY DEF TypeInv, TypeOK, DeviceTypeOK
    <2>2. Way' \in Seq(Reports)
      BY <2>1 DEF Way
    <2> QED
      BY <2>2, WayIs
  <1>2. /\ 1 \in DOMAIN old /\ p = old[1]
        /\ \A k \in DOMAIN new : k + 1 \in DOMAIN old /\ 1 < k + 1 /\ new[k] = old[k + 1]
    BY <1>1, HeadOfWay
  <1>3. PICK j : j = l + 1 /\ j \in DOMAIN old /\ 1 < j /\ new[l] = old[j]
    BY <1>1, <1>2
  <1>4. PICK m \in DOMAIN old : m < j /\ Owned(old[m]) /\ Follows(old[j], old[m])
    BY <1>1, <1>2, <1>3 DEF Unbroken
  <1>5. CASE m = 1
    BY <1>1, <1>2, <1>3, <1>4, <1>5
  <1>6. CASE m # 1
    <2>1. m - 1 \in DOMAIN new /\ m - 1 < l /\ (m - 1) + 1 = m
      BY <1>1, <1>3, <1>4, <1>6
    <2>2. new[m - 1] = old[m]
      BY <1>2, <2>1
    <2> QED
      BY <1>1, <1>4, <2>1, <2>2
  <1> QED
    BY <1>5, <1>6

\* ... and what readResponse puts together is the beginning of one answer.
LEMMA AssemblesStep ==
    ASSUME TypeInv, TypeInv', Requests, AnswersInLine, Receiving, ChannelIsOurs, Begun,
           Unbroken, Assembles, "latest" \notin platform, [Next]_vars
    PROVE  Assembles'
  <1> SUFFICES ASSUME ReadsAnswer' PROVE Assembles'
    BY DEF Assembles
  <1>0. InitBody \in Nat \ {0} /\ ContBody \in Nat \ {0}
    BY CtapHidAssumption
  <1>1. rx'.begun /\ rx'.body[1][1] # 0
    BY DEF ReadsAnswer
  <1>2. PICK q : q = rx'.body[1][1]
    OBVIOUS
  <1>3. SUFFICES /\ \A j \in 1..Len(rx'.body) : rx'.body[j] = ByteOf(q, given'[q].ok, j)
                 /\ \A l \in DOMAIN Way' : Owned(Way'[l]) /\ PosOf(Way'[l]) # 1 =>
                       \/ \E k \in DOMAIN Way' : k < l /\ Owned(Way'[k])
                       \/ CallOf(Way'[l]) = q /\ PosOf(Way'[l]) = Len(rx'.body) + 1
    BY <1>2 DEF Assembles
  <1>4. CASE rx' = rx /\ (OtherSteps \/ MessageSteps)
    <2>1. ReadsAnswer
      BY <1>1, <1>4 DEF ReadsAnswer
    <2>2. /\ \A j \in 1..Len(rx.body) : rx.body[j] = ByteOf(q, given[q].ok, j)
          /\ \A l \in DOMAIN Way : Owned(Way[l]) /\ PosOf(Way[l]) # 1 =>
                \/ \E k \in DOMAIN Way : k < l /\ Owned(Way[k])
                \/ CallOf(Way[l]) = q /\ PosOf(Way[l]) = Len(rx.body) + 1
      BY <1>2, <1>4, <2>1 DEF Assembles
    <2>3. given'[q] = given[q]
      <3>1. q \in 1..n /\ given[q].sent /\ 1..n \subseteq Calls
        BY <1>2, <1>4, <2>1, CtapHidAssumption DEF Begun, TypeInv, TypeOK, ClientTypeOK, Calls
      <3> QED
        BY <3>1, GivenStays
    <2>4. ASSUME NEW l \in DOMAIN Way', Owned(Way'[l]), PosOf(Way'[l]) # 1
          PROVE  \/ \E k \in DOMAIN Way' : k < l /\ Owned(Way'[k])
                 \/ CallOf(Way'[l]) = q /\ PosOf(Way'[l]) = Len(rx.body) + 1
      <3>1. CASE MessageSteps
        <4>1. PICK m \in Nat :
              /\ DOMAIN Way = 1..m
              /\ \A k \in DOMAIN Way : k \in DOMAIN Way' /\ Way'[k] = Way[k]
              /\ \A i \in DOMAIN Way' : i \notin DOMAIN Way /\ Owned(Way'[i]) /\ PosOf(Way'[i]) # 1 =>
                    /\ i - 1 \in DOMAIN Way' /\ i - 1 < i
                    /\ Owned(Way'[i - 1]) /\ Follows(Way'[i], Way'[i - 1])
          BY <3>1, AddedBehind
        <4>2. CASE l \in DOMAIN Way
          <5>1. Way'[l] = Way[l]
            BY <4>1, <4>2
          <5>2. \/ \E k \in DOMAIN Way : k < l /\ Owned(Way[k])
                \/ CallOf(Way[l]) = q /\ PosOf(Way[l]) = Len(rx.body) + 1
            BY <2>2, <2>4, <4>2, <5>1
          <5> QED
            BY <4>1, <5>1, <5>2
        <4>3. CASE l \notin DOMAIN Way
          BY <2>4, <4>1, <4>3
        <4> QED
          BY <4>2, <4>3
      <3>2. CASE ~MessageSteps
        <4>1. Whole(Way', Way)
          BY <1>4, <3>2, WayKept DEF MessageSteps, OtherSteps
        <4>2. PICK j \in DOMAIN Way :
                  /\ Way'[l] = Way[j]
                  /\ \A m \in DOMAIN Way : m < j =>
                        \E h \in DOMAIN Way' : h < l /\ Way'[h] = Way[m]
          BY <2>4, <4>1, ForeignNotOwned DEF Whole
        <4>3. \/ \E k \in DOMAIN Way : k < j /\ Owned(Way[k])
              \/ CallOf(Way[j]) = q /\ PosOf(Way[j]) = Len(rx.body) + 1
          BY <2>2, <2>4, <4>2
        <4> QED
          BY <4>2, <4>3
      <3> QED
        BY <3>1, <3>2
    <2> QED
      BY <1>4, <2>2, <2>3, <2>4
  <1>5. CASE BeginsReading /\ given' = given
    <2>1. PICK p : /\ p = Report /\ Reads /\ OnOurChannel(p) /\ p.tag = Cmd
                   /\ Len(p.body) < p.len /\ rx'.body = p.body
      BY <1>5 DEF BeginsReading
    <2>2. p.body # << >> /\ IsOnWay(p)
      BY <2>1, FirstIsOwned
    <2>3. Owned(p) /\ CallOf(p) = q
      BY <1>1, <1>2, <2>1, <2>2 DEF Owned, CallOf
    <2>4. /\ Len(p.body) = InitBody /\ p.len \in Nat
          /\ \A j \in 1..InitBody : j <= p.len => p.body[j] = ByteOf(q, given[q].ok, j)
      BY <2>1, <2>3, OwnFirst
    <2>5. \A j \in 1..InitBody : j <= p.len
      BY <1>0, <2>1, <2>4
    <2>6. PosOf(p) = 1 /\ After(p) = InitBody + 1
      <3>1. p.tag \in Commands
        BY <2>1 DEF Cmd, Commands
      <3>2. PosOf(p) = 1
        BY <2>2, <2>3, <3>1, AnswerIs
      <3> QED
        BY <1>0, <3>2 DEF After, Room
    <2>7. ASSUME NEW l \in DOMAIN Way', Owned(Way'[l]), PosOf(Way'[l]) # 1
          PROVE  \/ \E k \in DOMAIN Way' : k < l /\ Owned(Way'[k])
                 \/ CallOf(Way'[l]) = q /\ PosOf(Way'[l]) = InitBody + 1
      <3>1. (\E k \in DOMAIN Way' : k < l /\ Owned(Way'[k])) \/ Follows(Way'[l], p)
        BY <2>1, <2>3, <2>7, AfterHead
      <3> QED
        BY <2>3, <2>6, <3>1 DEF Follows
    <2> QED
      BY <1>5, <2>1, <2>4, <2>5, <2>7
  <1>6. CASE GoesOnReading /\ given' = given
    <2>1. PICK p : /\ p = Report /\ Reads /\ rx.begun /\ SeqExpected(p)
                   /\ rx'.body = rx.body \o p.body /\ Len(rx'.body) < rx.expected
                   /\ rx'.body[1] = rx.body[1]
      BY <1>6 DEF GoesOnReading
    <2>2. ReadsAnswer /\ q = rx.body[1][1]
      BY <1>1, <1>2, <2>1 DEF ReadsAnswer
    <2>3. PICK r, f : r \in Seq(Byte) /\ f \in Seq(Byte) /\ r = rx.body /\ f = p.body
      BY <2>1, HeadOfWay DEF TypeInv, TypeOK, ClientTypeOK, Reports
    <2>4. PICK m \in Nat : m = Len(r)
      BY <2>3
    <2>5. /\ IsOnWay(p) /\ Owned(p) /\ PosOf(p) # 1 /\ PosOf(p) \in Nat \ {0}
          /\ Room(PosOf(p)) = ContBody /\ Len(f) = ContBody
      BY <2>1, <2>3, NumberedIsNext
    <2>6. CallOf(p) = q /\ PosOf(p) = m + 1 /\ \A j \in 1..m : r[j] = ByteOf(q, given[q].ok, j)
      <3>1. 1 \in DOMAIN Way /\ p = Way[1] /\ \A k \in DOMAIN Way : ~(k < 1)
        <4>1. Way \in Seq(Reports)
          BY WayIs
        <4> QED
          BY <2>1, <4>1, HeadOfWay
      <3> QED
        BY <2>2, <2>3, <2>4, <2>5, <3>1 DEF Assembles
    <2>7. rx.expected = given[q].len /\ given[q].len \in Nat
      <3>1. rx.expected = given[q].len
        BY <2>2 DEF Begun
      <3>2. rx.expected \in Nat
        BY CtapHidAssumption DEF TypeInv, TypeOK, ClientTypeOK
      <3> QED
        BY <3>1, <3>2
    <2>8. PICK b : /\ b = rx'.body /\ Len(b) = m + ContBody
                   /\ \A j \in 1..m : b[j] = r[j]
                   /\ \A j \in 1..ContBody : b[m + j] = f[j]
      <3>1. /\ Len(r \o f) = Len(r) + Len(f)
            /\ \A j \in 1..Len(r) : (r \o f)[j] = r[j]
            /\ \A j \in 1..Len(f) : (r \o f)[Len(r) + j] = f[j]
        <4>1. r \in Seq(Byte) /\ f \in Seq(Byte)
          BY <2>3
        <4> QED
          BY <4>1, Joined
      <3>2. rx'.body = r \o f
        BY <2>1, <2>3
      <3> QED
        BY <2>4, <2>5, <3>1, <3>2, Zenon
    <2>9. m + ContBody < given[q].len
      BY <2>1, <2>7, <2>8
    <2>10. \A j \in 1..ContBody : PosOf(p) + j - 1 <= given[CallOf(p)].len =>
              p.body[j] = ByteOf(CallOf(p), given[CallOf(p)].ok, PosOf(p) + j - 1)
      BY <2>5, AnswerIs
    <2>11. ASSUME NEW j \in 1..(m + ContBody)
           PROVE  b[j] = ByteOf(q, given[q].ok, j)
      <3>1. CASE j <= m
        <4>1. j \in 1..m
          BY <3>1
        <4> QED
          BY <2>6, <2>8, <4>1
      <3>2. CASE ~(j <= m)
        <4>1. PICK i \in 1..ContBody : j = m + i
          <5>1. j - m \in 1..ContBody /\ j = m + (j - m)
            BY <1>0, <3>2
          <5> QED
            BY <5>1
        <4>2. PosOf(p) + i - 1 = j /\ j <= given[q].len
          BY <1>0, <2>6, <2>7, <2>9, <4>1
        <4>3. p.body[i] = ByteOf(q, given[q].ok, j)
          BY <2>6, <2>10, <4>2
        <4> QED
          BY <2>3, <2>8, <4>1, <4>3
      <3> QED
        BY <3>1, <3>2
    <2>12. After(p) = (m + ContBody) + 1
      BY <1>0, <2>5, <2>6 DEF After
    <2>13. ASSUME NEW l \in DOMAIN Way', Owned(Way'[l]), PosOf(Way'[l]) # 1
           PROVE  \/ \E k \in DOMAIN Way' : k < l /\ Owned(Way'[k])
                  \/ CallOf(Way'[l]) = q /\ PosOf(Way'[l]) = (m + ContBody) + 1
      <3>1. (\E k \in DOMAIN Way' : k < l /\ Owned(Way'[k])) \/ Follows(Way'[l], p)
        BY <2>1, <2>5, <2>13, AfterHead
      <3> QED
        BY <2>6, <2>12, <3>1 DEF Follows
    <2> QED
      BY <1>6, <2>8, <2>11, <2>13
  <1> QED
    BY <1>1, <1>4, <1>5, <1>6, ReadingStep

\* All that calls hand back, and are about to.
LEMMA HandsBackStep ==
    ASSUME TypeInv, TypeInv', Requests, AnswersInLine, Receiving, ChannelIsOurs, HandsBack,
           [Next]_vars
    PROVE  HandsBack'
  <1>1. /\ HandedBack /\ Begun /\ NoneTwice
        /\ "latest" \notin platform => Unbroken /\ Assembles
    BY DEF HandsBack
  <1>2. HandedBack' /\ Begun' /\ NoneTwice'
    BY <1>1, HandedBackStep, BegunStep, NoneTwiceStep
  <1>3. platform' = platform
    BY SamePlatform
  <1>4. CASE "latest" \notin platform
    BY <1>1, <1>2, <1>3, <1>4, UnbrokenStep, AssemblesStep DEF HandsBack
  <1>5. CASE "latest" \in platform
    BY <1>2, <1>3, <1>5 DEF HandsBack
  <1> QED
    BY <1>4, <1>5

-----------------------------------------------------------------------------
(* The exchange a connection is to the commands above it *)

\* What the exchange sees of a connection.
Earlier == {k \in DOMAIN out : out[k].conn < conn}
First == 1 + Cardinality(Earlier)
Answered == {q \in Calls : given[q].sent}
ReturnedBy == [k \in DOMAIN out |-> AnswerOf(out[k])]

\* The actions of the exchange in these terms.
LEMMA SeenAs ==
    /\ Channel!Connect <=>
          /\ ~(Len(ReturnedBy) < n) /\ First' = n + 1
          /\ n' = n /\ Answered' = Answered /\ ReturnedBy' = ReturnedBy
          /\ ("latest" \in platform)' = ("latest" \in platform)
    /\ Channel!Begin <=>
          /\ ~(Len(ReturnedBy) < n) /\ n' = n + 1
          /\ First' = First /\ Answered' = Answered /\ ReturnedBy' = ReturnedBy
          /\ ("latest" \in platform)' = ("latest" \in platform)
    /\ Channel!Refuse <=>
          /\ ~(Len(ReturnedBy) < n) /\ n' = n + 1 /\ ReturnedBy' = Append(ReturnedBy, 0)
          /\ First' = First /\ Answered' = Answered
          /\ ("latest" \in platform)' = ("latest" \in platform)
    /\ Channel!Answer <=>
          /\ \E q \in 1..n : (\A a \in Answered : a < q) /\ Answered' = Answered \cup {q}
          /\ n' = n /\ First' = First /\ ReturnedBy' = ReturnedBy
          /\ ("latest" \in platform)' = ("latest" \in platform)
    /\ Channel!Return <=>
          /\ Len(ReturnedBy) < n
          /\ \E q \in Answered :
                /\ q >= First /\ \A k \in DOMAIN ReturnedBy : ReturnedBy[k] < q
                /\ ReturnedBy' = Append(ReturnedBy, q)
          /\ n' = n /\ First' = First /\ Answered' = Answered
          /\ ("latest" \in platform)' = ("latest" \in platform)
    /\ Channel!Fail <=>
          /\ Len(ReturnedBy) < n /\ ReturnedBy' = Append(ReturnedBy, 0)
          /\ n' = n /\ First' = First /\ Answered' = Answered
          /\ ("latest" \in platform)' = ("latest" \in platform)
    /\ Channel!Garble <=>
          /\ Len(ReturnedBy) < n /\ "latest" \in platform
          /\ ReturnedBy' = Append(ReturnedBy, -1)
          /\ n' = n /\ First' = First /\ Answered' = Answered
          /\ ("latest" \in platform)' = ("latest" \in platform)
    /\ (UNCHANGED Channel!vars) <=>
          /\ n' = n /\ First' = First /\ Answered' = Answered /\ ReturnedBy' = ReturnedBy
          /\ ("latest" \in platform)' = ("latest" \in platform)
  BY DEF Channel!Connect, Channel!Begin, Channel!Refuse, Channel!Answer, Channel!Return,
         Channel!Fail, Channel!Garble, Channel!vars, Channel!Running, Channel!Returnable,
         Channel!NoAnswer, Channel!Mixed, Earlier, First, Answered, ReturnedBy

LEMMA AppendIs ==
    ASSUME NEW s \in Seq(Int), NEW x \in Int,
           NEW t, t = [k \in 1..(Len(s) + 1) |-> IF k <= Len(s) THEN s[k] ELSE x]
    PROVE  t = Append(s, x)
  <1>1. PICK len \in Nat : len = Len(s) /\ s \in [1..len -> Int]
    OBVIOUS
  <1>2. t \in [1..(len + 1) -> Int] /\ t \in Seq(Int) /\ Len(t) = len + 1
    BY <1>1
  <1>3. PICK b \in Seq(Int) : b = Append(s, x)
    OBVIOUS
  <1>4. Len(b) = Len(t) /\ \A j \in 1..Len(b) : b[j] = t[j]
    BY <1>1, <1>2, <1>3
  <1>5. b = t
    BY <1>2, <1>3, <1>4, SeqEqual
  <1> QED
    BY <1>3, <1>5

\* What calls returned, by number.
LEMMA ReturnedAre ==
    ASSUME TypeInv, Requests, HandedBack
    PROVE  /\ ReturnedBy \in Seq(Int) /\ Len(ReturnedBy) = Len(out) /\ Len(out) \in Nat
           /\ DOMAIN ReturnedBy = DOMAIN out /\ DOMAIN out = 1..Len(out)
           /\ \A k \in DOMAIN out : ReturnedBy[k] = AnswerOf(out[k])
           /\ Len(ReturnedBy) < n <=> Running
  <1>1. PICK len \in Nat : len = Len(out) /\ DOMAIN out = 1..len
    BY DEF TypeInv, TypeOK, ClientTypeOK
  <1>2. \A k \in DOMAIN out : AnswerOf(out[k]) \in Int
    BY AnswerOfIs DEF Requests
  <1>3. ReturnedBy \in [1..len -> Int]
    BY <1>1, <1>2 DEF ReturnedBy
  <1>4. ReturnedBy \in Seq(Int) /\ Len(ReturnedBy) = len /\ DOMAIN ReturnedBy = 1..len
    BY <1>3
  <1>5. \A k \in DOMAIN out : ReturnedBy[k] = AnswerOf(out[k])
    BY DEF ReturnedBy
  <1>6. len < n <=> Running
    BY <1>1 DEF TypeInv, TypeOK, ClientTypeOK, History
  <1> QED
    BY <1>1, <1>4, <1>5, <1>6

\* Outcomes stay what they were, whatever is answered later.
LEMMA ReturnedKept ==
    ASSUME TypeInv, Requests, AnswersInLine, HandedBack, [Next]_vars,
           NEW k \in DOMAIN out, NEW o, o = out[k]
    PROVE  AnswerOf(o)' = AnswerOf(o)
  <1>1. o.body # << >> => o.body[1][1] \in Calls /\ given[o.body[1][1]].sent
    BY DEF HandedBack
  <1> QED
    BY <1>1, GivenStays, AnswerOfKept

LEMMA SameReturned ==
    ASSUME TypeInv, Requests, AnswersInLine, HandedBack, [Next]_vars, out' = out
    PROVE  ReturnedBy' = ReturnedBy
  <1>1. ASSUME NEW k \in DOMAIN out
        PROVE  AnswerOf(out[k])' = AnswerOf(out[k])
    <2>1. PICK o : o = out[k] /\ o = out'[k]
      OBVIOUS
    <2>2. AnswerOf(out[k])' = AnswerOf(o)'
      BY <2>1 DEF AnswerOf
    <2>3. AnswerOf(o)' = AnswerOf(o)
      BY <2>1, ReturnedKept
    <2> QED
      BY <2>1, <2>2, <2>3
  <1> QED
    BY <1>1 DEF ReturnedBy

LEMMA SameFirst ==
    ASSUME conn' = conn, out' = out
    PROVE  First' = First
  BY DEF First, Earlier

\* A call that returns adds what it returned, on this connection.
LEMMA ReturnedMore ==
    ASSUME TypeInv, Requests, AnswersInLine, HandedBack, [Next]_vars, given' = given,
           NEW res, NEW body, NEW channel, Return(res, body, channel), NEW q,
           q = IF body = << >> THEN 0
               ELSE IF body[1][1] \in Calls /\ body = AnswerBytes(body[1][1], given[body[1][1]])
                    THEN body[1][1] ELSE -1
    PROVE  First' = First /\ ReturnedBy' = Append(ReturnedBy, q)
  <1>1. /\ Len(out) \in Nat /\ DOMAIN out = 1..Len(out)
        /\ DOMAIN out' = 1..(Len(out) + 1)
        /\ \A k \in DOMAIN out : out'[k] = out[k]
        /\ out'[Len(out) + 1] = [call |-> n', conn |-> conn, phase |-> phase,
                                 res |-> res, body |-> body]
        /\ conn' = conn
    BY ReturnAppends
  <1>2. PICK len \in Nat : len = Len(out) /\ DOMAIN out = 1..len /\ DOMAIN out' = 1..(len + 1)
    BY <1>1
  <1>3. out'[len + 1].conn = conn /\ out'[len + 1].body = body
    BY <1>1, <1>2
  <1>4. First' = First
    <2>1. conn \in Nat
      BY CtapHidAssumption DEF TypeInv, TypeOK, ClientTypeOK
    <2>2. ASSUME NEW k
          PROVE  k \in DOMAIN out' /\ out'[k].conn < conn <=> k \in DOMAIN out /\ out[k].conn < conn
      <3>1. CASE k \in DOMAIN out
        BY <1>1, <1>2, <3>1
      <3>2. CASE k = len + 1
        BY <1>2, <1>3, <2>1, <3>2
      <3>3. CASE k \notin 1..(len + 1)
        BY <1>2, <3>3
      <3> QED
        BY <1>2, <3>1, <3>2, <3>3
    <2>3. Earlier' = Earlier
      BY <1>1, <2>2 DEF Earlier
    <2> QED
      BY <2>3 DEF First
  <1>5. ReturnedBy \in Seq(Int) /\ Len(ReturnedBy) = len
        /\ \A k \in 1..len : ReturnedBy[k] = AnswerOf(out[k])
    BY <1>2, ReturnedAre
  <1>6. ASSUME NEW k \in 1..(len + 1)
        PROVE  AnswerOf(out[k])' = IF k <= len THEN ReturnedBy[k] ELSE q
    <2>1. PICK o : o = out'[k]
      OBVIOUS
    <2>2. AnswerOf(out[k])' = AnswerOf(o)'
      BY <2>1 DEF AnswerOf
    <2>3. CASE k <= len
      <3>1. k \in DOMAIN out /\ o = out[k]
        BY <1>1, <1>2, <2>1, <2>3
      <3>2. AnswerOf(o)' = AnswerOf(o)
        BY <3>1, ReturnedKept
      <3> QED
        BY <1>2, <1>5, <2>2, <2>3, <3>1, <3>2
    <2>4. CASE ~(k <= len)
      <3>1. k = len + 1
        BY <2>4
      <3>2. o.body = body
        BY <1>3, <2>1, <3>1
      <3>3. AnswerOf(o)' = q
        BY <3>2 DEF AnswerOf
      <3> QED
        BY <2>2, <2>4, <3>3
    <2> QED
      BY <2>3, <2>4
  <1>7. ReturnedBy' = [k \in 1..(len + 1) |-> AnswerOf(out[k])']
    BY <1>2 DEF ReturnedBy
  <1>8. ReturnedBy' = [k \in 1..(Len(ReturnedBy) + 1) |->
                          IF k <= Len(ReturnedBy) THEN ReturnedBy[k] ELSE q]
    BY <1>5, <1>6, <1>7
  <1>9. q \in Int
    BY CtapHidAssumption DEF Calls
  <1> QED
    BY <1>4, <1>5, <1>8, <1>9, AppendIs

LEMMA ConnectionNumber ==
    ASSUME TypeInv, NEW k \in DOMAIN out
    PROVE  conn \in Nat /\ out[k].conn \in Nat
  <1>1. out \in Seq(Outcomes) /\ conn \in 1..MaxCalls /\ MaxCalls \in Nat
    BY CtapHidAssumption DEF TypeInv, TypeOK, ClientTypeOK
  <1>2. out[k] \in Outcomes
    BY <1>1
  <1>3. out[k].conn \in 1..MaxCalls
    BY <1>2 DEF Outcomes
  <1> QED
    BY <1>1, <1>3

\* An answer that is handed back is of a call on this connection.
LEMMA OnThisConnection ==
    ASSUME TypeInv, ChannelIsOurs, HandedBack, Running, NEW q \in 1..n,
           IF phase = "init" THEN q = n ELSE cid < q
    PROVE  q >= First
  <1>1. n \in 1..MaxCalls /\ n \in Nat /\ Len(out) = n - 1 /\ DOMAIN out = 1..(n - 1)
    BY RunningCall, CtapHidAssumption DEF TypeInv, TypeOK, ClientTypeOK
  <1>2. PICK m \in Nat : m < q /\ Earlier \subseteq 1..m
    <2>1. CASE phase = "init"
      <3>1. q = n /\ n - 1 \in Nat /\ Earlier \subseteq 1..(n - 1)
        BY <1>1, <2>1 DEF Earlier
      <3> QED
        BY <1>1, <3>1
    <2>2. CASE phase # "init"
      <3>1. PICK i \in DOMAIN out : out[i].conn = conn /\ cid = out[i].call
        BY <2>2 DEF ChannelIsOurs
      <3>2. cid = i
        BY <3>1 DEF TypeInv, History
      <3>3. i \in Nat /\ i < q
        BY <1>1, <2>2, <3>1, <3>2
      <3>4. ASSUME NEW k \in DOMAIN out, out[k].conn < conn
            PROVE  k < i
        <4>1. conn \in Nat /\ out[k].conn \in Nat
          BY ConnectionNumber
        <4>2. ~(i < k) /\ i # k
          BY <3>1, <3>4, <4>1 DEF HandedBack
        <4> QED
          BY <1>1, <3>3, <4>2
      <3>5. Earlier \subseteq 1..i
        BY <1>1, <3>3, <3>4 DEF Earlier
      <3> QED
        BY <3>3, <3>5
    <2> QED
      BY <2>1, <2>2
  <1>3. IsFiniteSet(1..m) /\ Cardinality(1..m) = m
    BY <1>2, FS_Interval
  <1>4. Cardinality(Earlier) <= m /\ Cardinality(Earlier) \in Nat
    BY <1>2, <1>3, FS_Subset, FS_CardinalityType
  <1> QED
    BY <1>1, <1>2, <1>4 DEF First

\* A new connection begins after every call there was.
LEMMA NewFirst ==
    ASSUME TypeInv, Reopen
    PROVE  First' = n + 1
  <1>1. pc = "closed" /\ conn' = conn + 1 /\ out' = out
    BY DEF Reopen
  <1>2. n \in Nat /\ DOMAIN out = 1..n
    BY <1>1, CtapHidAssumption DEF TypeInv, TypeOK, ClientTypeOK, History, Running
  <1>3. ASSUME NEW k \in DOMAIN out
        PROVE  out[k].conn < conn + 1
    <2>1. conn \in Nat /\ out[k].conn \in Nat /\ out[k].conn <= conn
      BY ConnectionNumber DEF TypeInv, History
    <2> QED
      BY <2>1
  <1>4. Earlier' = 1..n
    BY <1>1, <1>2, <1>3 DEF Earlier
  <1>5. Cardinality(1..n) = n
    BY <1>2, FS_Interval
  <1> QED
    BY <1>2, <1>4, <1>5 DEF First

\* Steps in which a call begins, a connection is opened, an answer is given or
\* a call returns; the exchange sees none of the others.
LEMMA Unseen ==
    ASSUME [Next]_vars, ~StartCall, ~Reopen, ~DevAnswer, ~RequestTooLong
    PROVE  n' = n /\ conn' = conn /\ given' = given
  BY DEF Next, vars, client, authenticator, SendPacket, WriteFails, ReadFails,
         ReadRefused, ReadError, ReadKeepAlive, ReadFirst, ReadContinuation, Reads, Received,
         ReturnInit, ReturnCBOR, Fail, Return,
         DevTake, DevKeepAlive, DevError, DevEmit, ForeignReport, Unplug

\* The authenticator's answer is the exchange's.
LEMMA AnswerGiven ==
    ASSUME TypeInv, Requests, AnswersInLine, HandedBack, DevAnswer
    PROVE  Channel!Answer
  <1>1. /\ dev.st = "work" /\ n' = n /\ conn' = conn /\ out' = out /\ platform' = platform
        /\ \E a : a.sent /\ given' = [given EXCEPT ![Asked] = a]
    <2>1. /\ dev.st = "work" /\ n' = n /\ conn' = conn /\ out' = out /\ platform' = platform
      BY DEF DevAnswer, client, world
    <2>2. PICK len, ok : given' = [given EXCEPT ![Asked] = [len |-> len, ok |-> ok, sent |-> TRUE]]
      BY DEF DevAnswer
    <2> QED
      BY <2>1, <2>2
  <1>2. PICK a : a.sent /\ given' = [given EXCEPT ![Asked] = a]
    BY <1>1
  <1>3. Asked \in 1..n /\ Asked \in Calls
    BY <1>1, WorkIsBehind
  <1>4. \A q \in Calls : given[q].sent => q < Asked
    BY <1>1 DEF Requests, Unanswered
  <1>5. Answered' = Answered \cup {Asked}
    BY <1>2, <1>3 DEF Answered, TypeInv, TypeOK, DeviceTypeOK
  <1>6. \A q \in Answered : q < Asked
    BY <1>4 DEF Answered
  <1>7. ReturnedBy' = ReturnedBy /\ First' = First
    BY <1>1, SameReturned, SameFirst DEF Next
  <1> QED
    BY <1>1, <1>3, <1>5, <1>6, <1>7, SeenAs

\* A connection begins as the exchange does.
LEMMA InitImplements == Init => Channel!Init
  <1> SUFFICES ASSUME Init PROVE Channel!Init
    OBVIOUS
  <1>1. /\ n = 0 /\ out = << >> /\ DOMAIN out = {} /\ \A q \in Calls : ~given[q].sent
    BY DEF Init, NoAnswer
  <1>2. Earlier = {} /\ Answered = {}
    BY <1>1 DEF Earlier, Answered
  <1>3. First = 1
    BY <1>2, FS_EmptySet DEF First
  <1>4. ReturnedBy = << >>
    <2>1. ReturnedBy = [k \in {} |-> AnswerOf(out[k])]
      BY <1>1 DEF ReturnedBy
    <2> QED
      BY <2>1
  <1> QED
    BY <1>1, <1>2, <1>3, <1>4 DEF Channel!Init, Earlier, First, Answered, ReturnedBy

-----------------------------------------------------------------------------
(* The invariant and what follows from it *)

LEMMA InitIInv == Init => IInv
  <1> SUFFICES ASSUME Init PROVE IInv
    OBVIOUS
  <1>1. TypeInv
    BY InitTypeInv
  <1>2. /\ pc = "idle" /\ phase = "init" /\ out = << >> /\ toDev = << >> /\ dev.st = "idle"
        /\ devOut = << >> /\ fromDev = << >> /\ ~rx.begun
        /\ \A q \in Calls : ~given[q].sent
    BY DEF Init, Idle, NoRx, NoAnswer
  <1>3. DOMAIN toDev = {} /\ DOMAIN out = {}
    BY <1>2
  <1>4. Requests
    BY <1>2, <1>3 DEF Requests, RequestsInLine, GatheredInOrder, Unanswered, SendsTheRest
  <1>5. DOMAIN Way = {}
    BY <1>2 DEF Way
  <1>6. AnswersInLine
    BY <1>5 DEF AnswersInLine
  <1>7. Receiving /\ ChannelIsOurs /\ CleanSoFar
    BY <1>2 DEF Receiving, ChannelIsOurs, CleanSoFar
  <1>8. AnswersItsRequest
    BY <1>3 DEF AnswersItsRequest
  <1>9. HandsBack
    BY <1>2, <1>3, <1>5 DEF HandsBack, HandedBack, Begun, ReadsAnswer, NoneTwice, Unbroken,
                            Assembles
  <1> QED
    BY <1>1, <1>4, <1>6, <1>7, <1>8, <1>9 DEF IInv, Answers

LEMMA NextIInv == IInv /\ [Next]_vars => IInv'
  <1> SUFFICES ASSUME IInv, [Next]_vars PROVE IInv'
    OBVIOUS
  <1>1. /\ TypeInv /\ Requests /\ AnswersInLine /\ Receiving /\ ChannelIsOurs
        /\ CleanSoFar /\ AnswersItsRequest /\ HandsBack
    BY DEF IInv, Answers
  <1>2. TypeInv'
    BY <1>1, NextTypeInv
  <1>3. Requests'
    BY <1>1, RequestsStep
  <1>4. AnswersInLine' /\ Receiving' /\ ChannelIsOurs'
    BY <1>1, AnswersInLineStep, ReceivingStep, ChannelStep
  <1>5. CleanSoFar'
    BY <1>1, <1>2, CleanSoFarStep
  <1>6. AnswersItsRequest'
    BY <1>1, AnswersItsRequestStep
  <1>7. HandsBack'
    BY <1>1, <1>2, HandsBackStep
  <1> QED
    BY <1>2, <1>3, <1>4, <1>5, <1>6, <1>7 DEF IInv, Answers

\* The invariant every other theorem rests on: what moves between sendRequest,
\* the authenticator and readResponse is in order, says whose it is, and on a
\* connection where nothing failed belongs to the call that runs.
THEOREM InductiveInvariant == Spec => []IInv
  <1>1. Init => IInv
    BY InitIInv
  <1>2. IInv /\ [Next]_vars => IInv'
    BY NextIInv
  <1> QED
    BY <1>1, <1>2, PTL DEF Spec

\* sendRequest's loop cuts every request, of whatever length, so that the
\* authenticator gathers the bytes of one call, all of them and in order,
\* whatever was written before and not finished.
THEOREM WholeRequests == Spec => []WholeRequest
  <1>1. IInv => WholeRequest
    <2> SUFFICES ASSUME IInv, dev.st = "work"
                 PROVE  SubSeq(dev.got, 1, dev.need) = Request(Asked, asked[Asked])
      BY DEF WholeRequest
    <2>1. PICK g \in Seq(Byte), l \in Nat : g = dev.got /\ l = dev.need
      BY CtapHidAssumption DEF IInv, TypeInv, TypeOK, DeviceTypeOK
    <2>2. PICK q : q = Asked
      OBVIOUS
    <2>3. /\ l = asked[q] /\ ~(Len(g) < l)
          /\ \A j \in 1..Len(g) : j <= l => g[j] = <<q, j>>
      BY <2>1, <2>2 DEF IInv, Requests, GatheredInOrder
    <2>4. l \in 0..Len(g)
      BY <2>3
    <2>5. PICK s \in Seq(Byte) :
             s = SubSeq(g, 1, l) /\ Len(s) = l /\ \A j \in 1..l : s[j] = g[j]
      BY <2>4, FirstBytes, ZenonT(60)
    <2>6. \A j \in 1..l : s[j] = <<q, j>>
      BY <2>3, <2>4, <2>5
    <2>7. s = [j \in 1..l |-> <<q, j>>]
      BY <2>5, <2>6
    <2> QED
      BY <2>1, <2>2, <2>3, <2>5, <2>7 DEF Request
  <1> QED
    BY <1>1, InductiveInvariant, PTL

\* getSession only goes on with the channel that the authenticator gave it in
\* answer to its own CTAPHID_INIT, though answers to the INITs of other
\* programs and of earlier connections reach the same queue.
THEOREM ChannelOurs == Spec => []ChannelIsOurs
  <1>1. IInv => ChannelIsOurs
    BY DEF IInv, Answers
  <1> QED
    BY <1>1, InductiveInvariant, PTL

\* A call that ended without a failure has read everything the exchange
\* produced: the next call of the cached session finds nothing of it.
THEOREM NothingLeft == Spec => []NoResidue
  <1>1. IInv => NoResidue
    BY DEF IInv, CleanSoFar, OneExchange, NoResidue, Running
  <1> QED
    BY <1>1, InductiveInvariant, PTL

\* What sendCBOR and NewClient hand back is the authenticator's answer to that
\* very request, byte for byte and with its own verdict, for answers of every
\* length, unless an earlier call on the connection failed.
THEOREM OwnAnswers == Spec => []AnswersItsRequest
  <1>1. IInv => AnswersItsRequest
    BY DEF IInv
  <1> QED
    BY <1>1, InductiveInvariant, PTL

\* Every step is one of the exchange's, or none of its.
LEMMA StepImplements == IInv /\ [Next]_vars => [Channel!Next]_Channel!vars
  <1> SUFFICES ASSUME IInv, [Next]_vars PROVE [Channel!Next]_Channel!vars
    OBVIOUS
  <1>1. /\ TypeInv /\ Requests /\ AnswersInLine /\ Receiving /\ ChannelIsOurs
        /\ HandedBack /\ Begun /\ NoneTwice /\ ("latest" \notin platform => Assembles)
    BY DEF IInv, Answers, HandsBack
  <1>2. platform' = platform
    BY SamePlatform
  <1>3. Len(ReturnedBy) < n <=> Running
    BY <1>1, ReturnedAre
  <1>4. given' = given => Answered' = Answered
    BY DEF Answered
  <1>5. CASE StartCall
    <2>1. pc = "idle" /\ n' = n + 1 /\ conn' = conn /\ out' = out /\ given' = given
      BY <1>5 DEF StartCall, authenticator
    <2>2. ~Running /\ ReturnedBy' = ReturnedBy /\ First' = First
      BY <1>1, <2>1, SameReturned, SameFirst DEF Running
    <2>3. Channel!Begin
      BY <1>2, <1>3, <1>4, <2>1, <2>2, SeenAs
    <2> QED
      BY <2>3 DEF Channel!Next
  <1>6. CASE Reopen
    <2>1. pc = "closed" /\ n' = n /\ out' = out /\ given' = given
      BY <1>6 DEF Reopen, authenticator
    <2>2. ~Running /\ ReturnedBy' = ReturnedBy /\ First' = n + 1
      BY <1>1, <1>6, <2>1, SameReturned, NewFirst DEF Running
    <2>3. Channel!Connect
      BY <1>2, <1>3, <1>4, <2>1, <2>2, SeenAs
    <2> QED
      BY <2>3 DEF Channel!Next
  <1>7. CASE DevAnswer
    <2>1. Channel!Answer
      BY <1>1, <1>7, AnswerGiven
    <2> QED
      BY <2>1 DEF Channel!Next
  <1>8. CASE out' = out /\ ~StartCall /\ ~Reopen /\ ~DevAnswer
    <2>1. ~RequestTooLong
      <3> SUFFICES ASSUME RequestTooLong PROVE FALSE
        OBVIOUS
      <3>1. Return("unsent", << >>, cid)
        BY DEF RequestTooLong
      <3>2. Len(out') = Len(out) + 1 /\ Len(out) \in Nat
        BY <1>1, <3>1, ReturnAppends
      <3> QED
        BY <1>8, <3>2
    <2>2. n' = n /\ conn' = conn /\ given' = given
      BY <1>8, <2>1, Unseen
    <2>3. ReturnedBy' = ReturnedBy /\ First' = First
      BY <1>1, <1>8, <2>2, SameReturned, SameFirst
    <2> QED
      BY <1>2, <1>4, <2>2, <2>3, SeenAs
  <1>9. ASSUME given' = given, (pc = "idle" /\ n' = n + 1) \/ (Running /\ n' = n),
               NEW res, NEW channel, Return(res, << >>, channel)
        PROVE  [Channel!Next]_Channel!vars
    <2>1. First' = First /\ ReturnedBy' = Append(ReturnedBy, 0)
      BY <1>1, <1>9, ReturnedMore
    <2>2. CASE pc = "idle" /\ n' = n + 1
      <3>1. ~Running
        BY <2>2 DEF Running
      <3>2. Channel!Refuse
        BY <1>2, <1>3, <1>4, <1>9, <2>1, <2>2, <3>1, SeenAs
      <3> QED
        BY <3>2 DEF Channel!Next
    <2>3. CASE Running /\ n' = n
      <3>1. Channel!Fail
        BY <1>2, <1>3, <1>4, <1>9, <2>1, <2>3, SeenAs
      <3> QED
        BY <3>1 DEF Channel!Next
    <2> QED
      BY <1>9, <2>2, <2>3
  <1>10. ASSUME given' = given, Running, n' = n,
                NEW res, NEW answer, NEW channel, NEW q,
                Return(res, answer, channel), HandsOver(answer, q)
         PROVE  [Channel!Next]_Channel!vars
    <2>1. /\ answer # << >> /\ q = answer[1][1] /\ q \in 1..n /\ q \in Calls /\ given[q].sent
          /\ IF phase = "init" THEN q = n ELSE cid < q
          /\ "latest" \notin platform => answer = AnswerBytes(q, given[q])
          /\ \A k \in DOMAIN out : AnswerOf(out[k]) < q
      BY <1>10 DEF HandsOver
    <2>2. First' = First
      BY <1>1, <1>10, ReturnedMore
    <2>3. CASE answer = AnswerBytes(q, given[q])
      <3>1. ReturnedBy' = Append(ReturnedBy, q)
        BY <1>1, <1>10, <2>1, <2>3, ReturnedMore
      <3>2. q \in Answered
        BY <2>1 DEF Answered
      <3>3. q >= First
        BY <1>1, <1>10, <2>1, OnThisConnection
      <3>4. \A k \in DOMAIN ReturnedBy : ReturnedBy[k] < q
        BY <1>1, <2>1, ReturnedAre
      <3>5. Channel!Return
        BY <1>2, <1>3, <1>4, <1>10, <2>2, <3>1, <3>2, <3>3, <3>4, SeenAs
      <3> QED
        BY <3>5 DEF Channel!Next
    <2>4. CASE answer # AnswerBytes(q, given[q])
      <3>1. ReturnedBy' = Append(ReturnedBy, -1)
        BY <1>1, <1>10, <2>1, <2>4, ReturnedMore
      <3>2. Channel!Garble
        BY <1>2, <1>3, <1>4, <1>10, <2>1, <2>2, <2>4, <3>1, SeenAs
      <3> QED
        BY <3>2 DEF Channel!Next
    <2> QED
      BY <2>3, <2>4
  <1>11. \/ out' = out
         \/ /\ given' = given
            /\ (pc = "idle" /\ n' = n + 1) \/ (Running /\ n' = n)
            /\ \E res, channel : Return(res, << >>, channel)
         \/ /\ given' = given /\ Running /\ n' = n
            /\ \E res, answer, channel, q :
                  Return(res, answer, channel) /\ HandsOver(answer, q)
    BY <1>1, StepReturns
  <1> QED
    BY <1>5, <1>6, <1>7, <1>8, <1>9, <1>10, <1>11

\* Seen by the commands above it a connection is the exchange that Exchange.tla
\* describes: whatever fails and is tried again, each call of package ctap2
\* hands back one of the authenticator's answers, whole, in order and none
\* twice, never one from before the connection, or fails; only on macOS, where
\* onReport keeps the newest report alone, may it mix several.
THEOREM Refinement == Spec => ImplementsExchange
  <1>1. Init => Channel!Init
    BY InitImplements
  <1>2. IInv /\ [Next]_vars => [Channel!Next]_Channel!vars
    BY StepImplements
  <1> QED
    BY <1>1, <1>2, InductiveInvariant, PTL DEF Spec, ImplementsExchange, Channel!Spec

\* An answer a call hands back is to a request of its connection, its own or an
\* earlier one, and later than all that were handed back before.
AnswersInOrder ==
    \A k \in DOMAIN out : AnswerOf(out[k]) > 0 =>
       /\ AnswerOf(out[k]) <= k /\ out[AnswerOf(out[k])].conn = out[k].conn
       /\ \A j \in DOMAIN out : j < k => AnswerOf(out[j]) < AnswerOf(out[k])

\* The request was made on this connection.
LEMMA AskedOnThisConnection ==
    ASSUME TypeInv, ChannelIsOurs, HandedBack, Running, NEW q \in 1..n,
           IF phase = "init" THEN q = n ELSE cid < q, q # n
    PROVE  q \in DOMAIN out /\ out[q].conn = conn
  <1>1. n \in Nat /\ DOMAIN out = 1..(n - 1)
    BY RunningCall, CtapHidAssumption DEF TypeInv, TypeOK, ClientTypeOK
  <1>2. q \in DOMAIN out
    BY <1>1
  <1>3. PICK i \in DOMAIN out : out[i].conn = conn /\ cid = out[i].call
    BY DEF ChannelIsOurs
  <1>4. i < q
    BY <1>3 DEF TypeInv, History
  <1>5. conn <= out[q].conn /\ out[q].conn <= conn
    BY <1>2, <1>3, <1>4 DEF HandedBack, TypeInv, History
  <1> QED
    BY <1>2, <1>5, ConnectionNumber

\* One more outcome is as the others are.
LEMMA InOrderStep ==
    ASSUME IInv, AnswersInOrder, [Next]_vars
    PROVE  AnswersInOrder'
  <1>1. /\ TypeInv /\ Requests /\ AnswersInLine /\ Receiving /\ ChannelIsOurs
        /\ HandedBack /\ Begun /\ NoneTwice /\ ("latest" \notin platform => Assembles)
    BY DEF IInv, Answers, HandsBack
  <1>2. PICK len \in Nat : len = Len(out) /\ DOMAIN out = 1..len
    BY <1>1, ReturnedAre
  <1>3. /\ ReturnedBy \in Seq(Int) /\ Len(ReturnedBy) = len
        /\ \A k \in 1..len : ReturnedBy[k] = AnswerOf(out[k])
    BY <1>1, <1>2, ReturnedAre
  <1>4. \A k \in DOMAIN out' : AnswerOf(out[k])' = ReturnedBy'[k]
    BY DEF ReturnedBy
  <1>5. ASSUME NEW k \in 1..len, ReturnedBy[k] > 0
        PROVE  /\ ReturnedBy[k] \in 1..k /\ out[ReturnedBy[k]].conn = out[k].conn
               /\ \A j \in 1..len : j < k => ReturnedBy[j] < ReturnedBy[k]
    <2>1. PICK v \in Int : v = ReturnedBy[k] /\ v = AnswerOf(out[k]) /\ v > 0
      BY <1>3, <1>5
    <2>2. /\ v <= k /\ out[v].conn = out[k].conn
          /\ \A j \in 1..len : j < k => AnswerOf(out[j]) < v
      BY <1>2, <2>1, Zenon DEF AnswersInOrder
    <2>3. v \in 1..k
      BY <2>1, <2>2
    <2> QED
      BY <1>3, <2>1, <2>2, <2>3
  <1>6. CASE out' = out
    <2>1. ReturnedBy' = ReturnedBy
      BY <1>1, <1>6, SameReturned
    <2> SUFFICES ASSUME NEW k \in DOMAIN out', AnswerOf(out[k])' > 0
                 PROVE  /\ AnswerOf(out[k])' <= k
                        /\ out'[AnswerOf(out[k])'].conn = out'[k].conn
                        /\ \A j \in DOMAIN out' : j < k => AnswerOf(out[j])' < AnswerOf(out[k])'
      BY DEF AnswersInOrder
    <2> QED
      BY <1>2, <1>4, <1>5, <1>6, <2>1
  <1>7. ASSUME NEW res, NEW body, NEW channel, Return(res, body, channel), given' = given,
               NEW v, ReturnedBy' = Append(ReturnedBy, v), v \in Int,
               v > 0 => /\ v \in 1..(len + 1) /\ (v # len + 1 => out[v].conn = conn)
                        /\ \A j \in 1..len : ReturnedBy[j] < v
        PROVE  AnswersInOrder'
    <2>1. /\ DOMAIN out' = 1..(len + 1)
          /\ \A k \in 1..len : out'[k] = out[k]
          /\ out'[len + 1].conn = conn
      <3>1. /\ DOMAIN out' = 1..(Len(out) + 1)
            /\ \A k \in DOMAIN out : out'[k] = out[k]
            /\ out'[Len(out) + 1] = [call |-> n', conn |-> conn, phase |-> phase,
                                     res |-> res, body |-> body]
        BY <1>1, <1>7, ReturnAppends
      <3>2. out'[Len(out) + 1].conn = conn
        BY <3>1
      <3> QED
        BY <1>2, <3>1, <3>2
    <2>2. /\ \A k \in 1..len : ReturnedBy'[k] = ReturnedBy[k]
          /\ ReturnedBy'[len + 1] = v
      BY <1>3, <1>7
    <2> SUFFICES ASSUME NEW k \in DOMAIN out', ReturnedBy'[k] > 0
                 PROVE  /\ ReturnedBy'[k] <= k
                        /\ out'[ReturnedBy'[k]].conn = out'[k].conn
                        /\ \A j \in DOMAIN out' : j < k => ReturnedBy'[j] < ReturnedBy'[k]
      BY <1>4 DEF AnswersInOrder
    <2>3. CASE k \in 1..len
      <3>1. ReturnedBy[k] \in 1..k
        BY <1>5, <2>2, <2>3
      <3>2. ReturnedBy[k] \in 1..len
        BY <2>3, <3>1
      <3>3. \A j \in DOMAIN out' : j < k => j \in 1..len
        BY <2>1, <2>3
      <3> QED
        BY <1>5, <2>1, <2>2, <2>3, <3>1, <3>2, <3>3
    <2>4. CASE k = len + 1
      <3>1. \A j \in DOMAIN out' : j < k => j \in 1..len
        BY <2>1, <2>4
      <3>2. v \in 1..(len + 1) /\ (v # len + 1 => v \in 1..len)
        <4>1. v > 0
          BY <2>2, <2>4
        <4>2. v \in 1..(len + 1)
          BY <1>7, <4>1
        <4> QED
          BY <1>2, <4>2
      <3>3. out'[v].conn = conn
        BY <1>7, <2>1, <2>2, <2>4, <3>2
      <3> QED
        BY <1>7, <2>1, <2>2, <2>4, <3>1, <3>2, <3>3
    <2> QED
      BY <2>1, <2>3, <2>4
  <1>8. CASE given' = given /\ \E res, channel : Return(res, << >>, channel)
    <2>1. PICK res, channel : Return(res, << >>, channel)
      BY <1>8
    <2>2. ReturnedBy' = Append(ReturnedBy, 0)
      BY <1>1, <1>8, <2>1, ReturnedMore
    <2> QED
      BY <1>7, <1>8, <2>1, <2>2
  <1>9. CASE /\ given' = given /\ Running
             /\ \E res, answer, channel, q :
                   Return(res, answer, channel) /\ HandsOver(answer, q)
    <2>1. PICK res, answer, channel, q : Return(res, answer, channel) /\ HandsOver(answer, q)
      BY <1>9
    <2>2. /\ answer # << >> /\ q = answer[1][1] /\ q \in 1..n /\ q \in Calls
          /\ IF phase = "init" THEN q = n ELSE cid < q
          /\ \A k \in DOMAIN out : AnswerOf(out[k]) < q
      BY <2>1 DEF HandsOver
    <2>3. n = len + 1
      BY <1>1, <1>2, <1>9, RunningCall
    <2>4. q # len + 1 => out[q].conn = conn
      BY <1>1, <1>9, <2>2, <2>3, AskedOnThisConnection
    <2>5. PICK v \in {q, -1} : ReturnedBy' = Append(ReturnedBy, v)
      BY <1>1, <1>9, <2>1, <2>2, ReturnedMore
    <2>6. v \in Int /\ (v > 0 => v = q)
      BY <2>2, <2>3
    <2> QED
      BY <1>2, <1>3, <1>7, <1>9, <2>1, <2>2, <2>3, <2>4, <2>5, <2>6
  <1> QED
    BY <1>1, <1>6, <1>8, <1>9, StepReturns

\* After a failure the answer to an earlier request may still be on the way, and
\* the next call takes it for its own; but whatever call and sendCBOR do, an
\* answer comes from the same connection, later ones never before earlier ones,
\* and no call gets an answer a second time.
THEOREM AnswersReturnInOrder == Spec => []AnswersInOrder
  <1>1. Init => AnswersInOrder
    BY DEF Init, AnswersInOrder
  <1>2. IInv /\ AnswersInOrder /\ [Next]_vars => AnswersInOrder'
    BY InOrderStep
  <1> QED
    BY <1>1, <1>2, InductiveInvariant, PTL DEF Spec
=============================================================================
