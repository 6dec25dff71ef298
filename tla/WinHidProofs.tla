------------------------------ MODULE WinHidProofs ------------------------------
(***************************************************************************)
(* What the Windows device promises for any number of I/Os and reports,    *)
(* any of which may be given up at any moment.                             *)
(***************************************************************************)
EXTENDS WinHid, SequenceTheorems, FiniteSetTheorems, TLAPS

-----------------------------------------------------------------------------
(* The inductive invariant behind the safety properties *)

\* The I/O in progress is the newest; as long as it is pending, its buffer is
\* empty.
PendingNumbered ==
    /\ IsFiniteSet(pending)
    /\ \A io \in pending : io.n \in 1..n
    /\ \A io, other \in pending : io.n = other.n => io = other
    /\ \A io \in pending : Current(io) => io.op = op /\ buffer = Nothing
    /\ gaveUp + (IF main = "wait" THEN 1 ELSE 0) <= n
    /\ main = "cancel" => n # 0

\* The driver's queue holds the newest reports, all of them; older ones have
\* been handed out, the one in the buffer after all that were read.
Taken == arrived - Len(queue)
QueueNewest ==
    /\ arrived \in 0..MaxReports /\ Taken \in Nat
    /\ \A i \in DOMAIN queue : queue[i] = Taken + i
    /\ reads \in Seq({Packet(k) : k \in 1..Taken})
    /\ buffer \in 1..MaxReports => buffer <= Taken
    /\ InHand = 1 => \A i \in DOMAIN reads : reads[i][1][1] < buffer

\* What was written came before every write that is still pending, and the
\* write whose completion was signalled is among it.
Report == [of : 1..MaxIOs, report : {OnTheWire(k) : k \in 1..MaxIOs}]
WrittenFirst ==
    /\ written \in Seq(Report)
    /\ \A i \in DOMAIN written : written[i].of <= n
    /\ \A i \in DOMAIN written, io \in pending : io.op = "write" => written[i].of < io.n
    /\ op = "write" /\ buffer = Written => \E i \in DOMAIN written : written[i].of = n

\* The Read whose report has come was the last one under way.
LastOfReads == op = "read" /\ InHand = 1 => \A io \in pending : io.op # "read"

\* Each Read that gave up may still cost a report, or has cost one.
Abandoned == {io \in pending : io.op = "read" /\ ~Current(io)}
GivingUp == IF main = "cancel" /\ op = "read" THEN 1 ELSE 0
LossesPaid == Len(lost) + Cardinality(Abandoned) + GivingUp <= gaveUp

IInv ==
    /\ TypeOK /\ PendingNumbered /\ QueueNewest /\ WrittenFirst /\ LastOfReads
    /\ LossesPaid /\ ReadsInOrder /\ WritesArrive /\ OneLossPerRead

-----------------------------------------------------------------------------
(* The proofs *)

\* A packet starts with its number.
LEMMA PacketProperties ==
    ASSUME NEW k \in Nat
    PROVE  /\ Packet(k) \in Seq(Nat \X Nat) /\ Len(Packet(k)) = PacketLen
           /\ Packet(k)[1][1] = k
<1>1. 1 \in 1..PacketLen /\ PacketLen \in Nat
  BY WinAssumption
<1>2. Packet(k) \in [1..PacketLen -> Nat \X Nat] /\ Packet(k)[1] = <<k, 1>>
  BY <1>1 DEF Packet
<1> QED BY <1>1, <1>2

\* What is left of an input report without its report ID is the packet.
LEMMA InputStripped ==
    ASSUME NEW k \in Nat
    PROVE  stripInputReportPrefix(InputReport(k)) = Packet(k)
<1>1. PICK p \in Seq(Nat \X Nat) : p = Packet(k)
  BY PacketProperties
<1>2. <<Zero>> \in Seq(Nat \X Nat)
  BY DEF Zero
<1>3. Tail(<<Zero>> \o p) = p
  <2>1. /\ <<Zero>> \o p \in Seq(Nat \X Nat) /\ Len(<<Zero>> \o p) = Len(p) + 1
        /\ \A i \in 1..Len(p) : (<<Zero>> \o p)[i + 1] = p[i]
    BY <1>2
  <2>2. /\ Tail(<<Zero>> \o p) \in Seq(Nat \X Nat) /\ Len(Tail(<<Zero>> \o p)) = Len(p)
        /\ \A i \in 1..Len(p) : Tail(<<Zero>> \o p)[i] = p[i]
    BY <2>1
  <2> QED BY <2>2, SeqEqual
<1> QED BY <1>1, <1>3 DEF stripInputReportPrefix, InputReport

\* The output report is what WriteFile expects, whatever its length.
LEMMA OutputOnTheWire ==
    ASSUME NEW k \in Nat, outLen \in Nat
    PROVE  buildOutputReport(Packet(k), outLen) = OnTheWire(k)
<1> DEFINE len == IF outLen < 1 THEN 1 ELSE outLen
           filling == [i \in 1..outLen |-> Zero]
<1>1. PICK p \in Seq(Nat \X Nat), P \in Nat : p = Packet(k) /\ Len(p) = P /\ P = PacketLen
  BY PacketProperties, WinAssumption
<1>2. /\ <<Zero>> \in Seq(Nat \X Nat) /\ filling \in Seq(Nat \X Nat)
      /\ Len(filling) = outLen /\ \A i \in 1..outLen : filling[i] = Zero
  BY DEF Zero
<1> HIDE DEF filling
<1>3. PICK head \in Seq(Nat \X Nat) :
          /\ head = <<Zero>> \o p /\ Len(head) = P + 1 /\ head[1] = Zero
          /\ \A i \in 1..P : head[i + 1] = p[i]
  <2>1. /\ <<Zero>> \o p \in Seq(Nat \X Nat) /\ Len(<<Zero>> \o p) = Len(p) + 1
        /\ (<<Zero>> \o p)[1] = Zero /\ \A i \in 1..Len(p) : (<<Zero>> \o p)[i + 1] = p[i]
    BY <1>2
  <2> QED BY <1>1, <2>1
<1>4. PICK all \in Seq(Nat \X Nat) :
          /\ all = head \o filling /\ Len(all) = P + 1 + outLen
          /\ \A i \in 1..(P + 1) : all[i] = head[i]
          /\ \A i \in 1..outLen : all[P + 1 + i] = Zero
  <2>1. /\ head \o filling \in Seq(Nat \X Nat)
        /\ Len(head \o filling) = Len(head) + Len(filling)
        /\ \A i \in 1..(Len(head) + Len(filling)) :
              (head \o filling)[i] = IF i <= Len(head) THEN head[i] ELSE filling[i - Len(head)]
    BY <1>2, ConcatProperties
  <2>2. PICK w \in Seq(Nat \X Nat) :
            /\ w = head \o filling /\ Len(w) = Len(head) + Len(filling)
            /\ \A i \in 1..(Len(head) + Len(filling)) :
                  w[i] = IF i <= Len(head) THEN head[i] ELSE filling[i - Len(head)]
    BY <2>1
  <2>3. /\ Len(w) = P + 1 + outLen
        /\ \A i \in 1..(P + 1 + outLen) :
              w[i] = IF i <= P + 1 THEN head[i] ELSE filling[i - (P + 1)]
    BY <1>2, <1>3, <2>2
  <2>4. \A i \in 1..outLen : w[P + 1 + i] = Zero
    <3> SUFFICES ASSUME NEW i \in 1..outLen PROVE w[P + 1 + i] = Zero
      OBVIOUS
    <3>1. PICK j \in Nat : j = P + 1 + i
      BY <1>1
    <3>2. j \in 1..(P + 1 + outLen) /\ ~(j <= P + 1) /\ j - (P + 1) = i
      BY <1>1, <3>1
    <3>3. w[j] = filling[i]
      BY <2>3, <3>2
    <3> QED BY <1>2, <3>1, <3>3
  <2>5. \A i \in 1..(P + 1) : w[i] = head[i]
    BY SMTT(30), <1>1, <2>3
  <2> QED BY <2>2, <2>3, <2>4, <2>5
<1>5. len \in Nat \ {0} /\ len <= P + 1 + outLen
      /\ len = (IF outLen = 0 THEN 1 ELSE outLen)
  BY <1>1
<1> HIDE DEF len
<1>6. /\ SubSeq(all, 1, len) \in Seq(Nat \X Nat) /\ Len(SubSeq(all, 1, len)) = len
      /\ \A i \in 1..len : SubSeq(all, 1, len)[i] = all[i]
  <2>1. PICK m \in Nat : m = len /\ m <= Len(all)
    BY <1>4, <1>5
  <2>2. /\ SubSeq(all, 1, m) \in Seq(Nat \X Nat) /\ Len(SubSeq(all, 1, m)) = m
        /\ \A i \in 1..m : SubSeq(all, 1, m)[i] = all[i]
    BY <2>1
  <2> QED BY <2>1, <2>2
<1>7. OnTheWire(k) = SubSeq(all, 1, len)
  BY <1>1, <1>3, <1>4, <1>5 DEF OnTheWire, filling
<1>8. PICK built : /\ built = buildOutputReport(p, outLen) /\ DOMAIN built = 1..len
                   /\ built = [i \in 1..len |-> IF i - 1 \in DOMAIN p THEN p[i - 1] ELSE Zero]
  BY DEF buildOutputReport, len
<1>9. \A i \in 1..len : built[i] = all[i]
  <2> SUFFICES ASSUME NEW i \in 1..len PROVE built[i] = all[i]
    OBVIOUS
  <2>1. DOMAIN p = 1..P /\ i \in Nat \ {0}
    BY <1>1, <1>5
  <2>2. CASE i = 1
    BY <1>3, <1>4, <1>8, <2>1, <2>2
  <2>3. CASE i \in 2..(P + 1)
    <3>1. PICK j \in 1..P : j = i - 1 /\ i = j + 1 /\ j + 1 \in 1..(P + 1)
      BY <1>1, <2>1, <2>3
    <3>2. built[i] = p[j] /\ all[i] = head[j + 1] /\ head[j + 1] = p[j]
      BY <1>3, <1>4, <1>8, <2>1, <3>1
    <3> QED BY <3>2
  <2>4. CASE i > P + 1
    <3>1. PICK j \in 1..outLen : i = P + 1 + j
      BY <1>5, <2>1, <2>4
    <3>2. i - 1 \notin DOMAIN p
      BY <2>1, <2>4
    <3> QED BY <1>4, <1>8, <3>1, <3>2
  <2> QED BY <2>1, <2>2, <2>3, <2>4
<1>10. built \in Seq(Nat \X Nat) /\ Len(built) = len
  <2>1. \A i \in 1..len : all[i] \in Nat \X Nat
    <3> SUFFICES ASSUME NEW i \in 1..len PROVE all[i] \in Nat \X Nat
      OBVIOUS
    <3>1. i \in 1..Len(all)
      BY <1>4, <1>5
    <3> QED BY <3>1, ElementOfSeq
  <2>2. PICK m \in Nat : m = len
    BY <1>5
  <2>3. built \in [1..m -> Nat \X Nat]
    BY <1>8, <1>9, <2>1, <2>2
  <2> QED BY <2>2, <2>3
<1> QED BY <1>1, <1>6, <1>7, <1>8, <1>9, <1>10, SeqEqual

\* What was sent stays what WriteFile expects.
LEMMA WireUnchanged ==
    ASSUME outLen' = outLen
    PROVE  /\ Report' = Report
           /\ UNCHANGED <<written, accepted>> /\ WritesArrive => WritesArrive'
           /\ /\ written' = written /\ WritesArrive
              /\ \A k \in accepted' : \E i \in DOMAIN written : written[i].of = k
              => WritesArrive'
<1>1. \A k : OnTheWire(k)' = OnTheWire(k)
  BY DEF OnTheWire
<1>2. Report' = Report
  BY DEF Report, OnTheWire
<1>3. written' = written /\ WritesArrive =>
          (\A i \in DOMAIN written : written[i].report = OnTheWire(written[i].of))'
  BY DEF WritesArrive, OnTheWire
<1>4. /\ written' = written /\ WritesArrive
      /\ \A k \in accepted' : \E i \in DOMAIN written : written[i].of = k
      => WritesArrive'
  BY <1>3 DEF WritesArrive
<1>5. UNCHANGED <<written, accepted>> /\ WritesArrive => WritesArrive'
  BY <1>4 DEF WritesArrive
<1> QED BY <1>2, <1>4, <1>5

LEMMA InitIInv == Init => IInv
<1> SUFFICES ASSUME Init PROVE IInv
  OBVIOUS
<1>1. TypeOK
  BY WinAssumption DEF Init, TypeOK, Nothing, Written, Failed
<1>2. PendingNumbered /\ LossesPaid
  BY WinAssumption, FS_EmptySet DEF Init, PendingNumbered, LossesPaid, Abandoned, GivingUp
<1>3. QueueNewest /\ ReadsInOrder
  BY WinAssumption DEF Init, QueueNewest, Taken, InHand, ReadsInOrder, Nothing
<1>4. WrittenFirst /\ WritesArrive /\ LastOfReads
  BY DEF Init, WrittenFirst, WritesArrive, LastOfReads, InHand, Nothing, Written
<1>5. OneLossPerRead
  BY DEF Init, OneLossPerRead, InHand
<1> QED BY <1>1, <1>2, <1>3, <1>4, <1>5 DEF IInv

\* The new I/O is the newest; no other is in progress.
LEMMA IssueStep == ASSUME IInv, Issue PROVE IInv'
<1> USE WinAssumption DEF IInv, Issue, Nothing, Written, Current, history, NewBuffer
<1> DEFINE io == [op |-> op', n |-> n + 1]
<1>1. op' \in {"read", "write"} /\ pending' = pending \cup {io}
  OBVIOUS
<1>2. n \in Nat /\ n + 1 \in 1..MaxIOs
  BY DEF TypeOK
<1>3. TypeOK'
  BY <1>1, <1>2 DEF TypeOK, IO
<1>4. PendingNumbered'
  <2>1. IsFiniteSet(pending')
    BY <1>1, FS_AddElement DEF PendingNumbered
  <2>2. \A other \in pending : other.n \in 1..n
    BY DEF PendingNumbered
  <2>3. \A other \in pending' : other = io \/ other \in pending
    BY <1>1
  <2>4. gaveUp' + 1 <= n'
    BY DEF TypeOK, PendingNumbered
  <2> QED BY <1>2, <2>1, <2>2, <2>3, <2>4 DEF PendingNumbered
<1>5. QueueNewest' /\ ReadsInOrder'
  BY DEF QueueNewest, Taken, InHand, ReadsInOrder
<1>6. WrittenFirst' /\ WritesArrive' /\ LastOfReads'
  <2>1. \A i \in DOMAIN written : written[i].of < n + 1
    <3> SUFFICES ASSUME NEW i \in DOMAIN written PROVE written[i].of < n + 1
      OBVIOUS
    <3>1. written[i] \in Report /\ written[i].of <= n
      BY DEF WrittenFirst
    <3>2. written[i].of \in Nat
      BY <3>1 DEF Report
    <3> QED BY <1>2, <3>1, <3>2
  <2>2. \A i \in DOMAIN written : written[i].of <= n + 1
    <3> SUFFICES ASSUME NEW i \in DOMAIN written PROVE written[i].of <= n + 1
      OBVIOUS
    <3>1. written[i] \in Report /\ written[i].of < n + 1
      BY <2>1 DEF WrittenFirst
    <3>2. written[i].of \in Nat
      BY <3>1 DEF Report
    <3> QED BY <1>2, <3>1, <3>2
  <2>3. Report' = Report /\ WritesArrive'
    BY WireUnchanged
  <2>4. WrittenFirst'
    BY <1>1, <1>2, <2>1, <2>2, <2>3 DEF WrittenFirst
  <2> QED BY <2>3, <2>4 DEF LastOfReads, InHand
<1>7. LossesPaid'
  <2>1. Abandoned' = Abandoned
    BY <1>1, <1>2 DEF Abandoned, PendingNumbered
  <2> QED BY <2>1 DEF LossesPaid, GivingUp
<1>8. OneLossPerRead'
  BY DEF OneLossPerRead, InHand, TypeOK
<1> QED BY <1>3, <1>4, <1>5, <1>6, <1>7, <1>8

\* Nothing is pending any longer under the number of an I/O that is complete.
LEMMA CompletesStep == ASSUME IInv, Completes PROVE IInv'
<1> USE WinAssumption DEF IInv, Completes, Nothing, Written, Failed, Current, driver
<1>1. TypeOK'
  <2>1. n \in 1..MaxIOs
    BY DEF TypeOK, PendingNumbered
  <2> QED BY <2>1 DEF TypeOK
<1>2. \A io \in pending : io.n # n
  BY DEF PendingNumbered
<1>3. PendingNumbered'
  BY <1>2 DEF PendingNumbered, TypeOK
<1>4. LossesPaid' /\ LastOfReads'
  <2>1. Abandoned' = Abandoned
    BY <1>2 DEF Abandoned
  <2> QED BY <2>1 DEF LossesPaid, GivingUp, LastOfReads, InHand
<1>5. CASE op = "write"
  <2>1. QueueNewest' /\ ReadsInOrder'
    BY <1>5 DEF QueueNewest, Taken, InHand, ReadsInOrder
  <2>2. WrittenFirst' /\ WritesArrive'
    <3>1. \A k \in accepted' : \E i \in DOMAIN written : written[i].of = k
      BY <1>5 DEF WrittenFirst, WritesArrive, TypeOK
    <3> QED BY <1>5, <3>1, WireUnchanged DEF WrittenFirst
  <2>3. OneLossPerRead'
    <3>1. buffer \notin 1..MaxReports
      BY <1>5 DEF TypeOK
    <3> QED BY <1>5, <3>1 DEF OneLossPerRead, InHand
  <2> QED BY <1>1, <1>3, <1>4, <2>1, <2>2, <2>3
<1>6. CASE op = "read"
  <2>1. buffer \in 1..MaxReports /\ buffer \in 1..Taken /\ InHand = 1
    BY <1>6 DEF TypeOK, QueueNewest, InHand
  <2>2. reads' = Append(reads, Packet(buffer))
    BY <1>6, <2>1, InputStripped
  <2>3. Packet(buffer) \in {Packet(k) : k \in 1..Taken} /\ Packet(buffer)[1][1] = buffer
    BY SMTT(30), <2>1, PacketProperties
  <2>4. reads' \in Seq({Packet(k) : k \in 1..Taken})
    BY <2>2, <2>3 DEF QueueNewest
  <2>5. /\ DOMAIN reads = 1..Len(reads) /\ DOMAIN reads' = 1..(Len(reads) + 1)
        /\ Len(reads) \in Nat
        /\ \A i \in 1..Len(reads) : reads'[i] = reads[i]
        /\ reads'[Len(reads) + 1] = Packet(buffer)
    BY <2>2, <2>3 DEF QueueNewest
  <2>6. QueueNewest'
    BY <1>6, <2>4 DEF QueueNewest, Taken, InHand
  <2>7. ReadsInOrder'
    <3>1. \A i \in DOMAIN reads : reads[i][1][1] < buffer
      BY <2>1 DEF QueueNewest
    <3>2. \A i, j \in DOMAIN reads' : i < j => reads'[i][1][1] < reads'[j][1][1]
      <4> SUFFICES ASSUME NEW i \in DOMAIN reads', NEW j \in DOMAIN reads', i < j
                   PROVE  reads'[i][1][1] < reads'[j][1][1]
        OBVIOUS
      <4>1. CASE j = Len(reads) + 1
        BY <2>3, <2>5, <3>1, <4>1
      <4>2. CASE j \in DOMAIN reads
        BY <2>5, <4>2 DEF ReadsInOrder
      <4> QED BY <2>5, <4>1, <4>2
    <3>3. \A i \in DOMAIN reads' : reads'[i] \in {Packet(k) : k \in 1..arrived}
      <4>1. buffer \in 1..arrived
        BY <2>1 DEF QueueNewest, Taken
      <4>2. \A i \in DOMAIN reads : reads[i] \in {Packet(k) : k \in 1..arrived}
        BY DEF ReadsInOrder
      <4> QED BY <2>5, <4>1, <4>2
    <3> QED BY <1>6, <3>2, <3>3 DEF ReadsInOrder
  <2>8. WrittenFirst' /\ WritesArrive'
    BY <1>6, WireUnchanged DEF WrittenFirst
  <2>9. OneLossPerRead'
    BY <1>6, <2>1, <2>5 DEF OneLossPerRead, InHand
  <2> QED BY <1>1, <1>3, <1>4, <2>6, <2>7, <2>8, <2>9
<1> QED BY <1>5, <1>6

\* The I/O in progress stays in progress, but a Read has given up.
LEMMA WaitTimesOutStep == ASSUME IInv, WaitTimesOut PROVE IInv'
<1> USE WinAssumption DEF IInv, WaitTimesOut, Nothing, Written, Failed, Current, driver
<1>1. TypeOK' /\ PendingNumbered'
  BY DEF TypeOK, PendingNumbered
<1>2. QueueNewest' /\ ReadsInOrder' /\ OneLossPerRead'
  BY DEF QueueNewest, Taken, InHand, ReadsInOrder, OneLossPerRead, TypeOK
<1>3. WrittenFirst' /\ WritesArrive' /\ LastOfReads'
  BY WireUnchanged DEF WrittenFirst, LastOfReads, InHand
<1>4. LossesPaid'
  <2>1. Abandoned' = Abandoned
    BY DEF Abandoned
  <2>2. Cardinality(Abandoned) \in Nat
    BY FS_Subset, FS_CardinalityType DEF Abandoned, PendingNumbered
  <2> QED BY <2>1, <2>2 DEF LossesPaid, GivingUp, TypeOK
<1> QED BY <1>1, <1>2, <1>3, <1>4

\* The I/O failed: nothing is pending under its number.
LEMMA ResultFailsStep == ASSUME IInv, ResultFails PROVE IInv'
<1> USE WinAssumption DEF IInv, ResultFails, Nothing, Written, Failed, Current, driver, history
<1>1. Failed \notin 1..MaxReports
  OBVIOUS
<1>2. TypeOK' /\ PendingNumbered'
  BY DEF TypeOK, PendingNumbered
<1>3. QueueNewest' /\ ReadsInOrder' /\ OneLossPerRead'
  BY <1>1 DEF QueueNewest, Taken, InHand, ReadsInOrder, OneLossPerRead, TypeOK
<1>4. WrittenFirst' /\ WritesArrive' /\ LastOfReads'
  BY WireUnchanged DEF WrittenFirst, LastOfReads, InHand
<1>5. LossesPaid'
  <2>1. \A io \in pending : io.n # n
    BY DEF PendingNumbered
  <2>2. Abandoned' = Abandoned
    BY <2>1 DEF Abandoned
  <2> QED BY <2>2 DEF LossesPaid, GivingUp
<1> QED BY <1>2, <1>3, <1>4, <1>5

\* An I/O that is abandoned, while it was waited for or to be cancelled: what
\* it may cost from now on, or has cost, is allowed for.
Paying == IF op = "read" THEN 1 ELSE 0
LEMMA AbandonStep ==
    ASSUME IInv, main \in {"wait", "cancel"}, main' = "idle", Abandon,
           UNCHANGED <<outLen, op, n, buffer, pending, queue, arrived, reads, accepted, written>>,
           cancelled' \in {cancelled, cancelled \cup {n}},
           gaveUp' = IF main = "wait" THEN gaveUp + Paying ELSE gaveUp
    PROVE  IInv'
<1> USE WinAssumption DEF IInv, Nothing, Written, Failed, Current
<1>1. buffer \in 1..MaxReports => op = "read"
  BY DEF TypeOK
<1>2. n \in 1..MaxIOs /\ gaveUp' \in 0..MaxIOs
  BY DEF TypeOK, PendingNumbered, Paying
<1>3. TypeOK'
  <2>2. lost' \in Seq(1..MaxReports)
    <3>1. lost \in Seq(1..MaxReports)
      BY DEF TypeOK
    <3>2. CASE buffer \in 1..MaxReports
      <4>1. lost' = Append(lost, buffer)
        BY <3>2 DEF Abandon
      <4> HIDE DEF IInv
      <4> QED BY <3>1, <3>2, <4>1
    <3> QED BY <3>1, <3>2 DEF Abandon
  <2>3. cancelled' \subseteq 1..MaxIOs
    BY <1>2 DEF TypeOK
  <2> QED BY <1>2, <2>2, <2>3 DEF TypeOK
<1>4. PendingNumbered'
  BY <1>2 DEF PendingNumbered, Paying, TypeOK
<1>5. QueueNewest' /\ ReadsInOrder' /\ WrittenFirst' /\ WritesArrive' /\ LastOfReads'
  BY WireUnchanged DEF QueueNewest, Taken, InHand, ReadsInOrder, WrittenFirst, LastOfReads
<1>6. Len(lost') = Len(lost) + InHand
  BY DEF Abandon, InHand, TypeOK
<1>7. Cardinality(Abandoned) \in Nat /\ Cardinality(Abandoned') \in Nat
  BY FS_Subset, FS_CardinalityType DEF Abandoned, PendingNumbered
<1>8. Cardinality(Abandoned) + Paying >= Cardinality(Abandoned') + InHand
  <2>1. CASE op = "write"
    <3>1. Abandoned' = Abandoned
      BY <2>1 DEF Abandoned, PendingNumbered
    <3> QED BY <2>1, <3>1, <1>1, <1>7 DEF Paying, InHand
  <2>2. CASE op = "read" /\ InHand = 1
    <3>1. Abandoned' = Abandoned
      BY <2>2 DEF Abandoned, PendingNumbered, InHand
    <3> QED BY <2>2, <3>1, <1>7 DEF Paying
  <2>3. CASE op = "read" /\ InHand = 0
    <3> DEFINE io == [op |-> "read", n |-> n]
               more == Abandoned \cup {io}
    <3>1. Abandoned' \subseteq more
      BY DEF Abandoned, TypeOK, IO
    <3>2. IsFiniteSet(Abandoned)
      BY FS_Subset DEF Abandoned, PendingNumbered
    <3> HIDE DEF io, IInv
    <3>3. IsFiniteSet(more) /\ Cardinality(more) <= Cardinality(Abandoned) + 1
      <4>1. /\ IsFiniteSet(more)
            /\ \/ Cardinality(more) = Cardinality(Abandoned)
               \/ Cardinality(more) = Cardinality(Abandoned) + 1
        BY <3>2, FS_AddElement
      <4> HIDE DEF more
      <4> QED BY <4>1, <1>7
    <3> HIDE DEF more
    <3>4. Cardinality(Abandoned') <= Cardinality(Abandoned) + 1
      BY <3>1, <3>3, <1>7, FS_Subset, FS_CardinalityType
    <3> QED BY <2>3, <3>4, <1>7 DEF Paying
  <2> QED BY <2>1, <2>2, <2>3 DEF TypeOK, InHand
<1>9. LossesPaid' /\ OneLossPerRead'
  <2>1. /\ Len(lost) \in Nat /\ gaveUp \in Nat /\ InHand \in {0, 1} /\ Paying \in {0, 1}
        /\ Len(reads) \in Nat /\ Len(queue) \in Nat
    BY DEF TypeOK, QueueNewest, InHand, Paying
  <2>2. GivingUp' = 0 /\ InHand' = 0 /\ gaveUp' = gaveUp + Paying - GivingUp
    BY <2>1 DEF GivingUp, InHand, Paying
  <2>3. UNCHANGED <<arrived, reads, queue>>
    OBVIOUS
  <2>4. LossesPaid /\ OneLossPerRead /\ GivingUp \in {0, 1}
    BY DEF GivingUp
  <2> HIDE DEF IInv
  <2>5. LossesPaid'
    BY SMTT(30), <1>6, <1>8, <1>7, <2>1, <2>2, <2>4 DEF LossesPaid
  <2>6. Len(lost') <= gaveUp'
    BY <1>6, <1>7, <2>1, <2>2, <2>4, <2>5 DEF LossesPaid
  <2>7. OneLossPerRead'
    BY <1>6, <2>1, <2>2, <2>3, <2>4, <2>6 DEF OneLossPerRead
  <2> QED BY <2>5, <2>7
<1> QED BY <1>3, <1>4, <1>5, <1>9

LEMMA CancelStep == ASSUME IInv, Cancel PROVE IInv'
BY AbandonStep DEF Cancel

\* The wait failed, and the I/O goes on.
LEMMA WaitFailsStep == ASSUME IInv, WaitFails PROVE IInv'
<1>1. gaveUp' = gaveUp + Paying
  BY DEF WaitFails, Paying, IInv, TypeOK
<1> QED BY <1>1, AbandonStep DEF WaitFails, driver

\* Closing leaves nothing pending.
LEMMA CloseStep == ASSUME IInv, Close PROVE IInv'
<1> USE WinAssumption DEF IInv, Close, Nothing, Written, Failed, Current, history
<1>1. TypeOK' /\ PendingNumbered'
  BY FS_EmptySet DEF TypeOK, PendingNumbered
<1>2. QueueNewest' /\ ReadsInOrder' /\ WrittenFirst' /\ WritesArrive' /\ LastOfReads' /\ OneLossPerRead'
  BY WireUnchanged DEF QueueNewest, Taken, InHand, ReadsInOrder, WrittenFirst, LastOfReads,
                       OneLossPerRead
<1>3. LossesPaid'
  <2>1. Cardinality(Abandoned) \in Nat
    BY FS_Subset, FS_CardinalityType DEF Abandoned, PendingNumbered
  <2>2. Abandoned' = {}
    BY DEF Abandoned
  <2> QED BY <2>1, <2>2, FS_EmptySet DEF LossesPaid, GivingUp, TypeOK
<1> QED BY <1>1, <1>2, <1>3

\* The report that arrives is the newest.
LEMMA ArriveStep == ASSUME IInv, Arrive PROVE IInv'
<1> USE WinAssumption DEF IInv, Arrive, Nothing, Written, Failed, Current, history, caller
<1>1. /\ arrived + 1 \in 1..MaxReports /\ queue' = Append(queue, arrived + 1)
      /\ Len(queue) \in Nat /\ Len(queue') = Len(queue) + 1
      /\ \A i \in 1..Len(queue) : queue'[i] = queue[i]
      /\ queue'[Len(queue) + 1] = arrived + 1
  BY DEF TypeOK, QueueNewest
<1>2. TypeOK' /\ PendingNumbered'
  BY <1>1 DEF TypeOK, PendingNumbered
<1>3. Taken' = Taken
  BY <1>1 DEF Taken, QueueNewest
<1>4. QueueNewest'
  <2>1. \A i \in DOMAIN queue' : queue'[i] = Taken' + i
    BY SMTT(20), <1>1, <1>3 DEF QueueNewest, Taken
  <2>2. UNCHANGED <<buffer, reads, InHand>>
    BY DEF InHand
  <2> QED BY <1>1, <1>3, <2>1, <2>2 DEF QueueNewest
<1>5. ReadsInOrder' /\ WrittenFirst' /\ WritesArrive' /\ LastOfReads'
  <2>1. arrived \in Nat /\ arrived' = arrived + 1
    BY DEF QueueNewest
  <2>2. 1..arrived \subseteq 1..arrived'
    BY <2>1
  <2>3. \A i \in DOMAIN reads : reads[i] \in {Packet(k) : k \in 1..arrived'}
    BY <2>2 DEF ReadsInOrder
  <2>4. ReadsInOrder'
    BY <2>3 DEF ReadsInOrder
  <2> QED BY <2>4, WireUnchanged DEF WrittenFirst, LastOfReads, InHand
<1>6. OneLossPerRead'
  BY <1>1 DEF OneLossPerRead, InHand, TypeOK
<1>7. LossesPaid'
  BY DEF LossesPaid, Abandoned, GivingUp
<1> QED BY <1>2, <1>4, <1>5, <1>6, <1>7

\* The number a packet that was read starts with is one of a report that was
\* handed out.
LEMMA ReadsTaken ==
    ASSUME IInv, NEW i \in DOMAIN reads
    PROVE  reads[i][1][1] \in 1..Taken
<1> DEFINE S == {Packet(k) : k \in 1..Taken}
<1>1. reads \in Seq(S)
  BY DEF IInv, QueueNewest
<1> HIDE DEF S
<1>2. reads[i] \in S
  BY <1>1
<1>3. PICK k \in 1..Taken : reads[i] = Packet(k)
  BY <1>2 DEF S
<1>4. k \in Nat
  BY DEF IInv, QueueNewest
<1> QED BY <1>3, <1>4, PacketProperties

\* The oldest report of the queue goes to the Read in progress, or is lost to
\* one that gave up and whose loss was allowed for.
LEMMA ReadDoneStep == ASSUME IInv, ReadDone PROVE IInv'
<1> USE WinAssumption DEF Nothing, Written, Failed
<1>1. PICK io \in pending :
          /\ First("read", io)
          /\ pending' = pending \ {io}
          /\ IF Current(io)
             THEN buffer' = Head(queue) /\ UNCHANGED lost
             ELSE lost' = Append(lost, Head(queue)) /\ UNCHANGED buffer
  BY DEF ReadDone
<1>2. /\ queue # << >> /\ queue' = Tail(queue)
      /\ UNCHANGED <<outLen, main, op, n, cancelled, arrived, reads, accepted, written, gaveUp>>
  BY DEF ReadDone, caller
<1>3. io.op = "read"
  BY <1>1 DEF First
<1>4. /\ TypeOK /\ PendingNumbered /\ QueueNewest /\ WrittenFirst /\ LastOfReads
      /\ LossesPaid /\ ReadsInOrder /\ WritesArrive /\ OneLossPerRead
  BY DEF IInv
<1>5. /\ Len(queue) \in Nat \ {0} /\ Len(queue') = Len(queue) - 1
      /\ queue' \in Seq(1..MaxReports)
      /\ Head(queue) \in 1..MaxReports /\ Head(queue) = Taken + 1
      /\ \A i \in DOMAIN queue' : queue'[i] = Taken + 1 + i
  <2>1. queue \in Seq(1..MaxReports) /\ \A i \in DOMAIN queue : queue[i] = Taken + i
    BY <1>4 DEF TypeOK, QueueNewest
  <2>2. /\ Len(queue) \in Nat \ {0} /\ Len(queue') = Len(queue) - 1
        /\ queue' \in Seq(1..MaxReports) /\ Head(queue) = queue[1]
        /\ \A i \in DOMAIN queue' : queue'[i] = queue[i + 1] /\ i + 1 \in DOMAIN queue
    BY <1>2, <2>1
  <2>3. Taken \in Nat
    BY <1>4 DEF QueueNewest
  <2>4. 1 \in DOMAIN queue /\ Head(queue) \in 1..MaxReports
    BY <2>1, <2>2
  <2>5. Head(queue) = Taken + 1
    BY <2>1, <2>2, <2>4
  <2>6. \A i \in DOMAIN queue' : queue'[i] = Taken + 1 + i
    <3> SUFFICES ASSUME NEW i \in DOMAIN queue' PROVE queue'[i] = Taken + 1 + i
      OBVIOUS
    <3>1. i \in Nat
      BY <2>2
    <3>2. queue'[i] = Taken + (i + 1)
      BY <2>1, <2>2
    <3> QED BY <2>3, <3>1, <3>2
  <2> QED BY <2>2, <2>4, <2>5, <2>6
<1>6. Taken' = Taken + 1 /\ Taken \in Nat /\ Taken' \in Nat
  BY <1>2, <1>4, <1>5 DEF Taken, QueueNewest
<1>7. \A i \in DOMAIN reads : reads[i][1][1] \in 1..Taken
  BY ReadsTaken
<1>8. reads' \in Seq({Packet(k) : k \in 1..Taken'})
  <2>1. {Packet(k) : k \in 1..Taken} \subseteq {Packet(k) : k \in 1..Taken'}
    BY <1>6
  <2> QED BY <1>2, <1>4, <2>1, SeqMonotonic DEF QueueNewest
<1>9. ReadsInOrder' /\ WritesArrive'
  BY <1>2, <1>4, WireUnchanged DEF ReadsInOrder
<1>10. IsFiniteSet(pending') /\ IsFiniteSet(Abandoned) /\ Cardinality(Abandoned) \in Nat
  BY <1>1, <1>4, FS_Subset, FS_CardinalityType DEF PendingNumbered, Abandoned
<1>11. CASE Current(io)
  <2>1. op = "read" /\ buffer = Nothing /\ buffer' = Taken + 1 /\ UNCHANGED lost
        /\ buffer' \in 1..MaxReports /\ main \in {"wait", "cancel"}
    BY <1>1, <1>3, <1>4, <1>5, <1>11 DEF PendingNumbered, Current
  <2>2. \A other \in pending' : ~Current(other)'
    BY <1>1, <1>2, <1>4, <1>11 DEF PendingNumbered, Current
  <2>3. TypeOK'
    BY <1>1, <1>2, <1>4, <1>5, <2>1 DEF TypeOK
  <2>4. PendingNumbered'
    BY <1>1, <1>2, <1>4, <1>10, <2>2 DEF PendingNumbered
  <2>5. InHand = 0 /\ InHand' = 1
    BY <1>2, <2>1 DEF InHand
  <2>6. QueueNewest'
    BY SMTT(20), <1>2, <1>4, <1>5, <1>6, <1>7, <1>8, <2>1 DEF QueueNewest
  <2>7. WrittenFirst' /\ LastOfReads'
    <3>1. \A other \in pending' : other.op # "read"
      <4> SUFFICES ASSUME NEW other \in pending', other.op = "read" PROVE FALSE
        OBVIOUS
      <4>1. other \in pending /\ other # io /\ io.n <= other.n
        BY <1>1 DEF First
      <4>2. other.n \in 1..n /\ io.n = n /\ other.n # io.n /\ n \in Nat
        BY <1>4, <1>11, <4>1 DEF PendingNumbered, Current, TypeOK
      <4> QED BY <4>1, <4>2
    <3> QED BY <1>1, <1>2, <1>4, <2>1, <3>1, WireUnchanged DEF WrittenFirst, LastOfReads
  <2>8. Abandoned' = Abandoned
    BY <1>1, <1>2, <1>11, <2>2 DEF Abandoned, Current
  <2>9. LossesPaid'
    BY <1>2, <1>4, <2>1, <2>8 DEF LossesPaid, GivingUp
  <2>10. OneLossPerRead'
    <3>1. Len(lost) \in Nat /\ Len(reads) \in Nat
      BY <1>4 DEF TypeOK, QueueNewest
    <3> QED BY <1>2, <1>4, <1>5, <2>1, <2>5, <3>1 DEF OneLossPerRead
  <2> QED BY <1>9, <2>3, <2>4, <2>6, <2>7, <2>9, <2>10 DEF IInv
<1>12. CASE ~Current(io)
  <2>1. UNCHANGED buffer /\ lost' = Append(lost, Head(queue))
    BY <1>1, <1>12
  <2>2. lost \in Seq(1..MaxReports) /\ lost' \in Seq(1..MaxReports)
        /\ Len(lost) \in Nat /\ Len(lost') = Len(lost) + 1
    BY <1>4, <1>5, <2>1 DEF TypeOK
  <2>3. TypeOK'
    BY <1>1, <1>2, <1>4, <1>5, <2>1, <2>2 DEF TypeOK
  <2>4. PendingNumbered'
    BY <1>1, <1>2, <1>4, <1>10, <2>1 DEF PendingNumbered, Current
  <2>5. UNCHANGED <<InHand, GivingUp>>
    BY <1>2, <2>1 DEF InHand, GivingUp
  <2>6. QueueNewest'
    <3>1. buffer' \in 1..MaxReports => buffer' <= Taken'
      BY <1>4, <1>6, <2>1 DEF QueueNewest
    <3>2. InHand' = 1 => \A i \in DOMAIN reads' : reads'[i][1][1] < buffer'
      BY <1>2, <1>4, <2>1, <2>5 DEF QueueNewest
    <3> QED BY <1>2, <1>4, <1>5, <1>6, <1>8, <3>1, <3>2 DEF QueueNewest
  <2>7. WrittenFirst' /\ LastOfReads'
    BY <1>1, <1>2, <1>4, <2>1, <2>5, WireUnchanged DEF WrittenFirst, LastOfReads
  <2>8. io \in Abandoned /\ Abandoned' = Abandoned \ {io}
    BY <1>1, <1>2, <1>3, <1>12 DEF Abandoned, Current
  <2>9. Cardinality(Abandoned') = Cardinality(Abandoned) - 1
    BY <1>10, <2>8, FS_RemoveElement
  <2>10. gaveUp \in Nat /\ GivingUp \in {0, 1} /\ InHand \in {0, 1} /\ Len(reads) \in Nat
    BY <1>4 DEF TypeOK, GivingUp, InHand, QueueNewest
  <2>11. LossesPaid'
    BY <1>2, <1>4, <1>10, <2>2, <2>5, <2>9, <2>10 DEF LossesPaid
  <2>12. Cardinality(Abandoned') \in Nat
    BY <1>10, <2>8, FS_RemoveElement, FS_CardinalityType
  <2>13. OneLossPerRead'
    BY SMTT(20), <1>2, <1>4, <1>5, <2>2, <2>5, <2>10, <2>11, <2>12 DEF OneLossPerRead, LossesPaid
  <2> QED BY <1>9, <2>3, <2>4, <2>6, <2>7, <2>11, <2>13 DEF IInv
<1> QED BY <1>11, <1>12

\* The oldest Write that is pending reaches the device, after all older ones.
LEMMA WriteDoneStep == ASSUME IInv, WriteDone PROVE IInv'
<1> USE WinAssumption DEF Nothing, Written, Failed
<1>1. PICK io \in pending :
          /\ First("write", io)
          /\ pending' = pending \ {io}
          /\ written' = Append(written, [of |-> io.n,
                                         report |-> buildOutputReport(Packet(io.n), outLen)])
          /\ IF Current(io) THEN buffer' \in {Written, Failed} ELSE UNCHANGED buffer
  BY DEF WriteDone
<1>2. UNCHANGED <<outLen, main, op, n, cancelled, queue, arrived, reads, accepted, lost, gaveUp>>
  BY DEF WriteDone, caller
<1>3. io.op = "write" /\ \A other \in pending : other.op = "write" => io.n <= other.n
  BY <1>1 DEF First
<1>4. /\ TypeOK /\ PendingNumbered /\ QueueNewest /\ WrittenFirst /\ LastOfReads
      /\ LossesPaid /\ ReadsInOrder /\ WritesArrive /\ OneLossPerRead
  BY DEF IInv
<1>5. io.n \in 1..n /\ io.n \in 1..MaxIOs /\ n \in Nat
  BY <1>4 DEF TypeOK, PendingNumbered, IO
<1>6. Current(io) => io.n = n /\ op = "write" /\ buffer = Nothing
  BY <1>3, <1>4 DEF PendingNumbered, Current
<1>7. buffer' = buffer \/ (buffer \notin 1..MaxReports /\ buffer' \notin 1..MaxReports)
  <2>1. 0 \notin 1..MaxReports /\ MaxReports + 1 \notin 1..MaxReports /\ MaxReports + 2 \notin 1..MaxReports
    OBVIOUS
  <2> QED BY <1>1, <1>6, <2>1
<1>8. TypeOK'
  <2>1. op = "read" => buffer' = buffer
    BY <1>1, <1>6
  <2>2. op = "write" => buffer' \in {Nothing, Written, Failed}
    BY <1>1, <1>4 DEF TypeOK
  <2> QED BY <1>1, <1>2, <1>4, <2>1, <2>2 DEF TypeOK
<1>9. PendingNumbered'
  <2>1. IsFiniteSet(pending')
    BY <1>1, <1>4, FS_Subset DEF PendingNumbered
  <2>2. \A other \in pending' : Current(other)' => ~Current(io) /\ Current(other)
    BY <1>1, <1>2, <1>4 DEF PendingNumbered, Current
  <2> QED BY <1>1, <1>2, <1>4, <2>1, <2>2 DEF PendingNumbered
<1>10. UNCHANGED <<InHand, GivingUp, Taken>>
  BY <1>2, <1>7 DEF InHand, GivingUp, Taken
<1>11. QueueNewest' /\ ReadsInOrder'
  <2>1. buffer' \in 1..MaxReports => buffer' <= Taken'
    BY <1>4, <1>7, <1>10 DEF QueueNewest
  <2>2. InHand' = 1 => \A i \in DOMAIN reads' : reads'[i][1][1] < buffer'
    BY <1>2, <1>4, <1>7, <1>10 DEF QueueNewest, InHand
  <2> QED BY <1>2, <1>4, <1>10, <2>1, <2>2 DEF QueueNewest, ReadsInOrder
<1>12. LossesPaid' /\ OneLossPerRead'
  <2>1. Abandoned' = Abandoned
    BY <1>1, <1>2, <1>3 DEF Abandoned, Current
  <2> QED BY <1>2, <1>4, <1>10, <2>1 DEF LossesPaid, OneLossPerRead
<1>13. LastOfReads'
  BY <1>1, <1>2, <1>4, <1>10 DEF LastOfReads
<1>14. WrittenFirst' /\ WritesArrive'
  <2> DEFINE sent == [of |-> io.n, report |-> OnTheWire(io.n)]
  <2>1. written' = Append(written, sent)
    <3>1. outLen \in Nat /\ io.n \in Nat
      BY <1>4, <1>5 DEF TypeOK
    <3> QED BY <1>1, <3>1, OutputOnTheWire
  <2>2. written \in Seq(Report) /\ sent \in Report
    BY <1>4, <1>5 DEF WrittenFirst, Report
  <2>3. sent.of = io.n /\ sent.report = OnTheWire(io.n)
    OBVIOUS
  <2> HIDE DEF sent
  <2>4. /\ written' \in Seq(Report)
        /\ Len(written) \in Nat
        /\ DOMAIN written = 1..Len(written) /\ DOMAIN written' = 1..(Len(written) + 1)
        /\ \A i \in DOMAIN written : written'[i] = written[i]
        /\ written'[Len(written) + 1] = sent
    BY <2>1, <2>2
  <2>5. \A other \in pending' : other.op = "write" => io.n < other.n
    <3> SUFFICES ASSUME NEW other \in pending', other.op = "write"
                 PROVE  io.n < other.n
      OBVIOUS
    <3>1. other \in pending /\ other # io
      BY <1>1
    <3>2. other.n \in Nat /\ other.n # io.n /\ io.n <= other.n
      BY <1>3, <1>4, <3>1 DEF PendingNumbered, TypeOK
    <3> QED BY <1>5, <3>2
  <2>6. \A i \in DOMAIN written : written[i].of < io.n
    BY <1>3, <1>4 DEF WrittenFirst
  <2>7. \A i \in DOMAIN written', other \in pending' :
            other.op = "write" => written'[i].of < other.n
    <3> SUFFICES ASSUME NEW i \in DOMAIN written', NEW other \in pending', other.op = "write"
                 PROVE  written'[i].of < other.n
      OBVIOUS
    <3>1. CASE i = Len(written) + 1
      BY <2>3, <2>4, <2>5, <3>1
    <3>2. CASE i \in DOMAIN written
      BY <1>1, <1>4, <2>4, <3>2 DEF WrittenFirst
    <3> QED BY <2>4, <3>1, <3>2
  <2>8. op = "write" /\ buffer' = Written => \E i \in DOMAIN written' : written'[i].of = n
    <3>1. CASE Current(io)
      BY <1>6, <2>3, <2>4, <3>1
    <3>2. CASE ~Current(io)
      BY <1>1, <1>4, <2>4, <3>2 DEF WrittenFirst
    <3> QED BY <3>1, <3>2
  <2>9. \A i \in DOMAIN written' : written'[i].of <= n
    BY <1>4, <1>5, <2>3, <2>4 DEF WrittenFirst
  <2>10. UNCHANGED Report /\ \A k : OnTheWire(k)' = OnTheWire(k)
    BY <1>2 DEF Report, OnTheWire
  <2>11. WrittenFirst'
    BY <1>2, <2>4, <2>7, <2>8, <2>9, <2>10 DEF WrittenFirst
  <2>12. \A i \in DOMAIN written' : written'[i].report = OnTheWire(written'[i].of)
    BY <1>4, <2>3, <2>4 DEF WritesArrive
  <2>13. \A i, j \in DOMAIN written' : i < j => written'[i].of < written'[j].of
    <3> SUFFICES ASSUME NEW i \in DOMAIN written', NEW j \in DOMAIN written', i < j
                 PROVE  written'[i].of < written'[j].of
      OBVIOUS
    <3>1. CASE j = Len(written) + 1
      BY <2>3, <2>4, <2>6, <3>1
    <3>2. CASE j \in DOMAIN written
      BY <1>4, <2>4, <3>2 DEF WritesArrive
    <3> QED BY <2>4, <3>1, <3>2
  <2>14. \A k \in accepted' : \E i \in DOMAIN written' : written'[i].of = k
    BY <1>2, <1>4, <2>4 DEF WritesArrive
  <2> QED BY <2>10, <2>11, <2>12, <2>13, <2>14 DEF WritesArrive
<1> QED BY <1>8, <1>9, <1>11, <1>12, <1>13, <1>14 DEF IInv

\* An I/O that is over without effect costs nothing any longer.
LEMMA GoneStep ==
    ASSUME IInv, NEW io \in pending, pending' = pending \ {io},
           buffer' = buffer \/ (Current(io) /\ buffer' = Failed),
           UNCHANGED <<outLen, main, op, n, cancelled, queue, arrived, history>>
    PROVE  IInv'
<1> USE WinAssumption DEF Nothing, Written, Failed
<1>1. pending' \subseteq pending /\ io \notin pending'
  OBVIOUS
<1>2. /\ TypeOK /\ PendingNumbered /\ QueueNewest /\ WrittenFirst /\ LastOfReads
      /\ LossesPaid /\ ReadsInOrder /\ WritesArrive /\ OneLossPerRead
  BY DEF IInv
<1>3. Current(io) => buffer = Nothing /\ io.n = n
  BY <1>2 DEF PendingNumbered, Current
<1>4. buffer' = buffer \/ (buffer = Nothing /\ buffer' = Failed)
  BY <1>3
<1>5. UNCHANGED InHand /\ (buffer' \in 1..MaxReports => buffer' = buffer)
      /\ (buffer' = Written => buffer = Written)
  <2>1. 0 \notin 1..MaxReports /\ MaxReports + 2 \notin 1..MaxReports
    OBVIOUS
  <2> QED BY <1>4, <2>1 DEF InHand
<1>6. TypeOK'
  BY <1>2, <1>4 DEF TypeOK, history
<1>7. QueueNewest' /\ ReadsInOrder' /\ OneLossPerRead'
  <2>1. InHand' = 1 => buffer' = buffer
    BY <1>5 DEF InHand
  <2> QED BY <1>2, <1>5, <2>1 DEF QueueNewest, Taken, ReadsInOrder, OneLossPerRead, history
<1>8. WrittenFirst' /\ WritesArrive' /\ LastOfReads'
  BY <1>1, <1>2, <1>5, WireUnchanged DEF WrittenFirst, LastOfReads, history
<1>9. PendingNumbered'
  <2>1. IsFiniteSet(pending')
    BY <1>1, <1>2, FS_Subset DEF PendingNumbered
  <2>2. \A other \in pending' : Current(other)' =>
            Current(other) /\ ~Current(io)
    BY <1>1, <1>2 DEF PendingNumbered, Current
  <2> QED BY <1>1, <1>2, <2>1, <2>2 DEF PendingNumbered, history
<1>10. LossesPaid'
  <2>1. Abandoned' \subseteq Abandoned
    BY <1>1 DEF Abandoned, Current
  <2>2. /\ Cardinality(Abandoned') <= Cardinality(Abandoned)
        /\ Cardinality(Abandoned) \in Nat /\ Cardinality(Abandoned') \in Nat
    <3>1. IsFiniteSet(Abandoned)
      BY <1>2, FS_Subset DEF PendingNumbered, Abandoned
    <3> QED BY <2>1, <3>1, FS_Subset, FS_CardinalityType
  <2>3. UNCHANGED <<GivingUp, lost, gaveUp>> /\ GivingUp \in {0, 1}
    BY DEF GivingUp, history
  <2>4. Len(lost) \in Nat /\ gaveUp \in Nat /\ LossesPaid
    BY <1>2 DEF TypeOK
  <2> QED BY <2>2, <2>3, <2>4 DEF LossesPaid
<1> QED BY <1>6, <1>7, <1>8, <1>9, <1>10 DEF IInv

LEMMA CancelDoneStep == ASSUME IInv, CancelDone PROVE IInv'
<1>1. PICK io \in pending : pending' = pending \ {io}
  BY DEF CancelDone
<1>2. UNCHANGED <<buffer, outLen, main, op, n, cancelled, queue, arrived, history>>
  BY DEF CancelDone, caller
<1>3. buffer' = buffer \/ (Current(io) /\ buffer' = Failed)
  BY <1>2
<1> QED BY <1>1, <1>2, <1>3, GoneStep

LEMMA IOFailsStep == ASSUME IInv, IOFails PROVE IInv'
<1>1. PICK io \in pending : /\ pending' = pending \ {io}
                            /\ buffer' = IF Current(io) THEN Failed ELSE buffer
  BY DEF IOFails
<1>2. UNCHANGED <<outLen, main, op, n, cancelled, queue, arrived, history>>
  BY DEF IOFails, caller
<1>3. buffer' = buffer \/ (Current(io) /\ buffer' = Failed)
  BY <1>1
<1> QED BY <1>1, <1>2, <1>3, GoneStep

LEMMA NextIInv == IInv /\ [Next]_vars => IInv'
<1> SUFFICES ASSUME IInv, [Next]_vars PROVE IInv'
  OBVIOUS
<1>1. CASE UNCHANGED vars
  <2>1. Report' = Report /\ WritesArrive'
    BY <1>1, WireUnchanged DEF vars, caller, history, IInv
  <2> QED BY <1>1, <2>1 DEF vars, caller, driver, history, IInv, TypeOK, PendingNumbered, Current,
                  QueueNewest, Taken, InHand, WrittenFirst, LastOfReads, LossesPaid, Abandoned,
                  GivingUp, ReadsInOrder, OneLossPerRead
<1> QED BY <1>1, IssueStep, CompletesStep, ResultFailsStep, WaitFailsStep, WaitTimesOutStep,
           CancelStep, CloseStep, ArriveStep, ReadDoneStep, WriteDoneStep, IOFailsStep,
           CancelDoneStep DEF Next

\* The invariant holds of every reachable state, for any bounds, any packet
\* length and any output report length.
THEOREM InductiveInvariant == Spec => []IInv
BY InitIInv, NextIInv, PTL DEF Spec

\* Every variable has the values the code gives it (WinHid's Read, Write,
\* Close and overlappedIO).
THEOREM TypeCorrect == Spec => []TypeOK
<1>1. IInv => TypeOK
  BY DEF IInv
<1> QED BY <1>1, InductiveInvariant, PTL

\* Read returns whole packets, in the order they came, none twice, whatever
\* reads overlappedIO gave up on in between.
THEOREM ReadsStayInOrder == Spec => []ReadsInOrder
<1>1. IInv => ReadsInOrder
  BY DEF IInv
<1> QED BY <1>1, InductiveInvariant, PTL

\* Every report sent, by a Write that succeeded or one overlappedIO gave up on,
\* is what buildOutputReport should make of the packet: the report ID 0, the
\* packet, and zeros, cut to the length the device negotiated, whatever it is.
\* The device gets them in the order of the Writes, each once, and those of the
\* Writes without an error are among them.
THEOREM WritesAreSent == Spec => []WritesArrive
<1>1. IInv => WritesArrive
  BY DEF IInv
<1> QED BY <1>1, InductiveInvariant, PTL

\* A report is only lost to a Read that gave up, one report to each at most.
THEOREM LossesAreCounted == Spec => []OneLossPerRead
<1>1. IInv => OneLossPerRead
  BY DEF IInv
<1> QED BY <1>1, InductiveInvariant, PTL

\* When Read returns a report, no Read overlappedIO gave up on, cancelled or
\* not, is left to take the one after it.
THEOREM NoLossBetween == Spec => LossesComeFirst
<1>1. ASSUME IInv, [Next]_vars
      PROVE  [reads' # reads => \A io \in pending : io.op # "read"]_vars
  <2> SUFFICES ASSUME reads' # reads PROVE \A io \in pending : io.op # "read"
    OBVIOUS
  <2>1. Completes /\ op = "read"
    BY <1>1 DEF Next, vars, history, driver, caller, Issue, Completes, ResultFails, WaitFails,
                WaitTimesOut, Cancel, Close, Arrive, ReadDone, WriteDone, IOFails, CancelDone
  <2>2. InHand = 1
    BY <1>1, <2>1, WinAssumption DEF Completes, InHand, IInv, TypeOK, Nothing, Failed
  <2> QED BY <1>1, <2>1, <2>2 DEF IInv, LastOfReads
<1> QED BY <1>1, InductiveInvariant, PTL DEF Spec, LossesComeFirst
================================================================================
