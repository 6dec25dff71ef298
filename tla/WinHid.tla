-------------------------------- MODULE WinHid --------------------------------
(***************************************************************************)
(* The Windows backend's open device: Read, Write and Close over           *)
(* overlappedIO, which issues an asynchronous ReadFile or WriteFile, waits *)
(* for it with a timeout, asks for its cancellation when the time is up    *)
(* but not when the wait itself fails, and returns without waiting for     *)
(* what becomes of it.                                                     *)
(*                                                                         *)
(* I/Os are numbered; each has an event, an OVERLAPPED and a buffer of its *)
(* own, which live until overlappedIO returns.                             *)
(***************************************************************************)
EXTENDS Naturals, Sequences, FiniteSets

CONSTANTS
    MaxIOs,         \* bound: Reads and Writes called
    MaxReports,     \* bound: input reports the device sends
    PacketLen,      \* bytes of a CTAPHID packet (64)
    OutLens         \* output report lengths a device may have negotiated

ASSUME WinAssumption ==
    /\ MaxIOs \in Nat /\ MaxReports \in Nat
    /\ PacketLen \in Nat \ {0} /\ OutLens \subseteq Nat

VARIABLES
    outLen,     \* the device's output report length, report ID included
    main,       \* where the caller of Read, Write and Close is
    op,         \* what it called
    n,          \* number of the I/O issued last
    buffer,     \* how that I/O ended, once it has: the report in a Read's
                \* buffer, Written, or Failed
    pending,    \* reads and writes the driver has not finished
    cancelled,  \* those CancelIoEx was called for
    queue,      \* input reports the driver holds
    arrived,    \* number of the report that arrived last
    reads,      \* history: the packets Read returned
    accepted,   \* history: Writes that returned no error
    written,    \* history: the reports sent to the device, and by which Write
    lost,       \* history: reports that went to a Read that gave up
    gaveUp      \* history: Reads that gave up

caller == <<outLen, main, op, n>>
driver == <<pending, cancelled, queue, arrived>>
history == <<reads, accepted, written, lost, gaveUp>>
vars == <<caller, buffer, driver, history>>

Nothing == 0                    \* an I/O that is not complete
Written == MaxReports + 1       \* a write that is
Failed == MaxReports + 2        \* an I/O that ended with an error
IO == [op : {"read", "write"}, n : 1..MaxIOs]

\* Byte i of the packet that I/O k is to write, or that report k holds, is the
\* pair <<k, i>>; Zero is the byte 0 of report IDs and filling.
Zero == <<0, 0>>
Packet(k) == [i \in 1..PacketLen |-> <<k, i>>]

\* Wrong on purpose: the packet starts where the report ID belongs.
OutputReportUnnumbered(report, len) ==
    [i \in 1..(IF len < 1 THEN 1 ELSE len) |-> IF i \in DOMAIN report THEN report[i] ELSE Zero]

\* The report ID 0, then the packet, zero-padded or cut to the length.
buildOutputReport(report, len) ==
    [i \in 1..(IF len < 1 THEN 1 ELSE len) |->
        IF i - 1 \in DOMAIN report THEN report[i - 1] ELSE Zero]

stripInputReportPrefix(buf) == Tail(buf)

\* What Windows makes of an input report in the buffer of a ReadFile. It is
\* taken to be whole: Read hands on whatever is there but nothing at all.
InputReport(k) == <<Zero>> \o Packet(k)

Init ==
    /\ outLen \in OutLens
    /\ main = "idle" /\ op = "read" /\ n = 0 /\ buffer = Nothing
    /\ pending = {} /\ cancelled = {} /\ queue = << >> /\ arrived = 0
    /\ reads = << >> /\ accepted = {} /\ written = << >> /\ lost = << >> /\ gaveUp = 0

-----------------------------------------------------------------------------
(* Read, Write and Close *)

\* Wrong on purpose: one buffer and event for all I/Os.
OldBuffer == buffer

NewBuffer == Nothing

\* ReadFile or WriteFile is issued. (When that fails outright, overlappedIO
\* returns and nothing has happened.)
Issue ==
    /\ main = "idle" /\ n < MaxIOs
    /\ \E o \in {"read", "write"} :
          /\ op' = o
          /\ pending' = pending \cup {[op |-> o, n |-> n + 1]}
    /\ n' = n + 1 /\ buffer' = NewBuffer
    /\ main' = "wait"
    /\ UNCHANGED <<outLen, cancelled, queue, arrived, history>>

\* Wrong on purpose: the result is asked for and not used.
CompletesEmpty ==
    /\ main = "wait" /\ buffer \notin {Nothing, Failed}
    /\ main' = "idle"
    /\ UNCHANGED <<outLen, op, n, buffer, driver, history>>

\* Wrong on purpose: a wait that timed out counts as one that did not.
CompletesAnyway ==
    /\ main = "wait" /\ buffer # Failed
    /\ reads' = IF op = "read" THEN Append(reads, Packet(buffer)) ELSE reads
    /\ accepted' = IF op = "write" THEN accepted \cup {n} ELSE accepted
    /\ main' = "idle"
    /\ UNCHANGED <<outLen, op, n, buffer, driver, written, lost, gaveUp>>

\* The event is signalled in time, and the I/O has succeeded.
Completes ==
    /\ main = "wait" /\ buffer \notin {Nothing, Failed}
    /\ \/ /\ op = "read"
          /\ reads' = Append(reads, stripInputReportPrefix(InputReport(buffer)))
          /\ UNCHANGED accepted
       \/ /\ op = "write"
          /\ accepted' = accepted \cup {n}
          /\ UNCHANGED reads
    /\ main' = "idle"
    /\ UNCHANGED <<outLen, op, n, buffer, driver, written, lost, gaveUp>>

\* The event is signalled in time, but for an I/O that failed.
ResultFails ==
    /\ main = "wait" /\ buffer = Failed
    /\ main' = "idle"
    /\ UNCHANGED <<outLen, op, n, buffer, driver, history>>

WaitTimesOut ==
    /\ main = "wait" /\ buffer = Nothing
    /\ main' = "cancel"
    /\ gaveUp' = IF op = "read" THEN gaveUp + 1 ELSE gaveUp
    /\ UNCHANGED <<outLen, op, n, buffer, driver, reads, accepted, written, lost>>

\* The buffer is abandoned, with the report in it, if one came.
Abandon == lost' = IF buffer \in 1..MaxReports THEN Append(lost, buffer) ELSE lost

\* The wait itself fails, whatever has become of the I/O: nothing is cancelled.
WaitFails ==
    /\ main = "wait"
    /\ Abandon
    /\ main' = "idle"
    /\ gaveUp' = IF op = "read" THEN gaveUp + 1 ELSE gaveUp
    /\ UNCHANGED <<outLen, op, n, buffer, driver, reads, accepted, written>>

\* Cancellation is asked for, and whether it was granted not looked at; a report
\* that came in the meantime is lost.
Cancel ==
    /\ main = "cancel"
    /\ cancelled' = cancelled \cup {n}
    /\ Abandon
    /\ main' = "idle"
    /\ UNCHANGED <<outLen, op, n, buffer, pending, queue, arrived, reads, accepted, written, gaveUp>>

\* Closing the handle cancels what is still pending.
Close ==
    /\ main = "idle"
    /\ main' = "closed"
    /\ pending' = {}
    /\ UNCHANGED <<outLen, op, n, buffer, cancelled, queue, arrived, history>>

-----------------------------------------------------------------------------
(* Windows and the device: not under src/. *)

Arrive ==
    /\ main # "closed" /\ arrived < MaxReports
    /\ arrived' = arrived + 1
    /\ queue' = Append(queue, arrived')
    /\ UNCHANGED <<caller, buffer, pending, cancelled, history>>

\* The I/O somebody still waits for.
Current(io) == io.n = n /\ main \in {"wait", "cancel"}
First(o, io) == io.op = o /\ \A other \in pending : other.op = o => io.n <= other.n

\* The oldest read gets the oldest report, in a buffer nobody has any longer
\* if overlappedIO has returned.
ReadDone ==
    /\ queue # << >>
    /\ \E io \in pending :
          /\ First("read", io)
          /\ pending' = pending \ {io}
          /\ IF Current(io)
             THEN buffer' = Head(queue) /\ UNCHANGED lost
             ELSE lost' = Append(lost, Head(queue)) /\ UNCHANGED buffer
    /\ queue' = Tail(queue)
    /\ UNCHANGED <<caller, cancelled, arrived, reads, accepted, written, gaveUp>>

\* The device has the oldest report written; the driver may still say that
\* something failed, or that not all of it was written.
WriteDone ==
    /\ \E io \in pending :
          /\ First("write", io)
          /\ pending' = pending \ {io}
          /\ written' = Append(written, [of |-> io.n,
                                         report |-> buildOutputReport(Packet(io.n), outLen)])
          /\ IF Current(io) THEN buffer' \in {Written, Failed} ELSE UNCHANGED buffer
    /\ UNCHANGED <<caller, cancelled, queue, arrived, reads, accepted, lost, gaveUp>>

\* An I/O ends with an error, and has done nothing.
IOFails ==
    /\ \E io \in pending :
          /\ pending' = pending \ {io}
          /\ buffer' = IF Current(io) THEN Failed ELSE buffer
    /\ UNCHANGED <<caller, cancelled, queue, arrived, history>>

\* A cancelled I/O is over. (Where Windows refused to cancel it, never.)
CancelDone ==
    /\ \E io \in pending : io.n \in cancelled /\ pending' = pending \ {io}
    /\ UNCHANGED <<caller, buffer, cancelled, queue, arrived, history>>

-----------------------------------------------------------------------------
Next ==
    \/ Issue \/ Completes \/ ResultFails \/ WaitFails \/ WaitTimesOut \/ Cancel \/ Close
    \/ Arrive \/ ReadDone \/ WriteDone \/ IOFails \/ CancelDone

Spec == Init /\ [][Next]_vars

-----------------------------------------------------------------------------
(* Properties *)

\* Every variable has the values the code gives it.
TypeOK ==
    /\ main \in {"idle", "wait", "cancel", "closed"} /\ op \in {"read", "write"}
    /\ n \in 0..MaxIOs /\ gaveUp \in 0..MaxIOs
    /\ op = "read" => buffer \in 0..MaxReports \cup {Failed}
    /\ op = "write" => buffer \in {Nothing, Written, Failed}
    /\ pending \subseteq IO /\ cancelled \subseteq 1..MaxIOs
    /\ queue \in Seq(1..MaxReports) /\ accepted \subseteq 1..MaxIOs
    /\ lost \in Seq(1..MaxReports) /\ outLen \in OutLens

\* Packets are read whole, in the order they came, and none twice, whatever
\* I/Os were given up in between.
ReadsInOrder ==
    /\ \A i \in DOMAIN reads : reads[i] \in {Packet(k) : k \in 1..arrived}
    /\ \A i, j \in DOMAIN reads : i < j => reads[i][1][1] < reads[j][1][1]

\* What WriteFile expects for packet k (hid_windows.go:191-195): the report ID,
\* the packet and filling, of which it takes the negotiated length.
OnTheWire(k) ==
    SubSeq(<<Zero>> \o Packet(k) \o [i \in 1..outLen |-> Zero], 1, IF outLen = 0 THEN 1 ELSE outLen)

\* Every report the device gets, also from a Write that gave up, is the report
\* ID 0 and the packet, filled up to the length the device negotiated, or cut to
\* it, whatever that length is. The device gets them in the order of the Writes,
\* none twice, and when Write returns no error, it has had the report. (That a
\* report was cut, no error says.)
WritesArrive ==
    /\ \A i \in DOMAIN written : written[i].report = OnTheWire(written[i].of)
    /\ \A i, j \in DOMAIN written : i < j => written[i].of < written[j].of
    /\ \A k \in accepted : \E i \in DOMAIN written : written[i].of = k

\* A report that has come is read, waiting, or was lost to a Read that gave up,
\* because it timed out or could not wait, and costs one report at most.
InHand == IF main \in {"wait", "cancel"} /\ buffer \in 1..MaxReports THEN 1 ELSE 0
OneLossPerRead ==
    /\ arrived = Len(reads) + Len(queue) + Len(lost) + InHand
    /\ Len(lost) <= gaveUp

\* When Read returns a report, no Read is under way that gave up before it,
\* cancelled or not: an answer of which one report was read loses no other
\* report until another Read gives up.
LossesComeFirst == [][reads' # reads => \A io \in pending : io.op # "read"]_vars
=============================================================================
