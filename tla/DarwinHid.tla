------------------------------- MODULE DarwinHid -------------------------------
(***************************************************************************)
(* The macOS backend's open device: the goroutine that opens, reads and    *)
(* closes it (Open, Read, Close), the goroutine that pumps its run loop    *)
(* (pump), and the callback IOKit makes on the latter's thread (onReport). *)
(* They share a channel of capacity 1, the reports, and three channels     *)
(* that are only ever closed: ready, stopRunLoop, runLoopDone.             *)
(***************************************************************************)
EXTENDS Naturals, Sequences

CONSTANT MaxReports     \* bound: input reports the device sends

ASSUME DarwinAssumption == MaxReports \in Nat

VARIABLES
    main,       \* where the caller of Open, Read and Close is
    pump,       \* where the pump goroutine is
    dev,        \* the IOHIDDevice
    served,     \* the callback is registered, the device scheduled
    ready,      \* ready is closed
    stop,       \* stopRunLoop is closed
    cb,         \* where the callback is
    reports,    \* contents of the channel reports
    woken,      \* cfRunLoopStop has been called on the loop while it ran
    arrived,    \* number of the report delivered last
    reads       \* history: the reports read

device == <<dev, served>>
queue == <<cb, reports, arrived>>
vars == <<main, pump, device, ready, stop, queue, woken, reads>>

Init ==
    /\ main = "start" /\ pump = "none" /\ dev = "none" /\ served = FALSE
    /\ ready = FALSE /\ stop = FALSE /\ cb = "none" /\ reports = << >>
    /\ woken = FALSE /\ arrived = 0 /\ reads = << >>

-----------------------------------------------------------------------------
(* Open, Read and Close *)

\* The device is created and opened, the pump started; or one of these steps
\* fails, and what was created is released.
Open ==
    /\ main = "start"
    /\ \/ main' = "opening" /\ dev' = "open" /\ pump' = "start"
       \/ main' = "failed" /\ dev' = "released" /\ UNCHANGED pump
    /\ UNCHANGED <<served, ready, stop, queue, woken, reads>>

OpenReady ==
    /\ main = "opening" /\ ready
    /\ main' = "open"
    /\ UNCHANGED <<pump, device, ready, stop, queue, woken, reads>>

\* Open gives up waiting; nothing tells the pump.
OpenTimeout ==
    /\ main = "opening"
    /\ main' = "failed"
    /\ UNCHANGED <<pump, device, ready, stop, queue, woken, reads>>

ReadStart ==
    /\ main = "open"
    /\ main' = "reading"
    /\ UNCHANGED <<pump, device, ready, stop, queue, woken, reads>>

ReadReturns ==
    /\ main = "reading" /\ reports # << >>
    /\ reads' = Append(reads, Head(reports))
    /\ reports' = Tail(reports)
    /\ main' = "open"
    /\ UNCHANGED <<pump, device, ready, stop, cb, arrived, woken>>

\* Both a report and the timer may be there: select takes either.
ReadTimesOut ==
    /\ main = "reading"
    /\ main' = "open"
    /\ UNCHANGED <<pump, device, ready, stop, queue, woken, reads>>

Close ==
    /\ main = "open"
    /\ stop' = TRUE
    /\ main' = "waking"
    /\ UNCHANGED <<pump, device, ready, queue, woken, reads>>

\* cfRunLoopStop ends the CFRunLoopRunInMode in progress, if there is one.
StopRunLoop ==
    /\ main = "waking"
    /\ woken' = (pump = "run")
    /\ main' = "waiting"
    /\ UNCHANGED <<pump, device, ready, stop, queue, reads>>

\* Wrong on purpose: runLoopDone is not waited for.
CloseReturnsAtOnce ==
    /\ main = "waiting"
    /\ main' = "closed"
    /\ UNCHANGED <<pump, device, ready, stop, queue, woken, reads>>

CloseReturns ==
    /\ main = "waiting" /\ pump = "exited"
    /\ main' = "closed"
    /\ UNCHANGED <<pump, device, ready, stop, queue, woken, reads>>

-----------------------------------------------------------------------------
(* pump *)

PumpSchedule ==
    /\ pump = "start"
    /\ served' = TRUE
    /\ pump' = "ready"
    /\ UNCHANGED <<main, dev, ready, stop, queue, woken, reads>>

\* Wrong on purpose: ready is closed before the device is scheduled.
PumpReadyFirst ==
    /\ pump \in {"start", "ready"}
    /\ ready' = TRUE
    /\ pump' = IF pump = "start" THEN pump ELSE "check"
    /\ UNCHANGED <<main, device, stop, queue, woken, reads>>

PumpReady ==
    /\ pump = "ready"
    /\ ready' = TRUE
    /\ pump' = "check"
    /\ UNCHANGED <<main, device, stop, queue, woken, reads>>

\* The loop looks at stopRunLoop and finds it open.
PumpChecks ==
    /\ pump = "check" /\ ~stop
    /\ pump' = "enter"
    /\ UNCHANGED <<main, device, ready, stop, queue, woken, reads>>

\* CFRunLoopRunInMode begins; a cfRunLoopStop before that is forgotten.
PumpRuns ==
    /\ pump = "enter"
    /\ pump' = "run" /\ woken' = FALSE
    /\ UNCHANGED <<main, device, ready, stop, queue, reads>>

\* The loop finds stopRunLoop closed: the device is unscheduled, closed and
\* released.
PumpTearsDown ==
    /\ pump = "check" /\ stop
    /\ dev' = "released" /\ served' = FALSE
    /\ pump' = "done"
    /\ UNCHANGED <<main, ready, stop, queue, woken, reads>>

\* runLoopDone is closed and the goroutine's thread, with its run loop, ends.
PumpExits ==
    /\ pump = "done"
    /\ pump' = "exited"
    /\ UNCHANGED <<main, device, ready, stop, queue, woken, reads>>

\* Wrong on purpose: the run loop is run without a time limit.
NeverPolls == FALSE

\* CFRunLoopRunInMode is given a poll interval, which may be over.
PollElapsed == TRUE

RunLoopReturns ==
    /\ pump = "run" /\ cb = "none"
    /\ woken \/ PollElapsed
    /\ pump' = "check"
    /\ UNCHANGED <<main, device, ready, stop, queue, woken, reads>>

-----------------------------------------------------------------------------
(* onReport, on the pump's thread: the run loop waits for it to return. *)

\* IOKit: a report arrives while the run loop is pumped.
Deliver ==
    /\ pump = "run" /\ served /\ cb = "none" /\ arrived < MaxReports
    /\ arrived' = arrived + 1
    /\ cb' = "send"
    /\ UNCHANGED <<main, pump, device, ready, stop, reports, woken, reads>>

\* Wrong on purpose: a channel of capacity 2.
RoomForTwo == Len(reports) < 2

\* The channel reports has capacity 1.
Room == reports = << >>

\* Wrong on purpose: a report that finds the channel full is lost itself.
KeepsStale ==
    /\ cb = "send"
    /\ reports' = IF Room THEN Append(reports, arrived) ELSE reports
    /\ cb' = "none"
    /\ UNCHANGED <<main, pump, device, ready, stop, arrived, woken, reads>>

\* The report is queued, or the channel is full.
OnReportSend ==
    /\ cb = "send"
    /\ \/ Room /\ reports' = Append(reports, arrived) /\ cb' = "none"
       \/ ~Room /\ cb' = "drop" /\ UNCHANGED reports
    /\ UNCHANGED <<main, pump, device, ready, stop, arrived, woken, reads>>

\* Wrong on purpose: the send is repeated without making room.
DropsNothing ==
    /\ cb = "drop"
    /\ cb' = "resend"
    /\ UNCHANGED <<main, pump, device, ready, stop, reports, arrived, woken, reads>>

\* The report waiting is dropped, unless Read has taken it by now.
OnReportDrop ==
    /\ cb = "drop"
    /\ reports' = IF reports = << >> THEN reports ELSE Tail(reports)
    /\ cb' = "resend"
    /\ UNCHANGED <<main, pump, device, ready, stop, arrived, woken, reads>>

\* The second send waits for room.
OnReportResend ==
    /\ cb = "resend" /\ Room
    /\ reports' = Append(reports, arrived)
    /\ cb' = "none"
    /\ UNCHANGED <<main, pump, device, ready, stop, arrived, woken, reads>>

-----------------------------------------------------------------------------
Callback == OnReportSend \/ OnReportDrop \/ OnReportResend
PumpStep ==
    \/ PumpSchedule \/ PumpReady \/ PumpChecks \/ PumpRuns \/ PumpTearsDown
    \/ PumpExits \/ RunLoopReturns
Closing == StopRunLoop \/ CloseReturns

Next ==
    \/ Open \/ OpenReady \/ OpenTimeout \/ ReadStart \/ ReadReturns
    \/ ReadTimesOut \/ Close \/ Closing \/ PumpStep \/ Deliver \/ Callback

Spec == Init /\ [][Next]_vars

\* The pump's thread and a caller inside Close keep running; nobody need
\* read, and no report need come.
FairSpec == Spec /\ WF_vars(PumpStep) /\ WF_vars(Callback) /\ WF_vars(Closing)

-----------------------------------------------------------------------------
(* Properties *)

\* Every variable has the values the code gives it; the channel reports
\* holds one report at most.
TypeOK ==
    /\ main \in {"start", "opening", "failed", "open", "reading", "waking",
                 "waiting", "closed"}
    /\ pump \in {"none", "start", "ready", "check", "enter", "run", "done",
                 "exited"}
    /\ dev \in {"none", "open", "released"} /\ served \in BOOLEAN
    /\ ready \in BOOLEAN /\ stop \in BOOLEAN /\ woken \in BOOLEAN
    /\ cb \in {"none", "send", "drop", "resend"}
    /\ arrived \in 0..MaxReports
    /\ reports = << >> \/ \E r \in 1..MaxReports : reports = <<r>>
    /\ reads \in Seq(1..MaxReports)

\* The callback's second send, which has no default branch, never blocks the
\* run loop's thread: only the callback sends, so the room it made, or Read
\* made, is still there.
CallbackNeverBlocks == cb = "resend" => Room

\* Once Open has returned a device, its reports are delivered until Close.
OpenIsServed == main \in {"open", "reading"} => served /\ dev = "open"

\* Once Close has returned, the device is released and no callback runs or
\* will run.
ClosedIsReleased == main = "closed" => dev = "released" /\ ~served /\ cb = "none"

\* Close returns: the pump notices stopRunLoop however it and cfRunLoopStop
\* interleave, whatever the callback is doing.
CloseEnds == main = "waking" ~> main = "closed"

\* Whatever the callback and Read do to the channel between each other's
\* steps, Read gets the newest report and none twice. The drop is where the
\* new report takes the old one's place.
Latest == INSTANCE LatestReport WITH
    arrived <- IF cb \in {"send", "drop"} THEN arrived - 1 ELSE arrived,
    slot <- IF cb = "resend" THEN <<arrived>> ELSE reports

ImplementsLatest == Latest!Spec
=============================================================================
