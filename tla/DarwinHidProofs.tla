---------------------------- MODULE DarwinHidProofs ----------------------------
(***************************************************************************)
(* Theorems about the macOS backend, for any number of reports.            *)
(***************************************************************************)
EXTENDS DarwinHid, TLAPS

-----------------------------------------------------------------------------
(* The inductive invariant behind the safety properties *)

\* The callback runs inside the run loop only.
CallbackInRunLoop == cb # "none" => pump = "run" /\ arrived > 0

\* The device is open, and served, for exactly as long as the pump needs it.
DeviceFollowsPump ==
    /\ pump = "start" => dev = "open"
    /\ pump \in {"ready", "check", "enter", "run"} => dev = "open" /\ served
    /\ pump \in {"done", "exited"} => dev = "released" /\ ~served /\ stop

\* What the two goroutines know of each other through the channels they close.
Handshake ==
    /\ stop <=> main \in {"waking", "waiting", "closed"}
    /\ main \in {"open", "reading"} => ready
    /\ ready => pump \in {"check", "enter", "run", "done", "exited"}
    /\ main = "start" => pump = "none"
    /\ main = "closed" => pump = "exited"

IInv == TypeOK /\ CallbackInRunLoop /\ CallbackNeverBlocks /\ DeviceFollowsPump /\ Handshake

-----------------------------------------------------------------------------
(* The proofs *)

\* The invariant holds when the program starts.
LEMMA InitIInv == Init => IInv
<1> SUFFICES ASSUME Init PROVE IInv
  OBVIOUS
<1>1. reads \in Seq(1..MaxReports)
  BY DEF Init
<1>2. arrived \in 0..MaxReports
  BY DarwinAssumption DEF Init
<1>3. TypeOK
  BY <1>1, <1>2, Zenon DEF Init, TypeOK
<1>4. CallbackInRunLoop /\ CallbackNeverBlocks /\ DeviceFollowsPump /\ Handshake
  BY DEF Init, CallbackInRunLoop, CallbackNeverBlocks, DeviceFollowsPump, Handshake
<1> QED BY <1>3, <1>4 DEF IInv

\* Open, Read and Close keep the invariant.
LEMMA MainStep ==
    ASSUME IInv,
           \/ Open \/ OpenReady \/ OpenTimeout \/ ReadStart \/ ReadReturns
           \/ ReadTimesOut \/ Close \/ Closing
    PROVE  IInv'
<1> USE DarwinAssumption DEF IInv, TypeOK, CallbackInRunLoop, CallbackNeverBlocks,
        DeviceFollowsPump, Handshake, Room, device, queue
<1>1. CASE Open
  BY <1>1 DEF Open
<1>2. CASE OpenReady
  BY <1>2 DEF OpenReady
<1>3. CASE OpenTimeout
  BY <1>3 DEF OpenTimeout
<1>4. CASE ReadStart
  BY <1>4 DEF ReadStart
<1>5. CASE ReadReturns
  <2>1. PICK r \in 1..MaxReports : reports = <<r>>
    BY <1>5 DEF ReadReturns
  <2>2. reports' = << >> /\ reads' = Append(reads, r)
    BY <1>5, <2>1 DEF ReadReturns
  <2>3. reads' \in Seq(1..MaxReports)
    BY <2>2
  <2> QED BY <1>5, <2>2, <2>3 DEF ReadReturns
<1>6. CASE ReadTimesOut
  BY <1>6 DEF ReadTimesOut
<1>7. CASE Close
  BY <1>7 DEF Close
<1>8. CASE StopRunLoop
  BY <1>8 DEF StopRunLoop
<1>9. CASE CloseReturns
  BY <1>9 DEF CloseReturns
<1> QED BY <1>1, <1>2, <1>3, <1>4, <1>5, <1>6, <1>7, <1>8, <1>9 DEF Closing

\* The pump, and the callback on its thread, keep the invariant.
LEMMA PumpThreadStep ==
    ASSUME IInv, PumpStep \/ Deliver \/ Callback
    PROVE  IInv'
<1> USE DarwinAssumption DEF IInv, TypeOK, CallbackInRunLoop, CallbackNeverBlocks,
        DeviceFollowsPump, Handshake, Room, device, queue
<1>1. CASE PumpSchedule
  BY <1>1 DEF PumpSchedule
<1>2. CASE PumpReady
  BY <1>2 DEF PumpReady
<1>3. CASE PumpRuns
  BY <1>3 DEF PumpRuns
<1>11. CASE PumpChecks
  BY <1>11 DEF PumpChecks
<1>4. CASE PumpTearsDown
  BY <1>4 DEF PumpTearsDown
<1>5. CASE PumpExits
  BY <1>5 DEF PumpExits
<1>6. CASE RunLoopReturns
  BY <1>6 DEF RunLoopReturns
<1>7. CASE Deliver
  BY <1>7 DEF Deliver
<1>8. CASE OnReportSend
  <2>1. Room => reports' = <<arrived>> /\ arrived \in 1..MaxReports
    BY <1>8 DEF OnReportSend
  <2> QED BY <1>8, <2>1 DEF OnReportSend
<1>9. CASE OnReportDrop
  <2>1. reports' = << >>
    <3>1. CASE reports = << >>
      BY <1>9, <3>1 DEF OnReportDrop
    <3>2. ASSUME NEW r \in 1..MaxReports, reports = <<r>>
          PROVE  reports' = << >>
      BY <1>9, <3>2 DEF OnReportDrop
    <3> QED BY <3>1, <3>2
  <2> QED BY <1>9, <2>1 DEF OnReportDrop
<1>10. CASE OnReportResend
  <2>1. reports' = <<arrived>> /\ arrived \in 1..MaxReports
    BY <1>10 DEF OnReportResend
  <2> QED BY <1>10, <2>1 DEF OnReportResend
<1> QED
  BY <1>1, <1>2, <1>3, <1>4, <1>5, <1>6, <1>7, <1>8, <1>9, <1>10,
     <1>11 DEF PumpStep, Callback

\* Every step of the system keeps the invariant.
LEMMA NextIInv ==
    ASSUME IInv, [Next]_vars
    PROVE  IInv'
<1>1. CASE Next
  BY <1>1, MainStep, PumpThreadStep DEF Next
<1>2. CASE UNCHANGED vars
  BY <1>2 DEF vars, device, queue, IInv, TypeOK, CallbackInRunLoop,
     CallbackNeverBlocks, DeviceFollowsPump, Handshake, Room
<1> QED BY <1>1, <1>2

\* The two goroutines and the callback preserve the invariant however they
\* interleave.
THEOREM InductiveInvariant == Spec => []IInv
<1>1. Init => IInv
  BY InitIInv
<1>2. IInv /\ [Next]_vars => IInv'
  BY NextIInv
<1> QED BY <1>1, <1>2, PTL DEF Spec

\* The variables keep their types; the channel never holds two reports.
THEOREM TypeCorrect == Spec => []TypeOK
<1>1. IInv => TypeOK
  BY DEF IInv
<1> QED BY <1>1, InductiveInvariant, PTL

\* The callback's second send always finds room.
THEOREM SecondSendFindsRoom == Spec => []CallbackNeverBlocks
<1>1. IInv => CallbackNeverBlocks
  BY DEF IInv
<1> QED BY <1>1, InductiveInvariant, PTL

\* A device that Open has returned is served until Close.
THEOREM ServedWhileOpen == Spec => []OpenIsServed
<1>1. IInv => OpenIsServed
  BY DEF IInv, Handshake, DeviceFollowsPump, OpenIsServed
<1> QED BY <1>1, InductiveInvariant, PTL

\* A device that Close has returned from is released for good.
THEOREM ReleasedOnceClosed == Spec => []ClosedIsReleased
<1>1. IInv => ClosedIsReleased
  BY DEF IInv, TypeOK, Handshake, DeviceFollowsPump, CallbackInRunLoop, ClosedIsReleased
<1> QED BY <1>1, InductiveInvariant, PTL

\* The new report takes the old one's place in one step of the slot.
LEMMA CallbackImplements ==
    ASSUME IInv, Callback
    PROVE  [Latest!Next]_Latest!vars
<1> USE DEF IInv, TypeOK, CallbackNeverBlocks, CallbackInRunLoop, Room
<1>1. CASE OnReportSend
  <2>1. CASE Room /\ reports' = Append(reports, arrived) /\ cb' = "none"
    BY <1>1, <2>1 DEF OnReportSend, Latest!Next, Latest!Arrive
  <2>2. CASE ~Room /\ cb' = "drop" /\ UNCHANGED reports
    BY <1>1, <2>2 DEF OnReportSend, Latest!vars
  <2> QED BY <1>1, <2>1, <2>2 DEF OnReportSend
<1>2. CASE OnReportDrop
  BY <1>2 DEF OnReportDrop, Latest!Next, Latest!Arrive
<1>3. CASE OnReportResend
  BY <1>3 DEF OnReportResend, Latest!vars
<1> QED BY <1>1, <1>2, <1>3 DEF Callback

\* Every step is a step of the slot or leaves it alone.
LEMMA StepImplements ==
    ASSUME IInv, [Next]_vars
    PROVE  [Latest!Next]_Latest!vars
<1>1. CASE Callback
  BY <1>1, CallbackImplements
<1>2. CASE ReadReturns
  <2>1. cb # "resend"
    BY <1>2 DEF ReadReturns, IInv, CallbackNeverBlocks, Room
  <2>2. PICK r \in 1..MaxReports : reports = <<r>>
    BY <1>2 DEF ReadReturns, IInv, TypeOK
  <2> QED BY <1>2, <2>1, <2>2 DEF ReadReturns, Latest!Next, Latest!Take
<1>3. CASE Deliver
  BY <1>3 DEF Deliver, IInv, TypeOK, Latest!vars
<1>4. CASE UNCHANGED <<queue, reads>>
  BY <1>4 DEF queue, Latest!vars
<1>5. ASSUME Next, ~Callback, ~ReadReturns, ~Deliver
      PROVE  UNCHANGED <<queue, reads>>
  BY <1>5 DEF Next, Closing, PumpStep, Open, OpenReady, OpenTimeout, ReadStart,
     ReadTimesOut, Close, StopRunLoop, CloseReturns, PumpSchedule, PumpReady,
     PumpChecks, PumpRuns, PumpTearsDown, PumpExits, RunLoopReturns
<1> QED BY <1>1, <1>2, <1>3, <1>4, <1>5 DEF vars

\* The channel, the callback and Read together are the one-report slot: Read
\* gets the newest report, and none twice.
THEOREM Refinement == Spec => ImplementsLatest
<1>1. Init => Latest!Init
  BY DEF Init, Latest!Init
<1>2. IInv /\ [Next]_vars => [Latest!Next]_Latest!vars
  BY StepImplements
<1> QED BY <1>1, <1>2, InductiveInvariant, PTL DEF Spec, ImplementsLatest, Latest!Spec
=============================================================================
