------------------------- MODULE AgentManagerProofs -------------------------
(***************************************************************************)
(* What TLC checks of AgentManager on one or two workers, proved for any   *)
(* number of workers, windows and responses: its types (with the bound on  *)
(* each worker's samples), that no worker divides by an unset              *)
(* per_thread_samples, that the samples fit in the manager's aggregate,    *)
(* that a report loses nothing accounted in its window, and that in a step *)
(* pattern it adds nothing: neither requests nor samples of another one.   *)
(***************************************************************************)
EXTENDS AgentManager, FiniteSetTheorems, TLAPS

Base == TypeOK /\ Control

LEMMA ThreadsAre1toN == N \in Nat \ {0} /\ Threads = 1 .. N /\ 1 \in Threads
BY AgentAssumption DEF Threads

LEMMA LoopType ==
  ASSUME TypeOK, NEW last \in ManagerSteps, NEW next \in ManagerSteps, Loop(last, next)
  PROVE  mpc' \in {last, next} /\ mi' \in Threads
<1>1. N \in Nat \ {0} /\ Threads = 1 .. N /\ mi \in Threads
  BY ThreadsAre1toN DEF TypeOK
<1>2. CASE mi = N
  BY <1>1, <1>2, ThreadsAre1toN DEF Loop, Goto
<1>3. CASE mi # N
  <2>1. mi + 1 \in Threads
    BY <1>1, <1>3
  <2>2. mpc' = last /\ mi' = mi + 1
    BY <1>3 DEF Loop
  <2> QED
    BY <2>1, <2>2
<1> QED
  BY <1>2, <1>3

(* Where a worker goes, in the order that its type accounts in. *)
LEMMA AccountingOrder ==
  /\ FirstStep \in {"lat_check", "rx_check"}
  /\ AfterRx \in {"lat_check", "idle"}
  /\ AfterLat \in {"rx_check", "idle"}
BY DEF FirstStep, AfterRx, AfterLat

LEMMA InitBase == Init => Base
<1> SUFFICES ASSUME Init PROVE Base
  OBVIOUS
<1> USE DEF Init
<1>1. TypeOK
  <2>1. NoAgg \in [rx : [Threads -> Nat], samples : Seq(Windows), base : Nat]
    BY DEF NoAgg
  <2>2. MAX_PER_THREAD_SAMPLES \in Nat /\ MaxWindows \in Nat
    BY AgentAssumption
  <2>3. 0 \in Windows /\ 0 \in 0 .. MAX_PER_THREAD_SAMPLES
    BY <2>2 DEF Windows
  <2> QED
    BY <2>1, <2>3, ThreadsAre1toN DEF TypeOK, Messages, ManagerSteps, WorkerSteps
<1>2. Control
  BY DEF Control, Reporting
<1> QED
  BY <1>1, <1>2 DEF Base

-----------------------------------------------------------------------------
(* The coordinator's steps. *)
LEMMA CoordBase ==
  ASSUME Base, SendLoad \/ SendMeasure \/ SendReport
  PROVE  Base'
<1> USE AgentAssumption DEF Base, shared, manager, worker, history
<1>1. CASE SendLoad
  <2>1. TypeOK'
    BY <1>1 DEF SendLoad, TypeOK, Messages
  <2>2. Control'
    BY <1>1 DEF SendLoad, Control, Reporting
  <2> QED
    BY <2>1, <2>2
<1>2. CASE SendMeasure
  <2>1. asked' \in Nat
    BY <1>2 DEF SendMeasure
  <2>2. TypeOK'
    BY <1>2, <2>1 DEF SendMeasure, TypeOK, Messages
  <2>3. Control'
    BY <1>2 DEF SendMeasure, Control, Reporting
  <2> QED
    BY <2>2, <2>3
<1>3. CASE SendReport
  BY <1>3 DEF SendReport, TypeOK, Control, Reporting, Messages
<1> QED
  BY <1>1, <1>2, <1>3

(* The handlers of START_LOAD and START_MEASURE. *)
LEMMA HandlerBase ==
  ASSUME Base, \/ Receive \/ Disconnect \/ LoadStop \/ ClearRx \/ ClearLat \/ LoadStart
               \/ SetSamples \/ MeasureStart
  PROVE  Base'
<1> USE DEF Base, shared, worker, history, Goto, ManagerSteps
<1>1. 1 \in Threads /\ MAX_PER_THREAD_SAMPLES \in Nat /\ MaxWindows \in Nat
  BY ThreadsAre1toN, AgentAssumption
<1>2. CASE Receive
  BY <1>1, <1>2 DEF Receive, TypeOK, Control, Reporting, Messages
<1>3. CASE Disconnect
  BY <1>1, <1>3 DEF Disconnect, TypeOK, Control, Reporting
<1>4. CASE LoadStop
  BY <1>1, <1>4 DEF LoadStop, TypeOK, Control, Reporting
<1>5. CASE ClearRx
  <2>1. begun' \in [Threads -> Nat] /\ rx' \in [Threads -> Nat]
    BY <1>5 DEF ClearRx, TypeOK
  <2>2. TypeOK'
    BY <1>1, <1>5, <2>1 DEF ClearRx, TypeOK
  <2> QED
    BY <1>1, <1>5, <2>2 DEF ClearRx, Control, Reporting
<1>6. CASE ClearLat
  <2> DEFINE next == IF msg = "START_LOAD" THEN "load_start" ELSE "set"
  <2>1. mpc' \in {"clear_rx", next} /\ mi' \in Threads
    BY <1>6, LoopType DEF ClearLat
  <2>2. msg \in {"START_LOAD", "START_MEASURE"}
    BY <1>6 DEF ClearLat, TypeOK, Messages, Control, Reporting
  <2>3. count' \in [Threads -> Nat] /\ size' \in [Threads -> 0 .. MAX_PER_THREAD_SAMPLES]
    <3>1. 0 \in Nat /\ 0 \in 0 .. MAX_PER_THREAD_SAMPLES
      BY <1>1
    <3>2. /\ count' = [count EXCEPT ![mi] = 0] /\ size' = [size EXCEPT ![mi] = 0]
          /\ count \in [Threads -> Nat] /\ size \in [Threads -> 0 .. MAX_PER_THREAD_SAMPLES]
      BY <1>6 DEF ClearLat, TypeOK
    <3> HIDE DEF next
    <3> QED
      BY <3>1, <3>2
  <2>4. mpc' \in ManagerSteps
    BY <2>1
  <2>5. TypeOK'
    BY <1>6, <2>1, <2>3, <2>4 DEF ClearLat, TypeOK
  <2> QED
    BY <1>6, <2>1, <2>2, <2>5 DEF ClearLat, Control, Reporting
<1>7. CASE LoadStart
  BY <1>1, <1>7 DEF LoadStart, TypeOK, Control, Reporting, Messages
<1>8. CASE SetSamples
  <2>1. pts' \in 0 .. MAX_PER_THREAD_SAMPLES
    <3>1. CASE PerThread(asked) \in 1 .. MAX_PER_THREAD_SAMPLES
      BY <1>1, <1>8, <3>1 DEF SetSamples
    <3>2. CASE PerThread(asked) \notin 1 .. MAX_PER_THREAD_SAMPLES
      BY <1>8, <3>2 DEF SetSamples, TypeOK
    <3> QED
      BY <3>1, <3>2
  <2> QED
    BY <1>1, <1>8, <2>1 DEF SetSamples, TypeOK, Control, Reporting, Messages
<1>9. CASE MeasureStart
  <2>1. msg = "START_MEASURE"
    BY <1>9 DEF MeasureStart, TypeOK, Messages, Control, Reporting
  <2>2. window' \in Windows
    BY <1>1, <1>9, <2>1 DEF MeasureStart, TypeOK, Control, Windows
  <2> QED
    BY <1>1, <1>9, <2>1, <2>2 DEF MeasureStart, TypeOK, Control, Reporting, Messages
<1> QED
  BY <1>2, <1>3, <1>4, <1>5, <1>6, <1>7, <1>8, <1>9

(* The handler of REPORT_REQ. *)
LEMMA ReportBase ==
  ASSUME Base,
         \/ MeasureStop \/ AggRx \/ AggCopy \/ AggSize
         \/ Reply \/ ReplyAssert \/ Resume
  PROVE  Base'
<1> USE DEF Base, shared, worker, history, Goto, ManagerSteps
<1>1. 1 \in Threads /\ MAX_PER_THREAD_SAMPLES \in Nat /\ MaxWindows \in Nat
  BY ThreadsAre1toN, AgentAssumption
<1> DEFINE Aggs == [rx : [Threads -> Nat], samples : Seq(Windows), base : Nat]
<1>2. agg \in Aggs /\ mi \in Threads /\ rx[mi] \in Nat
      /\ size[mi] \in 0 .. MAX_PER_THREAD_SAMPLES
  BY DEF TypeOK
<1>3. CASE MeasureStop
  <2>1. NoAgg \in Aggs
    BY DEF NoAgg
  <2>2. TypeOK'
    BY <1>1, <1>3, <2>1 DEF MeasureStop, TypeOK
  <2> QED
    BY <1>3, <2>2 DEF MeasureStop, Control, Reporting, TypeOK, Messages
<1>4. CASE AggRx
  <2>1. agg' \in Aggs
    BY <1>2, <1>4 DEF AggRx
  <2>2. mpc' \in {"agg_rx", "agg_copy", "reply"} /\ mi' \in Threads
    <3>1. CASE msg = "REPORT_LATENCY"
      BY <1>2, <1>4, <3>1 DEF AggRx
    <3>2. CASE msg # "REPORT_LATENCY"
      BY <1>4, <3>2, LoopType DEF AggRx
    <3> QED
      BY <3>1, <3>2
  <2>3. TypeOK'
    BY <1>4, <2>1, <2>2 DEF AggRx, TypeOK
  <2> QED
    BY <1>4, <2>2, <2>3 DEF AggRx, Control, Reporting, TypeOK, Messages
<1>5. CASE AggCopy
  <2> DEFINE copied == [i \in 1 .. size[mi] |-> samples[mi][i - 1]]
  <2>1. copied \in Seq(Windows)
    <3>1. \A i \in 1 .. size[mi] : i - 1 \in 0 .. (MAX_PER_THREAD_SAMPLES - 1)
      BY <1>1, <1>2
    <3>2. \A i \in 1 .. size[mi] : samples[mi][i - 1] \in Windows
      <4>1. samples[mi] \in [0 .. (MAX_PER_THREAD_SAMPLES - 1) -> Windows]
        BY <1>2 DEF TypeOK
      <4> QED
        BY <3>1, <4>1
    <3>3. size[mi] \in Nat
      BY <1>1, <1>2
    <3> QED
      BY <3>2, <3>3
  <2>2. agg' = [agg EXCEPT !.samples = agg.samples \o copied]
    BY <1>5 DEF AggCopy
  <2> HIDE DEF copied
  <2>3. agg' \in Aggs
    <3>1. agg.samples \o copied \in Seq(Windows)
      BY <1>2, <2>1
    <3> QED
      BY <1>2, <2>2, <3>1
  <2>4. TypeOK'
    BY <1>5, <2>3 DEF AggCopy, TypeOK
  <2> QED
    BY <1>5, <2>4 DEF AggCopy, Control, Reporting, TypeOK, Messages
<1>6. CASE AggSize
  <2> DEFINE end  == agg.base + size[mi]
             have == Len(agg.samples)
             cut  == [i \in 1 .. end |-> IF i <= have THEN agg.samples[i] ELSE 0]
  <2>1. end \in Nat
    BY <1>1, <1>2
  <2>2. cut \in Seq(Windows)
    <3>1. 0 \in Windows
      BY <1>1 DEF Windows
    <3>2. \A i \in 1 .. end : i <= have => agg.samples[i] \in Windows
      BY <1>2, <2>1
    <3> HIDE DEF end, have
    <3>3. \A i \in 1 .. end : (IF i <= have THEN agg.samples[i] ELSE 0) \in Windows
      BY <3>1, <3>2
    <3> QED
      BY <2>1, <3>3
  <2>3. agg' = [agg EXCEPT !.base = end, !.samples = cut]
    BY <1>6 DEF AggSize
  <2> HIDE DEF end, cut
  <2>4. agg' \in Aggs
    BY <1>2, <2>1, <2>2, <2>3
  <2>5. mpc' \in {"agg_rx", "reply"} /\ mi' \in Threads
    BY <1>6, LoopType DEF AggSize
  <2>6. TypeOK'
    BY <1>6, <2>4, <2>5 DEF AggSize, TypeOK
  <2> QED
    BY <1>6, <2>5, <2>6 DEF AggSize, Control, Reporting, TypeOK, Messages
<1>7. CASE Reply
  BY <1>1, <1>7 DEF Reply, TypeOK, Control, Reporting, Messages
<1>8. CASE Resume
  BY <1>1, <1>8 DEF Resume, TypeOK, Control, Reporting, Messages
<1>9. CASE ReplyAssert
  BY <1>1, <1>9 DEF ReplyAssert, NoSamples, TypeOK, Control, Reporting, Messages
<1> QED
  BY <1>3, <1>4, <1>5, <1>6, <1>7, <1>8, <1>9

(* The workers leave the control of the manager and the coordinator alone. *)
LEMMA WorkerControl ==
  ASSUME NEW w \in Threads, Worker(w)
  PROVE  UNCHANGED <<coord, msg, asked, load, measure, pts, manager, window, atStop>>
BY DEF Worker, Respond, LatTake, LatSkip, LatPts, LatCount, LatInc, LatSample, LatSize,
       RxTake, RxSkip, RxLoad, RxStore, shared, history

LEMMA WorkerBase ==
  ASSUME Base, NEW w \in Threads, Worker(w)
  PROVE  Base'
<1> USE DEF Base, shared, manager, history, Step, WorkerSteps
<1>1. TypeOK /\ MAX_PER_THREAD_SAMPLES \in Nat
  BY AgentAssumption
<1> USE AccountingOrder
<1>2. /\ reg[w].pts \in 0 .. MAX_PER_THREAD_SAMPLES /\ reg[w].count \in Nat
      /\ reg[w].win \in Windows /\ reg[w].rx \in Nat /\ rx[w] \in Nat /\ count[w] \in Nat
      /\ resp[w] \in Nat /\ begun[w] \in Nat /\ finished[w] \in Nat
  BY <1>1 DEF TypeOK
<1> DEFINE Regs == [rx : Nat, pts : 0 .. MAX_PER_THREAD_SAMPLES, count : Nat, win : Windows]
<1>15. reg[w] \in Regs /\ reg \in [Threads -> Regs] /\ window \in Windows
       /\ pts \in 0 .. MAX_PER_THREAD_SAMPLES
  BY <1>1 DEF TypeOK
<1>16. /\ resp \in [Threads -> Nat] /\ count \in [Threads -> Nat] /\ rx \in [Threads -> Nat]
       /\ begun \in [Threads -> Nat] /\ finished \in [Threads -> Nat]
  BY <1>1 DEF TypeOK
<1>3. CASE Respond(w)
  <2>1. resp' \in [Threads -> Nat]
    <3>1. /\ resp' = [resp EXCEPT ![w] = resp[w] + 1]
      BY <1>3 DEF Respond
    <3>2. /\ resp \in [Threads -> Nat] /\ resp[w] + 1 \in Nat
      BY <1>2, <1>16
    <3> QED
      BY <3>1, <3>2
  <2>2. TypeOK'
    BY <1>1, <1>3, <2>1 DEF Respond, TypeOK
  <2> QED
    BY <1>3, <2>2 DEF Respond, Control, Reporting
<1>4. CASE LatTake(w)
  <2>1. reg' = [reg EXCEPT ![w] = [reg[w] EXCEPT !.win = window]]
    BY <1>1, <1>15, <1>4 DEF LatTake
  <2>2. [reg[w] EXCEPT !.win = window] \in Regs
    BY <1>2, <1>15
  <2>3. reg' \in [Threads -> Regs]
    BY <1>15, <2>1, <2>2
  <2>4. TypeOK'
    BY <1>1, <1>4, <2>3 DEF LatTake, TypeOK
  <2> QED
    BY <1>4, <2>4 DEF LatTake, Control, Reporting
<1>5. CASE LatSkip(w)
  BY <1>1, <1>5 DEF LatSkip, TypeOK, Control, Reporting
<1>6. CASE LatPts(w)
  <2>1. reg' = [reg EXCEPT ![w] = [reg[w] EXCEPT !.pts = pts]]
    BY <1>1, <1>15, <1>6 DEF LatPts
  <2>2. [reg[w] EXCEPT !.pts = pts] \in Regs
    BY <1>2, <1>15
  <2>3. reg' \in [Threads -> Regs]
    BY <1>15, <2>1, <2>2
  <2>4. TypeOK'
    BY <1>1, <1>6, <2>3 DEF LatPts, TypeOK
  <2> QED
    BY <1>6, <2>4 DEF LatPts, Control, Reporting
<1>7. CASE LatCount(w)
  <2>1. reg' = [reg EXCEPT ![w] = [reg[w] EXCEPT !.count = count[w]]]
    BY <1>1, <1>15, <1>7 DEF LatCount
  <2>2. [reg[w] EXCEPT !.count = count[w]] \in Regs
    BY <1>2, <1>15
  <2>3. reg' \in [Threads -> Regs]
    BY <1>15, <2>1, <2>2
  <2>4. TypeOK'
    BY <1>1, <1>7, <2>3 DEF LatCount, TypeOK
  <2> QED
    BY <1>7, <2>4 DEF LatCount, Control, Reporting
<1>8. CASE LatInc(w)
  <2>1. count' \in [Threads -> Nat]
    <3>1. /\ count' = [count EXCEPT ![w] = reg[w].count + 1]
      BY <1>8 DEF LatInc
    <3>2. /\ count \in [Threads -> Nat] /\ reg[w].count + 1 \in Nat
      BY <1>2, <1>16
    <3> QED
      BY <3>1, <3>2
  <2>2. TypeOK'
    BY <1>1, <1>8, <2>1 DEF LatInc, TypeOK
  <2> QED
    BY <1>8, <2>2 DEF LatInc, Control, Reporting
<1>9. CASE LatSample(w)
  <2> DEFINE Slots == 0 .. (MAX_PER_THREAD_SAMPLES - 1)
             slot  == reg[w].count % reg[w].pts
  <2>1. samples[w] \in [Slots -> Windows] /\ samples \in [Threads -> [Slots -> Windows]]
    BY <1>1 DEF TypeOK
  <2>2. samples' = [samples EXCEPT ![w] = [samples[w] EXCEPT ![slot] = reg[w].win]]
    BY <1>9 DEF LatSample
  <2> HIDE DEF slot
  <2>3. [samples[w] EXCEPT ![slot] = reg[w].win] \in [Slots -> Windows]
    BY <1>2, <2>1
  <2>4. samples' \in [Threads -> [Slots -> Windows]]
    BY <2>1, <2>2, <2>3
  <2>5. TypeOK'
    BY <1>1, <1>9, <2>4 DEF LatSample, TypeOK
  <2> QED
    BY <1>9, <2>5 DEF LatSample, Control, Reporting
<1>10. CASE LatSize(w)
  <2>1. SizeAfter(w) \in 0 .. MAX_PER_THREAD_SAMPLES
    BY <1>1, <1>2 DEF SizeAfter
  <2> QED
    BY <1>1, <1>10, <2>1 DEF LatSize, TypeOK, Control, Reporting
<1>11. CASE RxTake(w)
  <2>1. begun' \in [Threads -> Nat]
    <3>1. /\ begun' = [begun EXCEPT ![w] = begun[w] + 1]
      BY <1>11 DEF RxTake
    <3>2. /\ begun \in [Threads -> Nat] /\ begun[w] + 1 \in Nat
      BY <1>2, <1>16
    <3> QED
      BY <3>1, <3>2
  <2>2. TypeOK'
    BY <1>1, <1>11, <2>1 DEF RxTake, TypeOK
  <2> QED
    BY <1>11, <2>2 DEF RxTake, Control, Reporting
<1>12. CASE RxSkip(w)
  BY <1>1, <1>12 DEF RxSkip, TypeOK, Control, Reporting
<1>13. CASE RxLoad(w)
  <2>1. reg' = [reg EXCEPT ![w] = [reg[w] EXCEPT !.rx = rx[w]]]
    BY <1>1, <1>15, <1>13 DEF RxLoad
  <2>2. [reg[w] EXCEPT !.rx = rx[w]] \in Regs
    BY <1>2, <1>15
  <2>3. reg' \in [Threads -> Regs]
    BY <1>15, <2>1, <2>2
  <2>4. TypeOK'
    BY <1>1, <1>13, <2>3 DEF RxLoad, TypeOK
  <2> QED
    BY <1>13, <2>4 DEF RxLoad, Control, Reporting
<1>14. CASE RxStore(w)
  <2>1. rx' \in [Threads -> Nat] /\ finished' \in [Threads -> Nat]
    <3>1. /\ rx' = [rx EXCEPT ![w] = reg[w].rx + 1]
          /\ finished' = [finished EXCEPT ![w] = finished[w] + 1]
      BY <1>14 DEF RxStore
    <3>2. /\ rx \in [Threads -> Nat] /\ reg[w].rx + 1 \in Nat
          /\ finished \in [Threads -> Nat] /\ finished[w] + 1 \in Nat
      BY <1>2, <1>16
    <3> QED
      BY <3>1, <3>2
  <2>2. TypeOK'
    BY <1>1, <1>14, <2>1 DEF RxStore, TypeOK
  <2> QED
    BY <1>14, <2>2 DEF RxStore, Control, Reporting
<1> QED
  BY <1>3, <1>4, <1>5, <1>6, <1>7, <1>8, <1>9, <1>10, <1>11, <1>12, <1>13, <1>14 DEF Worker

LEMMA NextBase ==
  ASSUME Base, [Next]_vars
  PROVE  Base'
<1>1. CASE UNCHANGED vars
  BY <1>1 DEF Base, TypeOK, Control, Reporting, vars, shared, manager, worker, history
<1> QED
  BY <1>1, CoordBase, HandlerBase, ReportBase, WorkerBase DEF Next, Manager, Over

(* The statistics keep their types whatever the interleaving; in particular *)
(* a worker's size never exceeds its array of samples.                     *)
THEOREM TypeCorrect == Spec => [](TypeOK /\ Control)
<1>1. Init => Base
  BY InitBase
<1>2. Base /\ [Next]_vars => Base'
  BY NextBase
<1> QED
  BY <1>1, <1>2, PTL DEF Spec, Base

-----------------------------------------------------------------------------
(* The steps of the coordinator and the manager: none of them touches the   *)
(* workers, and only SetSamples writes per_thread_samples.                 *)
LEMMA ManagerLeavesWorkers ==
  ASSUME SendLoad \/ SendMeasure \/ SendReport \/ Manager
  PROVE  UNCHANGED worker /\ (UNCHANGED pts \/ SetSamples)
BY DEF SendLoad, SendMeasure, SendReport, Manager, Receive, Disconnect, LoadStop, ClearRx,
       ClearLat, LoadStart, MeasureStart, MeasureStop, AggRx, AggCopy, AggSize, Reply,
       ReplyAssert, Resume, SetSamples, shared, worker

LEMMA NextDivisor ==
  ASSUME Base, DivisorInv, [Next]_vars
  PROVE  DivisorInv'
<1> DEFINE On == \/ measure \/ mpc \in {"measure", "resume"} \/ Reporting
                 \/ (coord = "report" /\ msg = "none")
           Div(w) == /\ wpc[w] = "lat_pts" => pts > 0
                     /\ wpc[w] \in {"lat_count", "lat_inc", "lat_sample"} => reg[w].pts > 0
<1> USE DEF Base
<1>1. /\ TypeOK /\ Control /\ (On => pts > 0)
      /\ \A w \in Threads : Div(w)
  BY DEF DivisorInv
<1>2. SUFFICES (On' => pts' > 0) /\ \A w \in Threads : Div(w)'
  BY DEF DivisorInv
<1>3. CASE UNCHANGED vars
  BY <1>1, <1>3 DEF vars, shared, manager, worker, history, Reporting
<1>4. CASE SetSamples
  <2>1. pts' > 0 \/ (pts' = pts /\ mpc' = "assert")
    BY <1>4, AgentAssumption DEF SetSamples, Goto
  <2>2. UNCHANGED <<measure, coord, msg, wpc, reg>>
    BY <1>4 DEF SetSamples, worker
  <2>3. CASE pts' > 0
    BY <1>1, <2>2, <2>3
  <2>4. CASE pts' = pts /\ mpc' = "assert"
    BY <1>1, <2>2, <2>4 DEF Reporting
  <2> QED
    BY <2>1, <2>3, <2>4
<1>5. CASE SendLoad \/ SendMeasure \/ SendReport \/ (Manager /\ ~SetSamples)
  <2>1. UNCHANGED <<wpc, reg, pts>>
    <3>1. CASE SendLoad \/ SendMeasure \/ SendReport
      BY <3>1 DEF SendLoad, SendMeasure, SendReport, shared, worker
    <3>2. CASE Manager /\ ~SetSamples
      BY <3>2, ManagerLeavesWorkers DEF worker
    <3> QED
      BY <1>5, <3>1, <3>2
  <2>2. On' => On
    <3>1. CASE SendLoad \/ SendMeasure \/ SendReport
      BY <3>1 DEF SendLoad, SendMeasure, SendReport, Reporting, shared, manager
    <3>2. CASE Receive \/ Disconnect \/ LoadStop \/ ClearRx
      BY <1>1, <3>2
      DEF Receive, Disconnect, LoadStop, ClearRx, Reporting, Goto, shared
    <3>3. CASE ClearLat
      BY <1>1, <3>3 DEF ClearLat, Loop, Goto, Reporting
    <3>4. CASE LoadStart
      BY <1>1, <3>4 DEF LoadStart, Control, Reporting, Goto, TypeOK, Messages
    <3>5. CASE MeasureStart \/ MeasureStop \/ Reply \/ ReplyAssert \/ Resume
      BY <1>1, <3>5 DEF MeasureStart, MeasureStop, Reply, ReplyAssert, Resume, Control, Reporting, Goto,
                        TypeOK, Messages, shared
    <3>6. CASE AggRx \/ AggCopy \/ AggSize
      BY <1>1, <3>6 DEF AggRx, AggCopy, AggSize, Loop, Goto, Reporting, shared
    <3> QED
      BY <1>5, <3>1, <3>2, <3>3, <3>4, <3>5, <3>6 DEF Manager
  <2> QED
    BY <1>1, <2>1, <2>2
<1>6. ASSUME NEW v \in Threads, Worker(v)
      PROVE  (On' => pts' > 0) /\ \A w \in Threads : Div(w)'
  <2>1. /\ UNCHANGED <<coord, msg, measure, pts, mpc>>
    BY <1>6, WorkerControl DEF manager
  <2>2. On' => pts' > 0
    BY <1>1, <2>1 DEF Reporting
  <2>3. ASSUME NEW w \in Threads PROVE Div(w)'
    <3>1. /\ wpc \in [Threads -> WorkerSteps] /\ reg[v] = reg[v]
          /\ reg \in [Threads -> [rx : Nat, pts : 0 .. MAX_PER_THREAD_SAMPLES,
                                  count : Nat, win : Windows]]
      BY DEF TypeOK
    <3>2. CASE w # v
      <4>1. wpc'[w] = wpc[w] /\ reg'[w] = reg[w]
        BY <1>6, <3>1, <3>2
        DEF Worker, Respond, LatTake, LatSkip, LatPts, LatCount, LatInc, LatSample, LatSize,
            RxTake, RxSkip, RxLoad, RxStore, Step
      <4> QED
        BY <1>1, <2>1, <4>1
    <3>3. CASE w = v
      <4>1. CASE LatTake(v)
        BY <1>1, <2>1, <3>1, <3>3, <4>1 DEF LatTake, Step
      <4>2. CASE LatPts(v)
        BY <1>1, <2>1, <3>1, <3>3, <4>2 DEF LatPts, Step
      <4>3. CASE LatCount(v)
        BY <1>1, <2>1, <3>1, <3>3, <4>3 DEF LatCount, Step
      <4>4. CASE LatInc(v) \/ LatSample(v)
        BY <1>1, <2>1, <3>1, <3>3, <4>4 DEF LatInc, LatSample, Step
      <4>5. CASE \/ Respond(v) \/ LatSkip(v) \/ LatSize(v) \/ RxTake(v) \/ RxSkip(v)
                 \/ RxLoad(v) \/ RxStore(v)
        BY <3>1, <3>3, <4>5, AccountingOrder
        DEF Respond, LatSkip, LatSize, RxTake, RxSkip, RxLoad, RxStore, Step
      <4> QED
        BY <1>6, <4>1, <4>2, <4>3, <4>4, <4>5 DEF Worker
    <3> QED
      BY <3>2, <3>3
  <2> QED
    BY <2>2, <2>3
<1> QED
  BY <1>3, <1>4, <1>5, <1>6 DEF Next, Over, Manager

(* However START_LOAD, START_MEASURE and REPORT_REQ follow one another in   *)
(* the coordinator's patterns, no worker reduces modulo a per_thread_samples *)
(* that is still zero.                                                     *)
THEOREM DivisorAlwaysSet == Spec => [](DivisorSet /\ DivisorInv)
<1>1. Init => DivisorInv
  BY DEF Init, DivisorInv, Reporting
<1>2. Base /\ DivisorInv /\ [Next]_vars => DivisorInv'
  BY NextDivisor
<1>3. DivisorInv => DivisorSet
  BY DEF DivisorInv, DivisorSet
<1> QED
  BY <1>1, <1>2, <1>3, TypeCorrect, PTL DEF Spec, Base

-----------------------------------------------------------------------------
(* The invariant behind CleanWindow, one action at a time. *)
StepBase == Base /\ WindowInv

LEMMA InitWindow == Init => WindowInv
<1> SUFFICES ASSUME Init PROVE WindowInv
  OBVIOUS
<1>1. \A w \in Threads : Account(w)
  BY DEF Init, Account, InRx
<1> QED
  BY <1>1 DEF Init, WindowInv, StepControl, Reporting

LEMMA CoordWindow ==
  ASSUME StepBase, Pattern = "step", SendLoad \/ SendMeasure \/ SendReport
  PROVE  WindowInv'
<1> USE DEF StepBase, Base, shared, manager, worker, history
<1>1. UNCHANGED <<shared, manager, worker, history>>
  BY DEF SendLoad, SendMeasure, SendReport
<1>2. /\ \A w \in Threads : Account(w)' <=> Account(w)
      /\ \A w \in Threads : (InRx(w)' <=> InRx(w)) /\ (Aggregated(w)' <=> Aggregated(w))
  BY <1>1 DEF Account, InRx, Aggregated
<1>3. CASE SendLoad
  BY <1>1, <1>3 DEF SendLoad, WindowInv, StepControl, Reporting, Control
<1>4. CASE SendMeasure
  <2>1. coord = "quiet" /\ msg = "none" /\ mpc = "recv" /\ ~measure
    BY <1>4 DEF SendMeasure, WindowInv, StepControl, Control
  <2>2. \A w \in Threads : ~InRx(w)'
    BY <1>2, <1>4, <2>1 DEF SendMeasure, Quiet, InRx
  <2>3. \A w \in Threads : ~RxCleared(w)'
    BY <1>1, <2>1 DEF RxCleared
  <2> QED
    BY <1>1, <1>4, <2>1, <2>2, <2>3 DEF SendMeasure, WindowInv, StepControl, Reporting
<1>5. CASE SendReport
  BY <1>1, <1>2, <1>5 DEF SendReport, WindowInv, StepControl, Reporting, Control
<1> QED
  BY <1>3, <1>4, <1>5

(* The handlers of START_LOAD and START_MEASURE. *)
LEMMA HandlerWindow ==
  ASSUME StepBase, Pattern = "step",
         \/ Receive \/ Disconnect \/ LoadStop \/ ClearRx \/ ClearLat \/ LoadStart
         \/ SetSamples \/ MeasureStart
  PROVE  WindowInv'
<1> USE DEF StepBase, Base, shared, worker, history, Goto, StepControl
<1>1. /\ TypeOK /\ Control /\ WindowInv
      /\ N \in Nat \ {0} /\ Threads = 1 .. N /\ mi \in Threads
  BY ThreadsAre1toN DEF TypeOK
<1>2. CASE Receive
  <2>1. UNCHANGED <<coord, msg, shared, agg, worker, history>>
    BY <1>2 DEF Receive
  <2>2. \A w \in Threads : (Account(w)' <=> Account(w)) /\ (InRx(w)' <=> InRx(w))
    BY <2>1 DEF Account, InRx
  <2>3. CASE msg = "START_LOAD" /\ mpc' = "load_stop"
    BY <1>1, <2>1, <2>3 DEF WindowInv, Reporting
  <2>4. CASE msg = "START_MEASURE" /\ mpc' = "clear_rx" /\ mi' = 1
    <3>1. \A w \in Threads : ~RxCleared(w)'
      BY <1>1, <2>4 DEF RxCleared
    <3> QED
      BY <1>1, <2>1, <2>2, <2>4, <3>1 DEF WindowInv, Reporting
  <2>5. CASE Reporting /\ mpc' = "stop"
    BY <1>1, <2>1, <2>2, <2>5 DEF WindowInv, Reporting
  <2> QED
    BY <1>2, <2>3, <2>4, <2>5 DEF Receive, Reporting
<1>3. CASE Disconnect
  <2>1. \A w \in Threads : Account(w)' <=> Account(w)
    BY <1>3 DEF Disconnect, Account, InRx
  <2> QED
    BY <1>1, <1>3, <2>1 DEF Disconnect, WindowInv, Reporting
<1>4. CASE LoadStop
  BY <1>1, <1>4 DEF LoadStop, WindowInv, Reporting, Control, TypeOK, Messages
<1>5. CASE ClearRx
  <2>1. /\ UNCHANGED <<coord, msg, measure, wpc>> /\ rx' = [rx EXCEPT ![mi] = 0]
        /\ begun' = [begun EXCEPT ![mi] = IF InRx(mi) THEN 1 ELSE 0]
        /\ mpc = "clear_rx" /\ mpc' = "clear_lat" /\ mi' = mi
        /\ rx \in [Threads -> Nat] /\ begun \in [Threads -> Nat]
    BY <1>1, <1>5 DEF ClearRx, TypeOK
  <2>2. ~Reporting /\ msg # "none"
    BY <1>1, <2>1 DEF Control, Reporting
  <2>3. \A w \in Threads : InRx(w)' <=> InRx(w)
    BY <2>1 DEF InRx
  <2>4. msg = "START_MEASURE" =>
          \A w \in Threads : RxCleared(w)' => rx'[w] = 0 /\ begun'[w] = 0
    <3> SUFFICES ASSUME msg = "START_MEASURE", NEW w \in Threads, w <= mi
                 PROVE  rx'[w] = 0 /\ begun'[w] = 0
      BY <2>1 DEF RxCleared
    <3>1. CASE w = mi
      <4>1. ~InRx(mi)
        BY <1>1 DEF WindowInv
      <4> QED
        BY <1>1, <2>1, <3>1, <4>1
    <3>2. CASE w < mi
      BY <1>1, <2>1, <3>2 DEF WindowInv, RxCleared
    <3> QED
      BY <1>1, <3>1, <3>2
  <2> QED
    BY <1>1, <2>1, <2>2, <2>3, <2>4 DEF WindowInv, Reporting
<1>6. CASE ClearLat
  <2>1. /\ UNCHANGED <<coord, msg, measure, wpc, rx, begun>> /\ mpc = "clear_lat"
        /\ Loop("clear_rx", IF msg = "START_LOAD" THEN "load_start" ELSE "set")
    BY <1>6 DEF ClearLat
  <2>2. ~Reporting /\ msg \in {"START_LOAD", "START_MEASURE"}
    BY <1>1, <2>1 DEF Control, Reporting, TypeOK, Messages
  <2>3. \A w \in Threads : InRx(w)' <=> InRx(w)
    BY <2>1 DEF InRx
  <2>4. msg = "START_MEASURE" => \A w \in Threads : RxCleared(w)' => RxCleared(w)
    BY <1>1, <2>1 DEF RxCleared, Loop
  <2>5. mpc' \in {"clear_rx", "load_start", "set"}
    BY <2>1 DEF Loop
  <2> QED
    BY <1>1, <2>1, <2>2, <2>3, <2>4, <2>5 DEF WindowInv, Reporting
<1>7. CASE LoadStart
  <2>1. msg = "START_LOAD"
    BY <1>1, <1>7 DEF LoadStart, Control, Reporting, TypeOK, Messages
  <2> QED
    BY <1>1, <1>7, <2>1 DEF LoadStart, WindowInv, Reporting, Control
<1>8. CASE SetSamples
  <2>1. /\ UNCHANGED <<coord, msg, measure, wpc, rx, begun>> /\ mpc = "set"
        /\ mpc' \in {"measure", "assert"}
    BY <1>8 DEF SetSamples
  <2>2. msg = "START_MEASURE"
    BY <1>1, <2>1 DEF Control, Reporting, TypeOK, Messages
  <2>3. \A w \in Threads : (InRx(w)' <=> InRx(w)) /\ RxCleared(w)
    BY <2>1 DEF InRx, RxCleared
  <2> QED
    BY <1>1, <2>1, <2>2, <2>3 DEF WindowInv, Reporting
<1>9. CASE MeasureStart
  <2>1. msg = "START_MEASURE" /\ coord = "report" /\ mpc = "measure"
    BY <1>1, <1>9 DEF MeasureStart, Control, Reporting, TypeOK, Messages
  <2>2. \A w \in Threads : rx[w] = 0 /\ begun[w] = 0 /\ ~InRx(w)
    BY <1>1, <2>1 DEF WindowInv, RxCleared
  <2>3. \A w \in Threads : Account(w)'
    BY <1>9, <2>2 DEF MeasureStart, Account, InRx
  <2> QED
    BY <1>1, <1>9, <2>1, <2>3 DEF MeasureStart, WindowInv, Reporting
<1> QED
  BY <1>2, <1>3, <1>4, <1>5, <1>6, <1>7, <1>8, <1>9

(* The handler of REPORT_REQ. *)
LEMMA ReportWindow ==
  ASSUME StepBase, Pattern = "step",
         \/ MeasureStop \/ AggRx \/ AggCopy \/ AggSize
         \/ Reply \/ ReplyAssert \/ Resume
  PROVE  WindowInv'
<1> USE DEF StepBase, Base, shared, worker, history, Goto, StepControl
<1>1. /\ TypeOK /\ Control /\ WindowInv
      /\ N \in Nat \ {0} /\ Threads = 1 .. N /\ mi \in Threads
  BY ThreadsAre1toN DEF TypeOK
<1> DEFINE InReport == mpc \in {"stop", "agg_rx", "agg_copy", "agg_size", "reply"}
           Sandwich(w) == atStop[w] <= agg.rx[w] /\ agg.rx[w] <= begun[w]
<1>2. InReport => Reporting /\ coord = "load" /\ \A w \in Threads : Account(w)
  BY <1>1 DEF WindowInv, Control, Reporting, TypeOK, Messages
<1>3. \A w \in Threads : UNCHANGED <<rx, wpc, reg, begun, finished>> =>
        (Account(w)' <=> Account(w)) /\ (InRx(w)' <=> InRx(w))
  BY DEF Account, InRx
<1>4. CASE MeasureStop
  <2>1. /\ UNCHANGED <<coord, msg, rx, wpc, reg, begun, finished>>
        /\ atStop' = finished /\ mpc' = "agg_rx" /\ mi' = 1 /\ mpc = "stop"
    BY <1>4 DEF MeasureStop
  <2>2. \A w \in Threads : ~Aggregated(w)' /\ atStop'[w] <= finished'[w]
    BY <1>1, <2>1 DEF Aggregated, TypeOK
  <2> QED
    BY <1>1, <1>2, <1>3, <2>1, <2>2 DEF WindowInv, Reporting
<1>5. CASE AggRx
  <2>1. /\ UNCHANGED <<coord, msg, rx, wpc, reg, begun, finished, atStop>> /\ mpc = "agg_rx"
        /\ agg' = [agg EXCEPT !.rx[mi] = rx[mi]]
    BY <1>5 DEF AggRx
  <2>2. mpc' \in {"agg_rx", "agg_copy", "reply"}
    BY <1>5 DEF AggRx, Loop
  <2>3. \A w \in Threads : atStop[w] <= finished[w] /\ (w < mi => Sandwich(w))
    BY <1>1, <2>1 DEF WindowInv, Aggregated
  <2>4. \A w \in Threads : Aggregated(w)' => w <= mi
    BY <1>1, <1>5, <2>1 DEF AggRx, Aggregated, Loop
  <2>5. agg'.rx = [agg.rx EXCEPT ![mi] = rx[mi]] /\ agg.rx \in [Threads -> Nat]
    BY <1>1, <2>1 DEF TypeOK
  <2>6. rx[mi] = finished[mi] /\ finished[mi] <= begun[mi]
    <3>1. finished[mi] \in Nat /\ Account(mi)
      BY <1>1, <1>2, <2>1 DEF TypeOK
    <3>2. rx[mi] = finished[mi] /\ begun[mi] \in {finished[mi], finished[mi] + 1}
      BY <3>1 DEF Account
    <3> QED
      BY <3>1, <3>2
  <2>7. \A w \in Threads : w <= mi => atStop[w] <= agg'.rx[w] /\ agg'.rx[w] <= begun[w]
    <3> SUFFICES ASSUME NEW w \in Threads, w <= mi
                 PROVE  atStop[w] <= agg'.rx[w] /\ agg'.rx[w] <= begun[w]
      OBVIOUS
    <3>1. CASE w = mi
      BY <2>3, <2>5, <2>6, <3>1
    <3>2. CASE w # mi
      BY <1>1, <2>3, <2>5, <3>2
    <3> QED
      BY <3>1, <3>2
  <2> QED
    BY <1>1, <1>2, <1>3, <2>1, <2>2, <2>3, <2>4, <2>7 DEF WindowInv, Reporting
<1>6. CASE AggCopy \/ AggSize
  <2>1. /\ UNCHANGED <<coord, msg, rx, wpc, reg, begun, finished, atStop>>
        /\ mpc \in {"agg_copy", "agg_size"} /\ mpc' \in {"agg_rx", "agg_size", "reply"}
    BY <1>6 DEF AggCopy, AggSize, Loop
  <2>2. agg'.rx = agg.rx
    BY <1>1, <1>6 DEF AggCopy, AggSize, TypeOK
  <2>3. \A w \in Threads : Aggregated(w)' => Aggregated(w)
    BY <1>1, <1>6 DEF AggCopy, AggSize, Aggregated, Loop
  <2> QED
    BY <1>1, <1>2, <1>3, <2>1, <2>2, <2>3 DEF WindowInv, Reporting
<1>7. CASE Reply
  <2>1. /\ UNCHANGED <<coord, rx, wpc, reg, begun, finished>> /\ mpc = "reply"
        /\ mpc' = "resume" /\ msg' = "none"
    BY <1>7 DEF Reply
  <2> QED
    BY <1>1, <1>2, <1>3, <2>1 DEF WindowInv, Reporting
<1>9. CASE ReplyAssert
  <2>1. /\ UNCHANGED <<coord, msg, rx, wpc, reg, begun, finished>> /\ mpc = "reply"
        /\ mpc' = "assert"
    BY <1>9 DEF ReplyAssert
  <2> QED
    BY <1>1, <1>2, <1>3, <2>1 DEF WindowInv, Reporting
<1>8. CASE Resume
  <2>1. /\ UNCHANGED <<coord, msg, rx, wpc, reg, begun, finished>> /\ mpc = "resume"
        /\ mpc' = "recv"
    BY <1>8 DEF Resume
  <2>2. coord \in {"load", "quiet"} /\ (coord = "quiet" => msg # "none")
    BY <1>1, <2>1 DEF WindowInv, Control
  <2>3. msg # "START_MEASURE"
    BY <1>1, <2>2 DEF Control
  <2> QED
    BY <1>1, <1>3, <2>1, <2>2, <2>3 DEF WindowInv, Reporting
<1> QED
  BY <1>4, <1>5, <1>6, <1>7, <1>8, <1>9

(* A worker's step keeps its account, whatever the manager is doing. *)
LEMMA WorkerWindow ==
  ASSUME StepBase, Pattern = "step", NEW v \in Threads, Worker(v)
  PROVE  WindowInv'
<1> USE DEF StepBase, Base, Step
<1>1. TypeOK /\ Control /\ WindowInv /\ wpc \in [Threads -> WorkerSteps]
  BY DEF TypeOK
<1>7. /\ rx \in [Threads -> Nat] /\ begun \in [Threads -> Nat]
      /\ finished \in [Threads -> Nat] /\ atStop \in [Threads -> Nat]
  BY DEF TypeOK
<1>8. \A n \in Nat : n + 1 \in Nat /\ n <= n + 1 /\ n <= n /\ n + 0 = n
  OBVIOUS
<1>2. UNCHANGED <<coord, msg, measure, mpc, mi, agg, atStop>>
  BY WorkerControl DEF manager
<1>3. CASE RxTake(v)
  <2>1. measure /\ msg # "START_MEASURE" /\ UNCHANGED <<rx, reg, finished>>
    BY <1>1, <1>3 DEF RxTake, WindowInv, shared
  <2>6. /\ wpc[v] = "rx_check" /\ wpc' = [wpc EXCEPT ![v] = "rx_load"]
        /\ begun' = [begun EXCEPT ![v] = begun[v] + 1]
    BY <1>3 DEF RxTake
  <2>2. ASSUME NEW w \in Threads, Account(w) PROVE Account(w)'
    <3>1. CASE w = v
      <4>1. begun[v] = finished[v]
        BY <1>7, <1>8, <2>2, <2>6, <3>1 DEF Account, InRx
      <4> QED
        BY <1>1, <1>7, <2>1, <2>2, <2>6, <3>1, <4>1 DEF Account, InRx
    <3>2. CASE w # v
      <4>1. wpc'[w] = wpc[w] /\ begun'[w] = begun[w]
        BY <1>1, <1>7, <2>6, <3>2
      <4> QED
        BY <2>1, <2>2, <4>1 DEF Account, InRx
    <3> QED
      BY <3>1, <3>2
  <2>3. \A w \in Threads : begun[w] <= begun'[w] /\ begun[w] \in Nat /\ begun'[w] \in Nat
    BY <1>7, <1>8, <2>6
  <2>4. \A w \in Threads : agg.rx[w] \in Nat /\ (Aggregated(w)' <=> Aggregated(w))
    BY <1>1, <1>2 DEF TypeOK, Aggregated
  <2>5. \A w \in Threads : agg.rx[w] <= begun[w] => agg.rx[w] <= begun'[w]
    BY <2>3, <2>4
  <2> QED
    BY <1>1, <1>2, <2>1, <2>2, <2>4, <2>5 DEF WindowInv, Reporting, StepControl
<1>4. CASE RxLoad(v)
  <2>1. UNCHANGED <<rx, begun, finished>> /\ InRx(v)
    BY <1>4 DEF RxLoad, shared, history, InRx
  <2>2. \A w \in Threads : Account(w) => Account(w)'
    BY <1>1, <1>4, <2>1 DEF RxLoad, Account, InRx, TypeOK
  <2>3. \A w \in Threads : Aggregated(w)' <=> Aggregated(w)
    BY <1>2 DEF Aggregated
  <2>4. msg # "START_MEASURE"
    BY <1>1, <2>1 DEF WindowInv
  <2> QED
    BY <1>1, <1>2, <2>1, <2>2, <2>3, <2>4 DEF WindowInv, Reporting, StepControl
<1>5. CASE RxStore(v)
  <2>1. UNCHANGED <<reg, begun>> /\ InRx(v)
    BY <1>5 DEF RxStore, InRx
  <2>7. /\ wpc[v] = "rx_store" /\ wpc' = [wpc EXCEPT ![v] = AfterRx]
        /\ rx' = [rx EXCEPT ![v] = reg[v].rx + 1]
        /\ finished' = [finished EXCEPT ![v] = finished[v] + 1]
    BY <1>5 DEF RxStore
  <2>2. ASSUME NEW w \in Threads, Account(w) PROVE Account(w)'
    <3>1. CASE w = v
      <4>1. /\ begun[v] = finished[v] + 1 /\ reg[v].rx = finished[v]
        BY <2>2, <2>7, <3>1 DEF Account, InRx
      <4>2. /\ wpc'[v] \in {"lat_check", "idle"} /\ rx'[v] = finished[v] + 1
            /\ finished'[v] = finished[v] + 1
        BY <1>1, <1>7, <2>7, <4>1, AccountingOrder
      <4>3. begun'[v] = finished'[v] + 0
        BY <1>7, <1>8, <2>1, <4>1, <4>2
      <4> QED
        BY <3>1, <4>2, <4>3 DEF Account, InRx
    <3>2. CASE w # v
      <4>1. wpc'[w] = wpc[w] /\ rx'[w] = rx[w] /\ finished'[w] = finished[w]
        BY <1>1, <1>7, <2>7, <3>2
      <4> QED
        BY <2>1, <2>2, <4>1 DEF Account, InRx
    <3> QED
      BY <3>1, <3>2
  <2>3. \A w \in Threads : Aggregated(w)' <=> Aggregated(w)
    BY <1>2 DEF Aggregated
  <2>4. \A w \in Threads : finished[w] <= finished'[w] /\ finished[w] \in Nat
                           /\ finished'[w] \in Nat /\ atStop[w] \in Nat
    BY <1>7, <1>8, <2>7
  <2>5. \A w \in Threads : atStop[w] <= finished[w] => atStop[w] <= finished'[w]
    BY <2>4
  <2>6. msg # "START_MEASURE"
    BY <1>1, <2>1 DEF WindowInv
  <2> QED
    BY <1>1, <1>2, <2>1, <2>2, <2>3, <2>5, <2>6 DEF WindowInv, Reporting, StepControl
<1>6. CASE ~(RxTake(v) \/ RxLoad(v) \/ RxStore(v))
  <2>1. UNCHANGED <<rx, begun, finished>>
    BY <1>6 DEF Worker, Respond, LatTake, LatSkip, LatPts, LatCount, LatInc, LatSample,
                LatSize, RxSkip, shared, history
  <2>2. /\ wpc[v] \notin {"rx_load", "rx_store"} /\ wpc'[v] \notin {"rx_load", "rx_store"}
        /\ \A w \in Threads \ {v} : wpc'[w] = wpc[w] /\ reg'[w] = reg[w]
    <3>1. reg \in [Threads -> [rx : Nat, pts : 0 .. MAX_PER_THREAD_SAMPLES,
                               count : Nat, win : Windows]]
      BY <1>1 DEF TypeOK
    <3> QED
      BY <1>1, <1>6, <3>1, AccountingOrder
      DEF Worker, Respond, LatTake, LatSkip, LatPts, LatCount, LatInc, LatSample, LatSize,
          RxSkip
  <2>3. \A w \in Threads : (Account(w) <=> Account(w)') /\ (InRx(w) <=> InRx(w)')
    BY <2>1, <2>2 DEF Account, InRx
  <2>4. \A w \in Threads : (Aggregated(w)' <=> Aggregated(w))
                           /\ (RxCleared(w)' <=> RxCleared(w))
    BY <1>2 DEF Aggregated, RxCleared
  <2> QED
    BY <1>1, <1>2, <2>1, <2>3, <2>4 DEF WindowInv, Reporting, StepControl
<1> QED
  BY <1>3, <1>4, <1>5, <1>6

(* In a step pattern, at every step of the manager, the workers and the      *)
(* coordinator: where each clear and each sum of the reports has got to, and *)
(* between which history counts the workers' counters therefore are.         *)
THEOREM WindowInvariant ==
  ASSUME Pattern = "step"
  PROVE  Spec => []WindowInv
<1>1. Init => WindowInv
  BY InitWindow
<1>2. ASSUME Base, WindowInv, [Next]_vars PROVE WindowInv'
  <2>1. CASE UNCHANGED vars
    BY <1>2, <2>1
    DEF WindowInv, StepControl, Reporting, RxCleared, Aggregated, Account, InRx,
        vars, shared, manager, worker, history
  <2> QED
    BY <1>2, <2>1, CoordWindow, HandlerWindow, ReportWindow, WorkerWindow
    DEF Next, Manager, Over, StepBase
<1>3. Spec => []Base
  BY TypeCorrect, PTL DEF Base
<1> QED
  BY <1>1, <1>2, <1>3, PTL DEF Spec

(* In a step pattern, what an agent reports for a window is at least what   *)
(* its workers had accounted when the window closed and at most what they   *)
(* began since it was cleared for: the two clears, with seconds of sleep    *)
(* between them, leave nothing of the windows before.                      *)
THEOREM WindowsAreClean ==
  ASSUME Pattern = "step"
  PROVE  Spec => []CleanWindow
<1>1. WindowInv => CleanWindow
  BY DEF WindowInv, CleanWindow, NothingLost, NothingAdded, Aggregated
<1> QED
  BY <1>1, WindowInvariant, PTL

-----------------------------------------------------------------------------
(* The invariant behind NothingLost, for any pattern.  The coordinator's and *)
(* the manager's steps but those that build the report.                    *)
LEMMA ElsewhereLost ==
  ASSUME Base, LostInv,
         \/ SendLoad \/ SendMeasure \/ SendReport \/ Receive \/ Disconnect \/ LoadStop
         \/ ClearRx \/ ClearLat \/ LoadStart \/ SetSamples \/ MeasureStart
         \/ Reply \/ ReplyAssert \/ Resume
  PROVE  LostInv'
<1> USE DEF Base
<1>1. TypeOK /\ Control /\ (InWindow => \A w \in Threads : Covers(w))
  BY DEF LostInv
<1>2. mpc' \notin {"agg_rx", "agg_copy", "agg_size", "reply"}
  <2>1. CASE SendLoad \/ SendMeasure \/ SendReport
    BY <1>1, <2>1 DEF SendLoad, SendMeasure, SendReport, manager, Control, Reporting
  <2>2. CASE ~(SendLoad \/ SendMeasure \/ SendReport)
    BY <2>2 DEF Receive, Disconnect, LoadStop, ClearRx, ClearLat, LoadStart, SetSamples,
                MeasureStart, Reply, ReplyAssert, Resume, Loop, Goto
  <2> QED
    BY <2>1, <2>2
<1>3. ASSUME InWindow', NEW w \in Threads PROVE Covers(w)'
  <2>1. CASE MeasureStart
    <3>1. rx[w] \in Nat /\ reg[w].rx \in Nat
      BY DEF TypeOK
    <3>2. rx' = rx /\ reg' = reg /\ finished'[w] = 0
      BY <2>1 DEF MeasureStart, worker
    <3> QED
      BY <3>1, <3>2 DEF Covers
  <2>2. CASE ~MeasureStart
    <3>1. InWindow /\ ~ClearRx
      BY <1>1, <1>3, <2>2
      DEF SendLoad, SendMeasure, SendReport, Receive, Disconnect, LoadStop, ClearRx, ClearLat,
          LoadStart, SetSamples, Reply, ReplyAssert, Resume, Goto, InWindow, manager,
          Control, Reporting, TypeOK, Messages
    <3>2. UNCHANGED <<rx, wpc, reg, finished>>
      BY <2>2, <3>1
      DEF SendLoad, SendMeasure, SendReport, Receive, Disconnect, LoadStop, ClearLat,
          LoadStart, SetSamples, Reply, ReplyAssert, Resume, shared, worker, history
    <3> QED
      BY <1>1, <3>1, <3>2 DEF Covers
  <2> QED
    BY <2>1, <2>2
<1> QED
  BY <1>2, <1>3 DEF LostInv

(* The steps that build the report. *)
LEMMA ReportLost ==
  ASSUME Base, LostInv, MeasureStop \/ AggRx \/ AggCopy \/ AggSize
  PROVE  LostInv'
<1> USE DEF Base
<1>1. /\ TypeOK /\ Control /\ N \in Nat \ {0} /\ Threads = 1 .. N /\ mi \in Threads
      /\ agg \in [rx : [Threads -> Nat], samples : Seq(Windows), base : Nat]
      /\ \A w \in Threads : atStop[w] \in Nat /\ finished[w] \in Nat /\ rx[w] \in Nat
  BY ThreadsAre1toN DEF TypeOK
<1>2. Reporting /\ \A w \in Threads : Covers(w)
  BY <1>1 DEF MeasureStop, AggRx, AggCopy, AggSize, LostInv, InWindow, Control, Reporting,
              TypeOK, Messages
<1>3. \A w \in Threads : Covers(w)'
  BY <1>2 DEF MeasureStop, AggRx, AggCopy, AggSize, Covers, shared, worker, history
<1>4. ASSUME NEW w \in Threads PROVE Reported(w)'
  <2>1. CASE MeasureStop
    <3>1. atStop' = finished /\ finished' = finished /\ mpc' = "agg_rx" /\ mi' = 1
      BY <2>1 DEF MeasureStop, Goto
    <3> QED
      BY <1>1, <3>1 DEF Reported, Aggregated
  <2>2. CASE AggRx \/ AggCopy \/ AggSize
    <3>1. UNCHANGED <<atStop, finished>> /\ Reported(w)
      BY <2>2 DEF AggRx, AggCopy, AggSize, history, LostInv
    <3>2. CASE AggRx
      <4>1. agg'.rx = [agg.rx EXCEPT ![mi] = rx[mi]] /\ agg.rx \in [Threads -> Nat]
        BY <1>1, <3>2 DEF AggRx
      <4>2. Aggregated(w)' => w = mi \/ Aggregated(w)
        BY <1>1, <3>2 DEF AggRx, Loop, Goto, Aggregated
      <4>3. w = mi => atStop[w] <= agg'.rx[w]
        <5>1. finished[w] <= rx[w] /\ atStop[w] <= finished[w]
          BY <1>2, <3>1 DEF Covers, Reported
        <5> QED
          BY <1>1, <4>1, <5>1
      <4>4. w # mi => agg'.rx[w] = agg.rx[w]
        BY <4>1
      <4> QED
        BY <3>1, <4>2, <4>3, <4>4 DEF Reported
    <3>3. CASE AggCopy \/ AggSize
      <4>1. agg'.rx = agg.rx
        BY <1>1, <3>3 DEF AggCopy, AggSize
      <4>2. Aggregated(w)' => Aggregated(w)
        BY <1>1, <3>3 DEF AggCopy, AggSize, Loop, Goto, Aggregated
      <4> QED
        BY <3>1, <4>1, <4>2 DEF Reported
    <3> QED
      BY <2>2, <3>2, <3>3
  <2> QED
    BY <2>1, <2>2
<1> QED
  BY <1>3, <1>4 DEF LostInv

(* A worker adds one to what it loaded, which covered the window. *)
LEMMA WorkerLost ==
  ASSUME Base, LostInv, NEW v \in Threads, Worker(v)
  PROVE  LostInv'
<1> USE DEF Base
<1>1. /\ rx \in [Threads -> Nat] /\ finished \in [Threads -> Nat]
      /\ atStop \in [Threads -> Nat] /\ wpc \in [Threads -> WorkerSteps]
      /\ reg \in [Threads -> [rx : Nat, pts : 0 .. MAX_PER_THREAD_SAMPLES,
                              count : Nat, win : Windows]]
  BY DEF TypeOK
<1>2. UNCHANGED <<coord, msg, measure, mpc, mi, agg, atStop>>
  BY WorkerControl DEF manager
<1>3. ASSUME NEW w \in Threads, Covers(w)
      PROVE  Covers(w)' /\ finished[w] <= finished'[w] /\ finished'[w] \in Nat
  <2>1. CASE RxStore(v) /\ w = v
    <3>1. /\ wpc[v] = "rx_store" /\ wpc'[v] = AfterRx
          /\ rx'[v] = reg[v].rx + 1 /\ finished'[v] = finished[v] + 1
      BY <1>1, <2>1 DEF RxStore, Step
    <3>2. finished[v] <= reg[v].rx /\ finished[v] \in Nat /\ reg[v].rx \in Nat
      BY <1>1, <1>3, <2>1, <3>1 DEF Covers
    <3> QED
      BY <2>1, <3>1, <3>2, AccountingOrder DEF Covers
  <2>2. CASE RxLoad(v) /\ w = v
    <3>1. rx'[w] = rx[w] /\ finished' = finished /\ reg'[w].rx = rx[w]
      BY <1>1, <2>2 DEF RxLoad, shared, history
    <3> QED
      BY <1>1, <1>3, <3>1 DEF Covers
  <2>3. CASE w = v /\ ~RxStore(v) /\ ~RxLoad(v)
    <3>1. rx' = rx /\ finished' = finished /\ wpc'[w] # "rx_store"
      BY <1>1, <2>3, AccountingOrder
      DEF Worker, Respond, LatTake, LatSkip, LatPts, LatCount, LatInc, LatSample, LatSize,
          RxTake, RxSkip, Step, shared, history
    <3> QED
      BY <1>1, <1>3, <3>1 DEF Covers
  <2>4. CASE w # v
    <3>1. rx'[w] = rx[w] /\ finished'[w] = finished[w] /\ wpc'[w] = wpc[w] /\ reg'[w] = reg[w]
      BY <1>1, <2>4
      DEF Worker, Respond, LatTake, LatSkip, LatPts, LatCount, LatInc, LatSample, LatSize,
          RxTake, RxSkip, RxLoad, RxStore, Step, shared, history
    <3> QED
      BY <1>1, <1>3, <3>1 DEF Covers
  <2> QED
    BY <2>1, <2>2, <2>3, <2>4
<1>4. (InWindow' <=> InWindow) /\ \A w \in Threads : Aggregated(w)' <=> Aggregated(w)
  BY <1>2 DEF InWindow, Reporting, Aggregated
<1>5. mpc \in {"agg_rx", "agg_copy", "agg_size", "reply"} => InWindow
  BY DEF InWindow, TypeOK, Messages, Control, Reporting
<1>6. ASSUME NEW w \in Threads, Covers(w), Reported(w) PROVE Reported(w)'
  <2>1. atStop[w] \in Nat /\ finished[w] \in Nat
    BY <1>1
  <2> QED
    BY <1>2, <1>3, <1>4, <1>6, <2>1 DEF Reported
<1> QED
  BY <1>2, <1>3, <1>4, <1>5, <1>6 DEF LostInv

(* Whatever the pattern, a report has every request that its workers had    *)
(* accounted in the window when agents_should_measure was turned off: no    *)
(* clear comes between START_MEASURE's reply and the report, and a count    *)
(* that a worker writes back from before is never below the window's own.  *)
THEOREM NothingIsLost == Spec => []NothingLost
<1>1. Init => LostInv
  BY ThreadsAre1toN DEF Init, LostInv, Covers
<1>2. ASSUME Base, LostInv, [Next]_vars PROVE LostInv'
  <2>1. CASE UNCHANGED vars
    BY <1>2, <2>1 DEF LostInv, Covers, Reported, InWindow, Reporting, Aggregated,
                      vars, shared, manager, worker, history
  <2> QED
    BY <1>2, <2>1, ElsewhereLost, ReportLost, WorkerLost DEF Next, Manager, Over
<1>3. LostInv => NothingLost
  BY DEF LostInv, Reported, NothingLost, Aggregated
<1> QED
  BY <1>1, <1>2, <1>3, TypeCorrect, PTL DEF Spec, Base

-----------------------------------------------------------------------------
(* The invariant behind FreshSamples. *)
LEMMA Modulo ==
  \A x \in Nat, y \in Nat \ {0} : x % y \in 0 .. (y - 1) /\ (x < y => x % y = x)
OBVIOUS

(* Nothing of a worker changes but by its own steps. *)
LEMMA FreshElsewhere ==
  ASSUME NEW w \in Threads, Fresh(w), pts' = pts, window' = window,
         wpc'[w] = wpc[w], reg'[w] = reg[w], count'[w] = count[w], size'[w] = size[w],
         samples'[w] = samples[w]
  PROVE  Fresh(w)'
BY DEF Fresh, InLat, Counted

(* A sample is written at the next slot before size covers it, and once the *)
(* buffer is full, over an older one of the same window.                   *)
LEMMA FreshStep ==
  ASSUME TypeOK, DivisorInv, NEW v \in Threads, Worker(v), Fresh(v)
  PROVE  Fresh(v)'
<1> DEFINE Reg == [rx : Nat, pts : 0 .. MAX_PER_THREAD_SAMPLES, count : Nat, win : Windows]
<1>1. /\ wpc \in [Threads -> WorkerSteps] /\ reg \in [Threads -> Reg]
      /\ count \in [Threads -> Nat] /\ size \in [Threads -> 0 .. MAX_PER_THREAD_SAMPLES]
      /\ samples \in [Threads -> [0 .. (MAX_PER_THREAD_SAMPLES - 1) -> Windows]]
      /\ pts \in Nat /\ pts <= MAX_PER_THREAD_SAMPLES /\ MAX_PER_THREAD_SAMPLES \in Nat
  <2>1. MAX_PER_THREAD_SAMPLES \in Nat
    BY AgentAssumption
  <2>2. pts \in 0 .. MAX_PER_THREAD_SAMPLES
    BY DEF TypeOK
  <2>3. pts \in Nat /\ pts <= MAX_PER_THREAD_SAMPLES
    BY <2>1, <2>2
  <2> QED
    BY <2>1, <2>3 DEF TypeOK
<1>2. pts' = pts /\ window' = window
  BY DEF Worker, Respond, LatTake, LatSkip, LatPts, LatCount, LatInc, LatSample, LatSize,
         RxTake, RxSkip, RxLoad, RxStore, shared, history
<1>3. CASE Respond(v) \/ LatSkip(v) \/ RxTake(v) \/ RxSkip(v) \/ RxLoad(v) \/ RxStore(v)
  <2>1. /\ count' = count /\ size' = size /\ samples' = samples
        /\ ~InLat(v) /\ ~InLat(v)' /\ ~Counted(v) /\ ~Counted(v)'
    BY <1>1, <1>3, AccountingOrder
    DEF Respond, LatSkip, RxTake, RxSkip, RxLoad, RxStore, Step, shared, InLat, Counted
  <2>2. wpc'[v] # "lat_inc" /\ wpc'[v] # "lat_size"
    BY <2>1 DEF InLat
  <2> QED
    BY <1>2, <2>1, <2>2 DEF Fresh
<1>4. CASE LatTake(v)
  <2>1. /\ count' = count /\ size' = size /\ samples' = samples
        /\ wpc[v] = "lat_check" /\ wpc'[v] = "lat_pts" /\ reg'[v].win = window
    BY <1>1, <1>4 DEF LatTake, Step, shared
  <2> QED
    BY <1>2, <2>1 DEF Fresh, InLat, Counted
<1>5. CASE LatPts(v)
  <2>1. /\ count' = count /\ size' = size /\ samples' = samples
        /\ wpc[v] = "lat_pts" /\ wpc'[v] = "lat_count"
        /\ reg'[v].win = reg[v].win /\ reg'[v].pts = pts
    BY <1>1, <1>5 DEF LatPts, Step, shared
  <2> QED
    BY <1>2, <2>1 DEF Fresh, InLat, Counted
<1>6. CASE LatCount(v)
  <2>1. /\ count' = count /\ size' = size /\ samples' = samples
        /\ wpc[v] = "lat_count" /\ wpc'[v] = "lat_inc"
        /\ reg'[v].win = reg[v].win /\ reg'[v].pts = reg[v].pts /\ reg'[v].count = count[v]
    BY <1>1, <1>6 DEF LatCount, Step, shared
  <2> QED
    BY <1>2, <2>1 DEF Fresh, InLat, Counted
<1>7. CASE LatInc(v)
  <2>1. /\ reg' = reg /\ size' = size /\ samples' = samples
        /\ wpc[v] = "lat_inc" /\ wpc'[v] = "lat_sample"
        /\ count'[v] = reg[v].count + 1 /\ reg[v].count \in Nat
    BY <1>1, <1>7 DEF LatInc, Step
  <2>2. reg[v].count = count[v] /\ count'[v] - 1 = count[v]
    BY <2>1 DEF Fresh
  <2> QED
    BY <1>1, <1>2, <2>1, <2>2 DEF Fresh, InLat, Counted
<1>8. CASE LatSample(v)
  <2>1. /\ reg' = reg /\ size' = size /\ count' = count
        /\ wpc[v] = "lat_sample" /\ wpc'[v] = "lat_size"
        /\ samples' = [samples EXCEPT ![v][reg[v].count % reg[v].pts] = reg[v].win]
        /\ reg[v].pts > 0
    BY <1>1, <1>8 DEF LatSample, Step
  <2>2. /\ reg[v].pts = pts /\ reg[v].win = window /\ pts > 0 /\ reg[v].count \in Nat
    BY <1>1, <2>1 DEF Fresh, InLat
  <2>3. reg[v].count % pts \in 0 .. (MAX_PER_THREAD_SAMPLES - 1)
    <3>1. PICK k \in 0 .. (pts - 1) : k = reg[v].count % pts
      BY <1>1, <2>2, Modulo
    <3>2. k \in 0 .. (MAX_PER_THREAD_SAMPLES - 1)
      BY <1>1
    <3> QED
      BY <3>1, <3>2
  <2>4. /\ samples'[v][reg[v].count % pts] = window
        /\ \A i \in 0 .. (MAX_PER_THREAD_SAMPLES - 1) :
             samples'[v][i] \in {window, samples[v][i]}
    BY <1>1, <2>1, <2>2, <2>3
  <2>5. \A i \in 0 .. (size[v] - 1) : samples'[v][i] = window
    <3>1. \A i \in 0 .. (size[v] - 1) : i \in 0 .. (MAX_PER_THREAD_SAMPLES - 1)
      <4>1. size[v] \in Nat /\ size[v] <= MAX_PER_THREAD_SAMPLES
        BY <1>1
      <4> QED
        BY <1>1, <4>1
    <3>2. \A i \in 0 .. (size[v] - 1) : samples[v][i] = window
      BY DEF Fresh
    <3> QED
      BY <2>4, <3>1, <3>2
  <2> QED
    BY <1>2, <2>1, <2>2, <2>4, <2>5 DEF Fresh, InLat, Counted
<1>9. CASE LatSize(v)
  <2>1. /\ reg' = reg /\ samples' = samples /\ count' = count
        /\ wpc[v] = "lat_size" /\ wpc'[v] \in {"rx_check", "idle"}
        /\ size'[v] = SizeAfter(v)
    BY <1>1, <1>9, AccountingOrder DEF LatSize, Step
  <2>2. /\ reg[v].pts = pts /\ pts > 0 /\ reg[v].count \in Nat
        /\ count[v] = reg[v].count + 1 /\ samples[v][reg[v].count % pts] = window
        /\ \A i \in 0 .. (size[v] - 1) : samples[v][i] = window
        /\ size[v] = IF reg[v].count > pts THEN pts ELSE reg[v].count
    BY <1>1, <2>1 DEF Fresh, InLat, Counted
  <2>3. size'[v] = IF count[v] > pts THEN pts ELSE count[v]
    BY <2>1, <2>2 DEF SizeAfter
  <2>4. \A i \in 0 .. (size'[v] - 1) : i \in 0 .. (size[v] - 1) \/ i = reg[v].count % pts
    <3>1. PICK c \in Nat : c = reg[v].count
      BY <2>2
    <3>2. pts \in Nat \ {0}
      BY <1>1, <2>2
    <3>3. c < pts => c % pts = c
      BY <3>2, Modulo
    <3>4. PICK m : m = c % pts
      OBVIOUS
    <3>5. size[v] = (IF c > pts THEN pts ELSE c) /\ size'[v] = (IF c + 1 > pts THEN pts ELSE c + 1)
      BY <2>2, <2>3, <3>1
    <3>6. \A i \in 0 .. (size'[v] - 1) : i \in 0 .. (size[v] - 1) \/ i = m
      <4>1. CASE c >= pts
        <5>1. size[v] = pts /\ size'[v] = pts
          BY <3>2, <3>5, <4>1
        <5> QED
          BY <5>1
      <4>2. CASE c < pts
        <5>1. size[v] = c /\ size'[v] = c + 1 /\ m = c
          BY <3>2, <3>3, <3>4, <3>5, <4>2
        <5> QED
          BY <5>1
      <4> QED
        BY <3>2, <4>1, <4>2
    <3> QED
      BY <3>1, <3>4, <3>6
  <2>5. \A i \in 0 .. (size'[v] - 1) : samples'[v][i] = window
    BY <2>1, <2>2, <2>4
  <2> QED
    BY <1>1, <1>2, <2>1, <2>2, <2>3, <2>5 DEF Fresh, InLat, Counted
<1> QED
  BY <1>3, <1>4, <1>5, <1>6, <1>7, <1>8, <1>9 DEF Worker

FreshBase == Base /\ DivisorInv /\ WindowInv /\ FreshInv

LEMMA InitFresh == Init => FreshInv
<1> SUFFICES ASSUME Init PROVE FreshInv
  OBVIOUS
<1>1. \A w \in Threads : count[w] = 0 /\ size[w] = 0 /\ ~InLat(w) /\ ~Counted(w)
                         /\ wpc[w] = "idle"
  BY DEF Init, InLat, Counted
<1>2. \A w \in Threads : Fresh(w)
  BY <1>1 DEF Fresh, Init
<1> QED
  BY <1>2 DEF Init, FreshInv, Reporting

LEMMA CoordFresh ==
  ASSUME FreshBase, Pattern = "step", SendLoad \/ SendMeasure \/ SendReport
  PROVE  FreshInv'
<1> USE DEF FreshBase, Base, shared, manager, worker, history
<1>1. UNCHANGED <<shared, manager, worker, history>>
  BY DEF SendLoad, SendMeasure, SendReport
<1>2. /\ \A w \in Threads : Fresh(w)' <=> Fresh(w)
      /\ \A w \in Threads : (InLat(w)' <=> InLat(w)) /\ (LatCleared(w)' <=> LatCleared(w))
  BY <1>1 DEF Fresh, InLat, Counted, LatCleared
<1>3. CASE SendLoad
  BY <1>1, <1>3 DEF SendLoad, FreshInv, Reporting, Control
<1>4. CASE SendMeasure
  <2>1. coord = "quiet" /\ msg = "none" /\ mpc = "recv"
    BY <1>4 DEF SendMeasure, WindowInv, StepControl, Control
  <2>2. \A w \in Threads : ~InLat(w)'
    BY <1>2, <1>4, <2>1 DEF SendMeasure, Quiet, InLat
  <2>3. \A w \in Threads : ~LatCleared(w)'
    BY <1>1, <2>1 DEF LatCleared
  <2> QED
    BY <1>1, <1>4, <2>1, <2>2, <2>3 DEF SendMeasure, FreshInv, Reporting
<1>5. CASE SendReport
  BY <1>1, <1>2, <1>5 DEF SendReport, FreshInv, Reporting, Control
<1> QED
  BY <1>3, <1>4, <1>5

(* The handlers of START_LOAD and START_MEASURE. *)
LEMMA HandlerFresh ==
  ASSUME FreshBase, Pattern = "step",
         \/ Receive \/ Disconnect \/ LoadStop \/ ClearRx \/ ClearLat \/ LoadStart
         \/ SetSamples \/ MeasureStart
  PROVE  FreshInv'
<1> USE DEF FreshBase, Base, shared, worker, history, Goto
<1>1. /\ TypeOK /\ Control /\ FreshInv
      /\ N \in Nat \ {0} /\ Threads = 1 .. N /\ mi \in Threads
      /\ count \in [Threads -> Nat]
      /\ size \in [Threads -> 0 .. MAX_PER_THREAD_SAMPLES] /\ msg \in Messages
  BY ThreadsAre1toN DEF TypeOK
<1>2. CASE Receive
  <2>1. UNCHANGED <<coord, msg, shared, agg, worker, history>>
    BY <1>2 DEF Receive
  <2>2. \A w \in Threads : (Fresh(w)' <=> Fresh(w)) /\ (InLat(w)' <=> InLat(w))
    BY <2>1 DEF Fresh, InLat, Counted
  <2>3. CASE msg = "START_LOAD" /\ mpc' = "load_stop"
    BY <1>1, <2>1, <2>3 DEF FreshInv, Reporting
  <2>4. CASE msg = "START_MEASURE" /\ mpc' = "clear_rx" /\ mi' = 1
    <3>1. \A w \in Threads : ~LatCleared(w)'
      BY <1>1, <2>4 DEF LatCleared
    <3> QED
      BY <1>1, <2>1, <2>2, <2>4, <3>1 DEF FreshInv, Reporting
  <2>5. CASE Reporting /\ mpc' = "stop"
    BY <1>1, <2>1, <2>2, <2>5 DEF FreshInv, Reporting
  <2> QED
    BY <1>2, <2>3, <2>4, <2>5 DEF Receive, Reporting
<1>3. CASE Disconnect
  <2>1. \A w \in Threads : Fresh(w)' <=> Fresh(w)
    BY <1>3 DEF Disconnect, Fresh, InLat, Counted
  <2>2. coord # "measure"
    BY DEF WindowInv, StepControl
  <2> QED
    BY <1>1, <1>3, <2>1, <2>2 DEF Disconnect, FreshInv, Reporting
<1>4. CASE LoadStop
  BY <1>1, <1>4 DEF LoadStop, FreshInv, Reporting, Control, Messages
<1>5. CASE ClearRx
  <2>1. /\ UNCHANGED <<coord, msg, count, size, wpc>>
        /\ mpc = "clear_rx" /\ mpc' = "clear_lat" /\ mi' = mi
    BY <1>5 DEF ClearRx
  <2>2. ~Reporting /\ msg # "none"
    BY <1>1, <2>1 DEF Control, Reporting
  <2>3. \A w \in Threads : (InLat(w)' <=> InLat(w)) /\ (LatCleared(w)' <=> LatCleared(w))
    BY <2>1 DEF InLat, LatCleared
  <2> QED
    BY <1>1, <2>1, <2>2, <2>3 DEF FreshInv, Reporting
<1>6. CASE ClearLat
  <2>1. /\ UNCHANGED <<coord, msg, wpc>> /\ mpc = "clear_lat"
        /\ Loop("clear_rx", IF msg = "START_LOAD" THEN "load_start" ELSE "set")
        /\ count' = [count EXCEPT ![mi] = 0] /\ size' = [size EXCEPT ![mi] = 0]
    BY <1>6 DEF ClearLat
  <2>2. ~Reporting /\ msg \in {"START_LOAD", "START_MEASURE"}
    BY <1>1, <2>1 DEF Control, Reporting, Messages
  <2>3. \A w \in Threads : InLat(w)' <=> InLat(w)
    BY <2>1 DEF InLat
  <2>4. \A w \in Threads : LatCleared(w)' => w <= mi
    BY <1>1, <2>1 DEF LatCleared, Loop
  <2>5. msg = "START_MEASURE" =>
          \A w \in Threads : w <= mi => count'[w] = 0 /\ size'[w] = 0
    <3> SUFFICES ASSUME msg = "START_MEASURE", NEW w \in Threads, w <= mi
                 PROVE  count'[w] = 0 /\ size'[w] = 0
      OBVIOUS
    <3>1. CASE w = mi
      BY <1>1, <2>1, <3>1
    <3>2. CASE w < mi
      BY <1>1, <2>1, <3>2 DEF FreshInv, LatCleared
    <3> QED
      BY <1>1, <3>1, <3>2
  <2>6. mpc' \in {"clear_rx", "load_start", "set"}
    BY <2>1 DEF Loop
  <2> QED
    BY <1>1, <2>1, <2>2, <2>3, <2>4, <2>5, <2>6 DEF FreshInv, Reporting
<1>7. CASE LoadStart
  <2>1. msg = "START_LOAD"
    BY <1>1, <1>7 DEF LoadStart, Control, Reporting, Messages
  <2> QED
    BY <1>1, <1>7, <2>1 DEF LoadStart, FreshInv, Reporting, Control
<1>8. CASE SetSamples
  <2>1. /\ UNCHANGED <<coord, msg, wpc, count, size>> /\ mpc = "set"
        /\ mpc' \in {"measure", "assert"}
    BY <1>8 DEF SetSamples
  <2>2. msg = "START_MEASURE"
    BY <1>1, <2>1 DEF Control, Reporting, Messages
  <2>3. \A w \in Threads : (InLat(w)' <=> InLat(w)) /\ LatCleared(w)
    BY <2>1 DEF InLat, LatCleared
  <2> QED
    BY <1>1, <2>1, <2>2, <2>3 DEF FreshInv, Reporting
<1>9. CASE MeasureStart
  <2>1. msg = "START_MEASURE" /\ mpc = "measure" /\ mpc' = "recv" /\ msg' = "none"
        /\ UNCHANGED <<pts, count, size, samples, wpc, reg>>
    BY <1>1, <1>9 DEF MeasureStart, Control, Reporting, Messages
  <2>2. \A w \in Threads : count[w] = 0 /\ size[w] = 0 /\ ~InLat(w)
    BY <1>1, <2>1 DEF FreshInv, LatCleared
  <2>3. \A w \in Threads : ~Counted(w) /\ wpc[w] \notin {"lat_inc", "lat_size"}
    BY <2>2 DEF InLat, Counted
  <2>4. \A w \in Threads : Fresh(w)'
    <3>1. pts \in Nat
      BY <1>1, AgentAssumption DEF TypeOK
    <3> QED
      BY <1>1, <2>1, <2>2, <2>3, <3>1 DEF Fresh, InLat, Counted
  <2> QED
    BY <2>1, <2>4 DEF FreshInv
<1> QED
  BY <1>2, <1>3, <1>4, <1>5, <1>6, <1>7, <1>8, <1>9

(* The handler of REPORT_REQ: what it copies is fresh, and what it adds by  *)
(* a second look at size is zero.                                          *)
LEMMA ReportFresh ==
  ASSUME FreshBase, Pattern = "step",
         \/ MeasureStop \/ AggRx \/ AggCopy \/ AggSize
         \/ Reply \/ ReplyAssert \/ Resume
  PROVE  FreshInv'
<1> USE DEF FreshBase, Base, shared, worker, history, Goto
<1>1. /\ TypeOK /\ Control /\ FreshInv /\ mi \in Threads /\ msg \in Messages
      /\ size \in [Threads -> 0 .. MAX_PER_THREAD_SAMPLES] /\ window \in Windows
      /\ agg \in [rx : [Threads -> Nat], samples : Seq(Windows), base : Nat]
      /\ samples \in [Threads -> [0 .. (MAX_PER_THREAD_SAMPLES - 1) -> Windows]]
  BY DEF TypeOK
<1> DEFINE InReport == mpc \in {"stop", "agg_rx", "agg_copy", "agg_size", "reply"}
<1>2. InReport => Reporting /\ coord = "load" /\ \A w \in Threads : Fresh(w)
  BY <1>1 DEF FreshInv, WindowInv, StepControl, Control, Reporting, Messages
<1>3. UNCHANGED <<coord, size, count, samples, pts, wpc, reg, window>>
  BY DEF MeasureStop, AggRx, AggCopy, AggSize, Reply, ReplyAssert, Resume
<1>4. \A w \in Threads : Fresh(w)' <=> Fresh(w)
  BY <1>3 DEF Fresh, InLat, Counted
<1>5. CASE MeasureStop
  <2>1. msg' = msg /\ mpc = "stop" /\ mpc' = "agg_rx" /\ Len(agg'.samples) = 0
    BY <1>5 DEF MeasureStop, NoAgg
  <2> QED
    BY <1>2, <1>3, <1>4, <2>1 DEF FreshInv, Reporting
<1>6. CASE AggRx
  <2>1. msg' = msg /\ mpc = "agg_rx" /\ agg'.samples = agg.samples
    BY <1>1, <1>6 DEF AggRx
  <2> QED
    BY <1>1, <1>2, <1>3, <1>4, <2>1 DEF FreshInv, Reporting
<1>7. CASE AggCopy
  <2> DEFINE more == [i \in 1 .. size[mi] |-> samples[mi][i - 1]]
  <2>1. msg' = msg /\ mpc = "agg_copy" /\ agg'.samples = agg.samples \o more
    BY <1>1, <1>7 DEF AggCopy
  <2>2. size[mi] \in Nat /\ size[mi] <= MAX_PER_THREAD_SAMPLES
    BY <1>1, AgentAssumption
  <2>3. \A i \in 1 .. size[mi] : more[i] = window
    <3>1. \A j \in 0 .. (size[mi] - 1) : samples[mi][j] = window
      BY <1>1, <1>2, <2>1 DEF Fresh
    <3>2. \A i \in 1 .. size[mi] : i - 1 \in 0 .. (size[mi] - 1)
      BY <2>2
    <3> QED
      BY <3>1, <3>2
  <2>4. more \in Seq(Windows) /\ Len(more) = size[mi]
    <3>1. more \in [1 .. size[mi] -> Windows]
      BY <1>1, <2>2, <2>3
    <3> HIDE DEF more
    <3>2. more \in Seq(Windows) /\ DOMAIN more = 1 .. size[mi]
      <4>1. PICK n \in Nat : n = size[mi]
        BY <2>2
      <4>2. more \in [1 .. n -> Windows]
        BY <3>1, <4>1
      <4>3. \A S : \A f \in [1 .. n -> S] : f \in Seq(S)
        BY <4>1
      <4> QED
        BY <4>1, <4>2, <4>3
    <3> QED
      BY <2>2, <3>2
  <2>5. \A i \in 1 .. Len(agg.samples) : agg.samples[i] \in {0, window}
    BY <2>1 DEF FreshInv
  <2> HIDE DEF more
  <2>6. \A i \in 1 .. Len(agg.samples \o more) : (agg.samples \o more)[i] \in {0, window}
    BY <1>1, <2>2, <2>3, <2>4, <2>5
  <2> QED
    BY <1>2, <1>3, <1>4, <2>1, <2>6 DEF FreshInv, Reporting
<1>8. CASE AggSize
  <2>1. PICK end \in Nat :
          /\ msg' = msg /\ mpc = "agg_size"
          /\ agg'.samples = [i \in 1 .. end |->
                               IF i <= Len(agg.samples) THEN agg.samples[i] ELSE 0]
    <3>1. agg.base + size[mi] \in Nat
      BY <1>1
    <3> QED
      BY <1>1, <1>8, <3>1 DEF AggSize
  <2>2. \A i \in 1 .. Len(agg.samples) : agg.samples[i] \in {0, window}
    BY <2>1 DEF FreshInv
  <2>3. Len(agg'.samples) = end /\ Len(agg.samples) \in Nat
    BY <1>1, <2>1
  <2>4. \A i \in 1 .. Len(agg'.samples) : agg'.samples[i] \in {0, window}
    BY <2>1, <2>2, <2>3
  <2> QED
    BY <1>2, <1>3, <1>4, <2>1, <2>4 DEF FreshInv, Reporting
<1>9. CASE Reply \/ ReplyAssert
  <2>1. mpc = "reply" /\ mpc' \in {"resume", "assert"} /\ msg' \in {"none", msg}
    BY <1>9 DEF Reply, ReplyAssert
  <2> QED
    BY <1>2, <1>3, <1>4, <2>1 DEF FreshInv, Reporting
<1>10. CASE Resume
  <2>1. mpc = "resume" /\ mpc' = "recv" /\ msg' = msg
    BY <1>10 DEF Resume
  <2>2. coord \in {"load", "quiet"} /\ msg # "START_MEASURE"
    BY <1>1, <2>1 DEF WindowInv, StepControl, Control
  <2> QED
    BY <1>1, <1>3, <1>4, <2>1, <2>2 DEF FreshInv, Reporting
<1> QED
  BY <1>5, <1>6, <1>7, <1>8, <1>9, <1>10

LEMMA WorkerFresh ==
  ASSUME FreshBase, Pattern = "step", NEW v \in Threads, Worker(v)
  PROVE  FreshInv'
<1> USE DEF FreshBase, Base
<1>1. TypeOK /\ DivisorInv /\ WindowInv /\ FreshInv
  OBVIOUS
<1>2. UNCHANGED <<coord, msg, measure, mpc, mi, agg, pts, window>>
  <2>1. pts' = pts /\ window' = window
    BY DEF Worker, Respond, LatTake, LatSkip, LatPts, LatCount, LatInc, LatSample, LatSize,
           RxTake, RxSkip, RxLoad, RxStore, shared, history
  <2> QED
    BY <2>1, WorkerControl DEF manager
<1>3. /\ \A w \in Threads \ {v} :
            /\ wpc'[w] = wpc[w] /\ reg'[w] = reg[w] /\ count'[w] = count[w]
            /\ size'[w] = size[w] /\ samples'[w] = samples[w]
      /\ ~measure /\ ~InLat(v) => ~InLat(v)' /\ count'[v] = count[v] /\ size'[v] = size[v]
  <2>1. /\ wpc \in [Threads -> WorkerSteps] /\ count \in [Threads -> Nat]
        /\ reg \in [Threads -> [rx : Nat, pts : 0 .. MAX_PER_THREAD_SAMPLES,
                                count : Nat, win : Windows]]
        /\ size \in [Threads -> 0 .. MAX_PER_THREAD_SAMPLES]
        /\ samples \in [Threads -> [0 .. (MAX_PER_THREAD_SAMPLES - 1) -> Windows]]
    BY DEF TypeOK
  <2> QED
    BY <2>1, AccountingOrder
    DEF Worker, Respond, LatTake, LatSkip, LatPts, LatCount, LatInc, LatSample, LatSize,
        RxTake, RxSkip, RxLoad, RxStore, Step, shared, InLat
<1>4. \A w \in Threads : Fresh(w) => Fresh(w)'
  BY <1>1, <1>2, <1>3, FreshStep, FreshElsewhere
<1>5. msg = "START_MEASURE" =>
        \A w \in Threads : ~InLat(w)' /\ (LatCleared(w)' => count'[w] = 0 /\ size'[w] = 0)
  <2> SUFFICES ASSUME msg = "START_MEASURE", NEW w \in Threads
               PROVE  ~InLat(w)' /\ (LatCleared(w)' => count'[w] = 0 /\ size'[w] = 0)
    OBVIOUS
  <2>1. ~measure /\ ~InLat(w) /\ (LatCleared(w) => count[w] = 0 /\ size[w] = 0)
    BY DEF WindowInv, FreshInv
  <2>2. LatCleared(w)' <=> LatCleared(w)
    BY <1>2 DEF LatCleared
  <2>3. ~InLat(w)' /\ count'[w] = count[w] /\ size'[w] = size[w]
    <3>1. CASE w = v
      BY <1>3, <2>1, <3>1
    <3>2. CASE w # v
      BY <1>3, <2>1, <3>2 DEF InLat
    <3> QED
      BY <3>1, <3>2
  <2> QED
    BY <2>1, <2>2, <2>3
<1>6. Reporting' <=> Reporting
  BY <1>2 DEF Reporting
<1> QED
  BY <1>1, <1>2, <1>4, <1>5, <1>6 DEF FreshInv

(* In a step pattern, at every step: which samples of each worker, and which *)
(* of those already copied, are of the present window.                     *)
THEOREM FreshInvariant ==
  ASSUME Pattern = "step"
  PROVE  Spec => []FreshInv
<1>1. Init => FreshInv
  BY InitFresh
<1>2. ASSUME Base, DivisorInv, WindowInv, FreshInv, [Next]_vars PROVE FreshInv'
  <2>1. CASE UNCHANGED vars
    <3>1. \A w \in Threads : (Fresh(w)' <=> Fresh(w)) /\ (InLat(w)' <=> InLat(w))
                             /\ (LatCleared(w)' <=> LatCleared(w))
      BY <2>1 DEF Fresh, InLat, Counted, LatCleared, vars, shared, manager, worker, history
    <3> QED
      BY <1>2, <2>1, <3>1 DEF FreshInv, Reporting, vars, shared, manager, worker, history
  <2> QED
    BY <1>2, <2>1, CoordFresh, HandlerFresh, ReportFresh, WorkerFresh
    DEF Next, Manager, Over, FreshBase
<1>3. Spec => []Base
  BY TypeCorrect, PTL DEF Base
<1>4. Spec => []DivisorInv
  BY DivisorAlwaysSet, PTL
<1>5. Spec => []WindowInv
  BY WindowInvariant, PTL
<1> QED
  BY <1>1, <1>2, <1>3, <1>4, <1>5, PTL DEF Spec

(* In a step pattern, the latency samples that an agent reports are those   *)
(* of the window, but for the zeroes of aggregate_latency_samples.         *)
THEOREM SamplesAreFresh ==
  ASSUME Pattern = "step"
  PROVE  Spec => []FreshSamples
<1>1. FreshInv => FreshSamples
  BY DEF FreshInv, FreshSamples
<1> QED
  BY <1>1, FreshInvariant, PTL

-----------------------------------------------------------------------------
(* The samples of all workers in the manager's one array.  A worker's share *)
(* of it bounds per_thread_samples, and that bounds the worker's samples.   *)
AsksFit ==
  \A n \in SampleCount :
    PerThread(n) \in 1 .. MAX_PER_THREAD_SAMPLES => N * PerThread(n) <= AGG_SAMPLE_SIZE

LEMMA Times ==
  ASSUME NEW x \in Nat, NEW y \in Nat, x <= y, NEW k \in Nat
  PROVE  x * k <= y * k /\ x * k \in Nat /\ y * k \in Nat
<1>1. (y - x) * k >= 0
  OBVIOUS
<1> QED
  BY <1>1

LEMMA ShareIs ==
  /\ N \in Nat \ {0} /\ Share \in Nat /\ N * Share <= AGG_SAMPLE_SIZE
  /\ \A x \in Nat : N * x <= AGG_SAMPLE_SIZE => x <= Share
<1>1. N \in Nat \ {0} /\ AGG_SAMPLE_SIZE \in Nat
  BY AgentAssumption
<1>2. Share \in Nat /\ N * Share <= AGG_SAMPLE_SIZE /\ AGG_SAMPLE_SIZE < N * Share + N
  BY <1>1 DEF Share
<1>3. ASSUME NEW x \in Nat, N * x <= AGG_SAMPLE_SIZE, x > Share PROVE FALSE
  <2>1. Share + 1 \in Nat /\ Share + 1 <= x
    BY <1>2, <1>3
  <2>2. (Share + 1) * N <= x * N
    BY <1>1, <2>1, Times
  <2>3. (Share + 1) * N = N * Share + N /\ x * N = N * x
    BY <1>1, <1>2
  <2> QED
    BY <1>1, <1>2, <1>3, <2>2, <2>3
<1> QED
  BY <1>1, <1>2, <1>3

(* The last worker's share ends in the array. *)
LEMMA SharesBefore ==
  ASSUME NEW k \in Threads
  PROVE  /\ (k - 1) * Share \in Nat /\ k * Share \in Nat
         /\ k * Share = (k - 1) * Share + Share /\ k * Share <= N * Share
<1>1. k \in Nat /\ k - 1 \in Nat /\ k <= N /\ N \in Nat /\ Share \in Nat
  BY ShareIs DEF Threads
<1>2. k * Share <= N * Share /\ k * Share \in Nat
  BY <1>1, Times
<1>3. k * Share = (k - 1) * Share + Share
  BY <1>1
<1>4. (k - 1) * Share \in Nat
  <2>1. k - 1 <= k
    BY <1>1
  <2> QED
    BY <1>1, <2>1, Times
<1> QED
  BY <1>2, <1>3, <1>4

LEMMA AppendedLen ==
  ASSUME NEW S, NEW s \in Seq(S), NEW t \in Seq(S)
  PROVE  Len(s \o t) = Len(s) + Len(t)
OBVIOUS

LEMMA FitStep ==
  ASSUME AsksFit, Base, FitInv, [Next]_vars
  PROVE  FitInv'
<1> USE DEF Base
<1> DEFINE Regs == [rx : Nat, pts : 0 .. MAX_PER_THREAD_SAMPLES, count : Nat, win : Windows]
<1>0. Share \in Nat /\ N \in Nat \ {0} /\ N * Share \in Nat /\ MAX_PER_THREAD_SAMPLES \in Nat
  <2>1. Share \in Nat /\ N \in Nat \ {0}
    BY ShareIs
  <2> QED
    BY <2>1, AgentAssumption
<1>1. /\ TypeOK /\ Control /\ mi \in Threads /\ Share \in Nat /\ N \in Nat \ {0}
      /\ agg \in [rx : [Threads -> Nat], samples : Seq(Windows), base : Nat]
      /\ size \in [Threads -> 0 .. MAX_PER_THREAD_SAMPLES]
      /\ wpc \in [Threads -> WorkerSteps] /\ pts \in Nat
      /\ reg \in [Threads -> Regs]
  <2>1. TypeOK /\ Control /\ Share \in Nat /\ N \in Nat \ {0}
    BY <1>0
  <2>2. pts \in 0 .. MAX_PER_THREAD_SAMPLES
    BY DEF TypeOK
  <2>3. pts \in Nat
    BY <1>0, <2>2
  <2> QED
    BY <2>1, <2>3 DEF TypeOK
<1>2. /\ (mi - 1) * Share \in Nat /\ mi * Share = (mi - 1) * Share + Share
      /\ mi * Share <= N * Share /\ mi * Share \in Nat /\ (1 - 1) * Share = 0
  BY <1>0, <1>1, SharesBefore
<1>3. CASE UNCHANGED vars
  BY <1>3 DEF FitInv, vars, shared, manager, worker, history
<1>4. CASE \/ SendLoad \/ SendMeasure \/ SendReport \/ Receive \/ Disconnect \/ LoadStop
           \/ ClearRx \/ LoadStart \/ MeasureStart \/ Reply \/ ReplyAssert \/ Resume
  <2>1. UNCHANGED <<pts, reg, size, agg>>
    BY <1>1, <1>4
    DEF SendLoad, SendMeasure, SendReport, Receive, Disconnect, LoadStop, ClearRx, LoadStart,
        MeasureStart, Reply, ReplyAssert, Resume, shared, manager, worker
  <2>2. msg' = "START_MEASURE" => asked' \in SampleCount
    BY <1>4
    DEF SendLoad, SendMeasure, SendReport, Receive, Disconnect, LoadStop, ClearRx, LoadStart,
        MeasureStart, Reply, ReplyAssert, Resume, FitInv
  <2>3. mpc' \in {"agg_rx", "agg_copy", "agg_size"} => mpc' = mpc /\ mi' = mi
    BY <1>4
    DEF SendLoad, SendMeasure, SendReport, Receive, Disconnect, LoadStop, ClearRx, LoadStart,
        MeasureStart, Reply, ReplyAssert, Resume, Goto, manager
  <2> QED
    BY <2>1, <2>2, <2>3 DEF FitInv
<1>5. CASE ClearLat
  <2>1. /\ UNCHANGED <<pts, reg, agg, msg, asked>>
        /\ \A w \in Threads : size'[w] \in {size[w], 0}
    BY <1>1, <1>5 DEF ClearLat, worker
  <2>2. mpc' \notin {"agg_rx", "agg_copy", "agg_size"}
    BY <1>5 DEF ClearLat, Loop, Goto
  <2>3. \A w \in Threads : size'[w] <= Share
    BY <1>0, <2>1 DEF FitInv
  <2> QED
    BY <2>1, <2>2, <2>3 DEF FitInv
<1>6. CASE SetSamples
  <2>1. msg = "START_MEASURE"
    BY <1>1, <1>6 DEF SetSamples, TypeOK, Messages, Control, Reporting
  <2>2. PerThread(asked) \in 1 .. MAX_PER_THREAD_SAMPLES => PerThread(asked) <= Share
    <3>1. asked \in SampleCount
      BY <2>1 DEF FitInv
    <3> SUFFICES ASSUME PerThread(asked) \in 1 .. MAX_PER_THREAD_SAMPLES
                 PROVE  PerThread(asked) <= Share
      OBVIOUS
    <3>2. N * PerThread(asked) <= AGG_SAMPLE_SIZE /\ PerThread(asked) \in Nat
      BY <1>0, <3>1 DEF AsksFit
    <3> QED
      BY <3>2, ShareIs
  <2>3. pts' <= Share
    BY <1>6, <2>2 DEF SetSamples, FitInv
  <2> QED
    BY <1>6, <2>3 DEF SetSamples, Goto, FitInv, worker
<1>7. CASE MeasureStop
  <2>1. agg'.base = 0 /\ Len(agg'.samples) = 0 /\ mi' = 1 /\ UNCHANGED <<pts, reg, size, msg, asked>>
    BY <1>7 DEF MeasureStop, NoAgg, Goto, worker
  <2> QED
    BY <1>1, <1>2, <2>1 DEF FitInv
<1>8. CASE AggRx
  <2>1. /\ agg'.base = agg.base /\ agg'.samples = agg.samples
        /\ UNCHANGED <<pts, reg, size, msg, asked>>
        /\ (mi' \in {mi, mi + 1} \/ mpc' = "reply")
    BY <1>1, <1>8 DEF AggRx, Loop, Goto, shared, worker
  <2>2. agg.base <= (mi - 1) * Share /\ Len(agg.samples) <= (mi - 1) * Share
    BY <1>8 DEF AggRx, FitInv
  <2>3. \/ agg.base <= (mi' - 1) * Share /\ Len(agg.samples) <= (mi' - 1) * Share
        \/ mpc' = "reply"
    <3>1. CASE mi' = mi
      BY <2>2, <3>1
    <3>2. CASE mi' = mi + 1
      <4>1. (mi' - 1) * Share = mi * Share
        BY <1>1, <3>2 DEF Threads
      <4>2. agg.base \in Nat /\ Len(agg.samples) \in Nat
        BY <1>1
      <4> QED
        BY <1>1, <1>2, <2>2, <4>1, <4>2
    <3> QED
      BY <1>8, <2>1, <3>1, <3>2 DEF AggRx, Loop, Goto
  <2> QED
    BY <1>8, <2>1, <2>3 DEF FitInv, AggRx, shared, worker
<1>9. CASE AggSize
  <2>1. /\ agg'.base = agg.base + size[mi] /\ Len(agg'.samples) = agg'.base
        /\ UNCHANGED <<pts, reg, size, msg, asked>>
        /\ mpc' = "reply" \/ (mpc' = "agg_rx" /\ mi' = mi + 1)
    <3>1. size[mi] \in Nat /\ agg.base + size[mi] \in Nat
      BY <1>0, <1>1
    <3> QED
      BY <1>1, <1>9, <3>1 DEF AggSize, Loop, Goto, shared, worker
  <2>2. agg'.base <= mi * Share
    <3>1. agg.base <= (mi - 1) * Share /\ size[mi] <= Share /\ agg.base \in Nat /\ size[mi] \in Nat
      BY <1>1, <1>9 DEF AggSize, FitInv
    <3> QED
      BY <1>1, <1>2, <2>1, <3>1
  <2>3. agg'.base <= N * Share
    BY <1>1, <1>2, <2>1, <2>2
  <2>4. mpc' = "agg_rx" => agg'.base <= (mi' - 1) * Share
    <3>1. mi' = mi + 1 => (mi' - 1) * Share = mi * Share
      BY <1>1 DEF Threads
    <3> QED
      BY <2>1, <2>2, <3>1
  <2> QED
    BY <2>1, <2>3, <2>4 DEF FitInv
<1>10. CASE AggCopy
  <2>1. /\ agg'.base = agg.base /\ UNCHANGED <<pts, reg, size, msg, asked>>
        /\ mpc' = "agg_size" /\ mi' = mi
    BY <1>1, <1>10 DEF AggCopy, shared, worker
  <2>2. Len(agg'.samples) = Len(agg.samples) + size[mi]
    <3> DEFINE mine == [i \in 1 .. size[mi] |-> samples[mi][i - 1]]
    <3>1. size[mi] \in 0 .. MAX_PER_THREAD_SAMPLES /\ size[mi] \in Nat
      BY <1>0, <1>1
    <3>2. \A i \in 1 .. size[mi] : samples[mi][i - 1] \in Windows
      BY <1>0, <1>1, <3>1 DEF TypeOK
    <3>3. mine \in Seq(Windows) /\ Len(mine) = size[mi]
      BY <3>1, <3>2
    <3>4. agg' = [agg EXCEPT !.samples = agg.samples \o mine]
      BY <1>10 DEF AggCopy
    <3>5. agg'.samples = agg.samples \o mine /\ agg.samples \in Seq(Windows)
      BY <1>1, <3>4
    <3> HIDE DEF mine
    <3>6. Len(agg.samples \o mine) = Len(agg.samples) + Len(mine)
      BY <3>3, <3>5, AppendedLen
    <3> QED
      BY <3>3, <3>5, <3>6
  <2>3. /\ agg.base <= (mi - 1) * Share /\ Len(agg.samples) <= (mi - 1) * Share
        /\ size[mi] <= Share /\ size[mi] \in Nat /\ Len(agg.samples) \in Nat
    BY <1>0, <1>1, <1>10 DEF AggCopy, FitInv
  <2>4. Len(agg'.samples) <= N * Share
    BY <1>0, <1>1, <1>2, <2>2, <2>3
  <2> QED
    BY <2>1, <2>3, <2>4 DEF FitInv
<1>11. ASSUME NEW v \in Threads, Worker(v) PROVE FitInv'
  <2>1. UNCHANGED <<msg, asked, pts, mpc, mi, agg>>
    BY <1>11, WorkerControl DEF manager
  <2>2. ASSUME NEW w \in Threads PROVE reg'[w].pts <= Share /\ size'[w] <= Share
    <3>1. /\ reg[w].pts <= Share /\ size[w] <= Share /\ pts <= Share
          /\ reg[w].pts \in Nat /\ reg[w].count \in Nat
      <4>1. reg[w] \in Regs
        BY <1>1
      <4>2. reg[w].pts \in 0 .. MAX_PER_THREAD_SAMPLES /\ reg[w].count \in Nat
        BY <4>1
      <4> QED
        BY <1>0, <4>2 DEF FitInv
    <3>2. CASE LatSize(v)
      <4>1. reg' = reg /\ size' = [size EXCEPT ![v] = SizeAfter(v)]
        BY <3>2 DEF LatSize
      <4>2. w = v => SizeAfter(w) <= reg[w].pts /\ SizeAfter(w) \in Nat
        BY <3>1 DEF SizeAfter
      <4> QED
        BY <1>1, <3>1, <4>1, <4>2
    <3>3. CASE ~LatSize(v)
      <4>1. size' = size
        BY <1>11, <3>3
        DEF Worker, Respond, LatTake, LatSkip, LatPts, LatCount, LatInc, LatSample, RxTake,
            RxSkip, RxLoad, RxStore, shared
      <4>2. \/ reg' = reg
            \/ reg' = [reg EXCEPT ![v].win = window]
            \/ reg' = [reg EXCEPT ![v].pts = pts]
            \/ reg' = [reg EXCEPT ![v].count = count[v]]
            \/ reg' = [reg EXCEPT ![v].rx = rx[v]]
        BY <1>11, <3>3
        DEF Worker, Respond, LatTake, LatSkip, LatPts, LatCount, LatInc, LatSample, RxTake,
            RxSkip, RxLoad, RxStore
      <4>3. reg'[w].pts \in {reg[w].pts, pts}
        <5>1. reg[v] \in Regs /\ reg[w] \in Regs
          BY <1>1
        <5> HIDE DEF Regs
        <5>2. w # v => reg'[w] = reg[w]
          BY <1>1, <4>2
        <5>3. w = v => \/ reg'[w] = reg[w]
                       \/ reg'[w] = [reg[w] EXCEPT !.win = window]
                       \/ reg'[w] = [reg[w] EXCEPT !.pts = pts]
                       \/ reg'[w] = [reg[w] EXCEPT !.count = count[v]]
                       \/ reg'[w] = [reg[w] EXCEPT !.rx = rx[v]]
          BY <1>1, <4>2
        <5> QED
          BY <5>1, <5>2, <5>3 DEF Regs
      <4> QED
        BY <3>1, <4>1, <4>3
    <3> QED
      BY <3>2, <3>3
  <2> QED
    BY <2>1, <2>2 DEF FitInv
<1> QED
  BY <1>3, <1>4, <1>5, <1>6, <1>7, <1>8, <1>9, <1>10, <1>11 DEF Next, Manager, Over

(* Whatever the pattern and the interleaving, the samples of all workers    *)
(* fit in the array of aggregate_latency_samples, if every count that       *)
(* set_per_thread_samples accepts fits there once per worker.              *)
THEOREM SamplesAlwaysFit ==
  ASSUME AsksFit
  PROVE  Spec => []SamplesFit
<1>1. Init => FitInv
  <2> SUFFICES ASSUME Init PROVE FitInv
    OBVIOUS
  <2>1. Share \in Nat /\ N * Share \in Nat
    BY ShareIs
  <2> QED
    BY <2>1 DEF Init, FitInv, NoAgg
<1>2. Base /\ FitInv /\ [Next]_vars => FitInv'
  BY FitStep
<1>3. Base /\ FitInv => SamplesFit
  <2> SUFFICES ASSUME Base, FitInv PROVE SamplesFit
    OBVIOUS
  <2>1. agg.base \in Nat /\ Len(agg.samples) \in Nat /\ AGG_SAMPLE_SIZE \in Nat
    <3>1. agg \in [rx : [Threads -> Nat], samples : Seq(Windows), base : Nat]
      BY DEF Base, TypeOK
    <3> QED
      BY <3>1, AgentAssumption
  <2>2. N * Share \in Nat /\ N * Share <= AGG_SAMPLE_SIZE
    BY ShareIs
  <2> QED
    BY <2>1, <2>2 DEF FitInv, SamplesFit
<1> QED
  BY <1>1, <1>2, <1>3, TypeCorrect, PTL DEF Spec, Base

(* The hypothesis holds with eight workers or fewer of 131072 samples each  *)
(* in an array of 0x100000, and with any number of them that agents can     *)
(* have while the coordinator asks for no more than a million samples.     *)
THEOREM AsksThatFit ==
  ASSUME \/ N * MAX_PER_THREAD_SAMPLES <= AGG_SAMPLE_SIZE
         \/ \A n \in SampleCount : 202 * n + 100 * N <= 200 * AGG_SAMPLE_SIZE
  PROVE  AsksFit
<1> SUFFICES ASSUME NEW n \in SampleCount, PerThread(n) \in 1 .. MAX_PER_THREAD_SAMPLES
             PROVE  N * PerThread(n) <= AGG_SAMPLE_SIZE
  BY DEF AsksFit
<1>1. N \in Nat \ {0} /\ AGG_SAMPLE_SIZE \in Nat /\ n \in Nat /\ MAX_PER_THREAD_SAMPLES \in Nat
  BY AgentAssumption
<1>2. PICK x \in Nat : x = PerThread(n) /\ x <= MAX_PER_THREAD_SAMPLES
  BY <1>1
<1>3. CASE N * MAX_PER_THREAD_SAMPLES <= AGG_SAMPLE_SIZE
  <2>1. x * N <= MAX_PER_THREAD_SAMPLES * N
    BY <1>1, <1>2, Times
  <2>2. x * N = N * x /\ MAX_PER_THREAD_SAMPLES * N = N * MAX_PER_THREAD_SAMPLES
    BY <1>1, <1>2
  <2> QED
    BY <1>1, <1>2, <1>3, <2>1, <2>2
<1>4. CASE 202 * n + 100 * N <= 200 * AGG_SAMPLE_SIZE
  <2>1. x = (202 * n + 100 * N) \div (200 * N)
    BY <1>2 DEF PerThread
  <2>2. (200 * N) * x <= 202 * n + 100 * N
    <3>1. PICK d \in Nat \ {0}, y \in Nat : d = 200 * N /\ y = 202 * n + 100 * N
      BY <1>1
    <3>2. d * (y \div d) <= y
      BY <3>1
    <3> QED
      BY <2>1, <3>1, <3>2
  <2>3. (200 * N) * x = 200 * (N * x) /\ N * x \in Nat
    BY <1>1, <1>2
  <2> QED
    BY <1>1, <1>2, <1>4, <2>2, <2>3
<1> QED
  BY <1>3, <1>4

-----------------------------------------------------------------------------
(* The zeroes of the aggregate.                                            *)
LEMMA ZeroesFinite ==
  ASSUME NEW s \in Seq(Windows)
  PROVE  IsFiniteSet(Zeroes(s)) /\ Cardinality(Zeroes(s)) \in Nat
<1>1. Len(s) \in Nat /\ Zeroes(s) \in SUBSET (1 .. Len(s))
  BY DEF Zeroes
<1>2. IsFiniteSet(1 .. Len(s))
  <2>1. 1 \in Int /\ Len(s) \in Int
    BY <1>1
  <2> QED
    BY <2>1, FS_Interval
<1>3. IsFiniteSet(Zeroes(s))
  BY <1>1, <1>2, FS_Subset
<1> QED
  BY <1>3, FS_CardinalityType

LEMMA ZeroesAppended ==
  ASSUME NEW s \in Seq(Windows), NEW t \in Seq(Windows), \A i \in 1 .. Len(t) : t[i] # 0
  PROVE  Zeroes(s \o t) = Zeroes(s) /\ Len(s \o t) = Len(s) + Len(t)
<1>1. Len(s) \in Nat /\ Len(t) \in Nat /\ Len(s \o t) = Len(s) + Len(t)
  OBVIOUS
<1>2. \A i \in 1 .. Len(s) : (s \o t)[i] = s[i]
  OBVIOUS
<1>3. \A i \in 1 .. Len(s \o t) : i > Len(s) =>
        i - Len(s) \in 1 .. Len(t) /\ (s \o t)[i] = t[i - Len(s)]
  OBVIOUS
<1> QED
  BY <1>1, <1>2, <1>3 DEF Zeroes

LEMMA ZeroesFilled ==
  ASSUME NEW s \in Seq(Windows), NEW end \in Nat, end \in {Len(s), Len(s) + 1},
         NEW t, t = [i \in 1 .. end |-> IF i <= Len(s) THEN s[i] ELSE 0]
  PROVE  Len(t) = end /\ Cardinality(Zeroes(t)) <= Cardinality(Zeroes(s)) + 1
<1>1. Len(s) \in Nat /\ DOMAIN t = 1 .. end /\ Len(t) = end
  OBVIOUS
<1>2. Zeroes(t) \in SUBSET (Zeroes(s) \union {end})
  BY <1>1 DEF Zeroes
<1>3. /\ IsFiniteSet(Zeroes(s) \union {end})
      /\ Cardinality(Zeroes(s) \union {end}) \in {Cardinality(Zeroes(s)), Cardinality(Zeroes(s)) + 1}
  BY ZeroesFinite, FS_AddElement
<1>4. IsFiniteSet(Zeroes(t)) /\ Cardinality(Zeroes(t)) <= Cardinality(Zeroes(s) \union {end})
  BY <1>2, <1>3, FS_Subset
<1>5. Cardinality(Zeroes(t)) \in Nat /\ Cardinality(Zeroes(s)) \in Nat
  BY <1>4, ZeroesFinite, FS_CardinalityType
<1> QED
  BY <1>1, <1>3, <1>4, <1>5

(* With its window open or not, a worker adds one sample at a time.        *)
LEMMA SizeGrowsByOne ==
  ASSUME TypeOK, NEW w \in Threads, Fresh(w), wpc[w] = "lat_size"
  PROVE  SizeAfter(w) - size[w] \in {0, 1}
<1>1. /\ reg[w].pts = pts /\ count[w] = reg[w].count + 1
      /\ size[w] = LET ended == count[w] - 1 IN IF ended > pts THEN pts ELSE ended
  BY DEF Fresh, InLat, Counted
<1>2. PICK k \in Nat, p \in Nat : k = reg[w].count /\ p = pts
  <2>1. pts \in 0 .. MAX_PER_THREAD_SAMPLES /\ MAX_PER_THREAD_SAMPLES \in Nat
    BY AgentAssumption DEF TypeOK
  <2>2. reg[w] \in [rx : Nat, pts : 0 .. MAX_PER_THREAD_SAMPLES, count : Nat, win : Windows]
    BY DEF TypeOK
  <2>3. reg[w].count \in Nat /\ pts \in Nat
    BY <2>1, <2>2
  <2> QED
    BY <2>3
<1>3. size[w] = (IF k > p THEN p ELSE k) /\ SizeAfter(w) = IF k + 1 > p THEN p ELSE k + 1
  BY <1>1, <1>2 DEF SizeAfter
<1> QED
  BY <1>2, <1>3

PhantomBase == FreshBase /\ PhantomInv

LEMMA Aggregating ==
  ASSUME Base, mpc \in {"agg_rx", "agg_copy", "agg_size", "reply"}
  PROVE  Reporting /\ coord \in {"load", "measure"}
BY DEF Base, TypeOK, Messages, Control, Reporting

(* Outside of the aggregation, only the window matters. *)
LEMMA ElsewherePhantom ==
  ASSUME PhantomBase,
         \/ SendLoad \/ SendMeasure \/ SendReport \/ Receive \/ Disconnect \/ LoadStop
         \/ ClearRx \/ ClearLat \/ LoadStart \/ SetSamples \/ MeasureStart
         \/ Reply \/ ReplyAssert \/ Resume
  PROVE  PhantomInv'
<1> USE DEF PhantomBase, FreshBase, Base
<1>1. TypeOK /\ Control /\ PhantomInv /\ window \in Nat
  <2>1. window \in 0 .. MaxWindows /\ MaxWindows \in Nat
    BY AgentAssumption DEF TypeOK, Windows
  <2>2. window \in Nat
    BY <2>1
  <2> QED
    BY <2>2
<1>2. CASE SendLoad \/ SendMeasure \/ SendReport
  <2>1. UNCHANGED <<mpc, mi, agg, measure, size, wpc, window>>
    BY <1>2 DEF SendLoad, SendMeasure, SendReport, shared, manager, worker, history
  <2>2. Reporting' => coord = "report" /\ msg = "none"
    BY <1>2 DEF SendLoad, SendMeasure, SendReport, Reporting
  <2>3. ~(msg' = "none" /\ coord' = "report")
    BY <1>2 DEF SendLoad, SendMeasure, SendReport
  <2>4. InLat(mi)' <=> InLat(mi)
    BY <2>1 DEF InLat
  <2> QED
    BY <1>1, <2>1, <2>2, <2>3, <2>4 DEF PhantomInv
<1>3. CASE \/ Receive \/ Disconnect \/ LoadStop \/ ClearRx \/ ClearLat \/ LoadStart \/ SetSamples
           \/ MeasureStart \/ Reply \/ ReplyAssert \/ Resume
  <2>1. mpc' \notin {"agg_rx", "agg_copy", "agg_size", "reply"}
    BY <1>3
    DEF Receive, Disconnect, LoadStop, ClearRx, ClearLat, LoadStart, SetSamples, MeasureStart,
        Reply, ReplyAssert, Resume, Loop, Goto
  <2>2. CASE MeasureStart
    BY <1>1, <2>1, <2>2 DEF MeasureStart, PhantomInv
  <2>3. CASE ~MeasureStart
    <3>1. window' = window
      BY <1>3, <2>3
      DEF Receive, Disconnect, LoadStop, ClearRx, ClearLat, LoadStart, SetSamples,
          Reply, ReplyAssert, Resume, history
    <3>2. Reporting' \/ (msg' = "none" /\ coord' = "report") =>
            Reporting \/ (msg = "none" /\ coord = "report")
      BY <1>1, <1>3, <2>3
      DEF Receive, Disconnect, LoadStop, ClearRx, ClearLat, LoadStart, SetSamples,
          Reply, ReplyAssert, Resume, Control, Reporting, TypeOK, Messages
    <3> QED
      BY <1>1, <2>1, <3>1, <3>2 DEF PhantomInv
  <2> QED
    BY <2>2, <2>3
<1> QED
  BY <1>2, <1>3

LEMMA ReportPhantom ==
  ASSUME PhantomBase, MeasureStop \/ AggRx \/ AggCopy \/ AggSize
  PROVE  PhantomInv'
<1> USE DEF PhantomBase, FreshBase, Base, shared, worker, history, Goto
<1> DEFINE Aggs == [rx : [Threads -> Nat], samples : Seq(Windows), base : Nat]
<1>1. /\ TypeOK /\ Control /\ PhantomInv /\ agg \in Aggs /\ mi \in Threads
      /\ size[mi] \in 0 .. MAX_PER_THREAD_SAMPLES /\ MAX_PER_THREAD_SAMPLES \in Nat
      /\ window \in Windows /\ N \in Nat \ {0} /\ mi \in 1 .. N
  BY AgentAssumption DEF TypeOK, Threads
<1>2. UNCHANGED <<msg, coord, size, wpc, window, samples>>
  BY DEF MeasureStop, AggRx, AggCopy, AggSize
<1>3. Reporting' \/ (msg' = "none" /\ coord' = "report") => window' > 0
  BY <1>1, <1>2 DEF PhantomInv, Reporting
<1>4. CASE MeasureStop
  <2>1. mpc' = "agg_rx" /\ mi' = 1 /\ ~measure' /\ agg' = NoAgg
    BY <1>4 DEF MeasureStop
  <2>2. agg'.samples = <<>> /\ agg'.base = 0
    BY <2>1 DEF NoAgg
  <2>3. Len(agg'.samples) = 0 /\ Zeroes(agg'.samples) = {}
    BY <2>2 DEF Zeroes
  <2>4. Cardinality(Zeroes(agg'.samples)) = 0
    BY <2>3, FS_EmptySet
  <2> QED
    BY <1>3, <2>1, <2>2, <2>3, <2>4 DEF PhantomInv
<1>5. ASSUME mpc \in {"agg_rx", "agg_copy", "agg_size"}
      PROVE  /\ \A w \in Threads : Fresh(w)
             /\ ~measure /\ Cardinality(Zeroes(agg.samples)) < mi
             /\ Cardinality(Zeroes(agg.samples)) \in Nat /\ Len(agg.samples) \in Nat
             /\ agg.samples \in Seq(Windows)
  <2>1. Reporting
    BY <1>5, Aggregating
  <2>2. agg.samples \in Seq(Windows) /\ Len(agg.samples) \in Nat
    BY <1>1
  <2> QED
    BY <1>1, <1>5, <2>1, <2>2, ZeroesFinite DEF FreshInv, PhantomInv
<1>6. CASE AggRx
  <2>1. /\ mpc = "agg_rx" /\ measure' = measure
        /\ agg'.samples = agg.samples /\ agg'.base = agg.base
        /\ \/ mpc' = "agg_copy" /\ mi' = mi
           \/ mpc' = "agg_rx" /\ mi' = mi + 1
           \/ mpc' = "reply" /\ mi = N
    BY <1>1, <1>6 DEF AggRx, Loop
  <2>2. Len(agg.samples) = agg.base
    BY <1>1, <2>1 DEF PhantomInv
  <2> QED
    BY <1>1, <1>3, <1>5, <2>1, <2>2 DEF PhantomInv
<1>7. CASE AggCopy
  <2> DEFINE more == [i \in 1 .. size[mi] |-> samples[mi][i - 1]]
  <2>1. /\ mpc = "agg_copy" /\ mpc' = "agg_size" /\ mi' = mi /\ measure' = measure
        /\ agg'.samples = agg.samples \o more /\ agg'.base = agg.base
    BY <1>1, <1>7 DEF AggCopy
  <2>2. PICK n \in Nat : n = size[mi]
    BY <1>1
  <2>3. \A i \in 1 .. n : more[i] = window
    <3>1. \A j \in 0 .. (n - 1) : samples[mi][j] = window
      BY <1>1, <1>5, <2>1, <2>2 DEF Fresh
    <3>2. \A i \in 1 .. n : i - 1 \in 0 .. (n - 1)
      BY <2>2
    <3> QED
      BY <2>2, <3>1, <3>2
  <2>4. more \in [1 .. n -> Windows]
    BY <1>1, <2>2, <2>3
  <2> HIDE DEF more
  <2>5. more \in Seq(Windows) /\ Len(more) = n
    <3>1. \A S : \A f \in [1 .. n -> S] : f \in Seq(S) /\ Len(f) = n
      BY <2>2
    <3> QED
      BY <2>4, <3>1
  <2>6. window > 0 /\ window \in Nat
    <3>1. Reporting
      BY <2>1, Aggregating
    <3> QED
      BY <1>1, <3>1, AgentAssumption DEF PhantomInv, Windows
  <2>7. Zeroes(agg.samples \o more) = Zeroes(agg.samples)
        /\ Len(agg.samples \o more) = Len(agg.samples) + n
    <3>1. \A i \in 1 .. Len(more) : more[i] # 0
      BY <2>3, <2>5, <2>6
    <3> QED
      BY <1>5, <2>1, <2>5, <3>1, ZeroesAppended
  <2>8. Len(agg.samples) = agg.base
    BY <1>1, <2>1 DEF PhantomInv
  <2>9. /\ Len(agg'.samples) >= agg'.base
        /\ size'[mi'] - (Len(agg'.samples) - agg'.base) = 0
    BY <1>2, <1>5, <2>1, <2>2, <2>7, <2>8
  <2> QED
    BY <1>3, <1>5, <2>1, <2>7, <2>9 DEF PhantomInv
<1>8. CASE AggSize
  <2>1. PICK end \in Nat :
          /\ mpc = "agg_size" /\ measure' = measure /\ end = agg.base + size[mi]
          /\ agg'.samples = [i \in 1 .. end |->
                               IF i <= Len(agg.samples) THEN agg.samples[i] ELSE 0]
          /\ agg'.base = end
          /\ \/ mpc' = "agg_rx" /\ mi' = mi + 1
             \/ mpc' = "reply" /\ mi = N
    <3>1. agg.base + size[mi] \in Nat
      BY <1>1
    <3> QED
      BY <1>1, <1>8, <3>1 DEF AggSize, Loop
  <2>2. end \in {Len(agg.samples), Len(agg.samples) + 1}
    <3>1. size[mi] - (Len(agg.samples) - agg.base) \in {0, 1}
      BY <1>1, <2>1 DEF PhantomInv
    <3>2. agg.base \in Nat /\ size[mi] \in Nat
      BY <1>1
    <3> QED
      BY <1>5, <2>1, <3>1, <3>2
  <2>3. /\ Len(agg'.samples) = end
        /\ Cardinality(Zeroes(agg'.samples)) <= Cardinality(Zeroes(agg.samples)) + 1
    BY <1>5, <2>1, <2>2, ZeroesFilled
  <2>4. agg'.samples \in Seq(Windows)
    <3>1. 0 \in Windows
      BY AgentAssumption DEF Windows
    <3>2. \A i \in 1 .. Len(agg.samples) : agg.samples[i] \in Windows
      BY <1>5, <2>1
    <3>3. \A i \in 1 .. end : (IF i <= Len(agg.samples) THEN agg.samples[i] ELSE 0) \in Windows
      BY <1>5, <2>1, <3>1, <3>2
    <3> QED
      BY <2>1, <3>3
  <2>5. Cardinality(Zeroes(agg'.samples)) \in Nat
    BY <2>4, ZeroesFinite
  <2>6. Cardinality(Zeroes(agg'.samples)) <= mi
    BY <1>1, <1>5, <2>1, <2>3, <2>5
  <2>7. mpc' = "agg_rx" => Cardinality(Zeroes(agg'.samples)) < mi'
    BY <1>1, <2>1, <2>5, <2>6
  <2> QED
    BY <1>1, <1>3, <1>5, <2>1, <2>3, <2>6, <2>7 DEF PhantomInv
<1> QED
  BY <1>4, <1>6, <1>7, <1>8

LEMMA WorkerPhantom ==
  ASSUME PhantomBase, NEW v \in Threads, Worker(v)
  PROVE  PhantomInv'
<1> USE DEF PhantomBase, FreshBase, Base
<1>1. TypeOK /\ PhantomInv /\ mi \in Threads
  BY DEF TypeOK
<1>2. UNCHANGED <<coord, msg, measure, mpc, mi, agg, window>>
  BY WorkerControl DEF manager
<1>3. Reporting' <=> Reporting
  BY <1>2 DEF Reporting
<1>4. ASSUME mpc = "agg_size"
      PROVE  LET late == size'[mi] - (Len(agg.samples) - agg.base)
             IN  late \in {0, 1} /\ (InLat(mi)' => late = 0)
  <2>1. /\ size[mi] - (Len(agg.samples) - agg.base) \in {0, 1}
        /\ InLat(mi) => size[mi] - (Len(agg.samples) - agg.base) = 0
        /\ ~measure /\ Fresh(mi)
    <3>1. Reporting
      BY <1>4, Aggregating
    <3> QED
      BY <1>1, <1>4, <3>1 DEF PhantomInv, FreshInv
  <2>2. wpc \in [Threads -> WorkerSteps] /\ size \in [Threads -> 0 .. MAX_PER_THREAD_SAMPLES]
    BY <1>1 DEF TypeOK
  <2>3. CASE v # mi
    <3>1. wpc'[mi] = wpc[mi] /\ size'[mi] = size[mi]
      BY <1>1, <2>2, <2>3
      DEF Worker, Respond, LatTake, LatSkip, LatPts, LatCount, LatInc, LatSample, LatSize,
          RxTake, RxSkip, RxLoad, RxStore, Step, shared
    <3> QED
      BY <1>2, <2>1, <3>1 DEF InLat
  <2>4. CASE v = mi /\ LatSize(v)
    <3>1. /\ wpc[mi] = "lat_size" /\ wpc'[mi] \in {"rx_check", "idle"}
          /\ size'[mi] = SizeAfter(mi)
      BY <2>2, <2>4, AccountingOrder DEF LatSize, Step
    <3>2. SizeAfter(mi) - size[mi] \in {0, 1} /\ InLat(mi) /\ ~InLat(mi)'
      BY <1>1, <1>2, <2>1, <3>1, SizeGrowsByOne DEF InLat
    <3>3. size[mi] = Len(agg.samples) - agg.base \/ size[mi] - (Len(agg.samples) - agg.base) = 0
      BY <2>1, <3>2
    <3>4. /\ size[mi] \in Int /\ SizeAfter(mi) \in Int /\ Len(agg.samples) \in Int
          /\ agg.base \in Int
      <4>1. agg \in [rx : [Threads -> Nat], samples : Seq(Windows), base : Nat]
        BY <1>1 DEF TypeOK
      <4>2. reg[mi] \in [rx : Nat, pts : 0 .. MAX_PER_THREAD_SAMPLES, count : Nat, win : Windows]
        BY <1>1 DEF TypeOK
      <4>3. reg[mi].pts \in Int /\ reg[mi].count + 1 \in Int
        BY <4>2, AgentAssumption
      <4> QED
        BY <1>1, <2>2, <4>1, <4>3, AgentAssumption DEF SizeAfter
    <3> QED
      BY <2>1, <3>1, <3>2, <3>4
  <2>5. CASE v = mi /\ ~LatSize(v)
    <3>1. size'[mi] = size[mi] /\ (InLat(mi)' => InLat(mi))
      BY <1>1, <1>2, <2>1, <2>2, <2>5, AccountingOrder
      DEF Worker, Respond, LatTake, LatSkip, LatPts, LatCount, LatInc, LatSample,
          RxTake, RxSkip, RxLoad, RxStore, Step, shared, InLat
    <3> QED
      BY <2>1, <3>1
  <2> QED
    BY <2>3, <2>4, <2>5
<1> QED
  BY <1>1, <1>2, <1>3, <1>4 DEF PhantomInv

(* In a step pattern, the two reads of size in aggregate_latency_samples    *)
(* cost the report at most one zeroed sample for each worker.              *)
THEOREM OnePhantomPerWorker ==
  ASSUME Pattern = "step"
  PROVE  Spec => []PhantomsBounded
<1>1. Init => PhantomInv
  BY DEF Init, PhantomInv, Reporting
<1>2. ASSUME Base, DivisorInv, WindowInv, FreshInv, PhantomInv, [Next]_vars PROVE PhantomInv'
  <2>1. CASE UNCHANGED vars
    <3>1. InLat(mi)' <=> InLat(mi)
      BY <2>1 DEF InLat, vars, manager, worker
    <3> QED
      BY <1>2, <2>1, <3>1 DEF PhantomInv, Reporting, vars, shared, manager, worker, history
  <2>2. CASE Next /\ ~UNCHANGED vars
    BY <1>2, <2>2, ElsewherePhantom, ReportPhantom, WorkerPhantom
    DEF Next, Manager, Over, PhantomBase, FreshBase
  <2> QED
    BY <1>2, <2>1, <2>2
<1>3. PhantomInv => PhantomsBounded
  BY DEF PhantomInv, PhantomsBounded
<1>4. Spec => []Base
  BY TypeCorrect, PTL DEF Base
<1>5. Spec => []DivisorInv
  BY DivisorAlwaysSet, PTL
<1>6. Spec => []WindowInv
  BY WindowInvariant, PTL
<1>7. Spec => []FreshInv
  BY FreshInvariant, PTL
<1> QED
  BY <1>1, <1>2, <1>3, <1>4, <1>5, <1>6, <1>7, PTL DEF Spec
=============================================================================
