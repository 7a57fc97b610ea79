---------------------------- MODULE AgentManager ----------------------------
(***************************************************************************)
(* An agent process: its manager thread (agents/manager.c), its worker     *)
(* threads' accounting (agents/stats.c), and the coordinator that drives   *)
(* it.  The threads share their statistics without locks, so a step here   *)
(* is one access to shared memory, in the order in which the agent's       *)
(* build makes them: the pair of received bytes and requests is loaded and *)
(* stored as a whole, add_latency_sample loads per_thread_samples and      *)
(* count once, and the two reads of size in aggregate_latency_samples are  *)
(* two loads.                                                              *)
(*                                                                         *)
(* The coordinator sends a request when it has the reply to the previous   *)
(* one.  Between START_LOAD and START_MEASURE it sleeps for seconds, which *)
(* is modelled by its effect: no thread is in the middle of an accounting  *)
(* step any more.                                                          *)
(*                                                                         *)
(* A latency sample is the number of the window (the interval that starts  *)
(* with START_MEASURE) in which it was taken; 0 is a zeroed sample.        *)
(***************************************************************************)
EXTENDS Integers, Sequences, FiniteSets, SequencesExt

CONSTANTS
  N,           \* worker threads: the agent_count entries of all_stats
  Kind,        \* the agent's type: "throughput" (no latency samples), "latency" or
               \* "symmetric" (with timestamps of any source)
  Pattern,     \* the load pattern the coordinator runs: "step" or "fixed"
  SampleCount, \* samples that a START_MEASURE may ask for
  MAX_PER_THREAD_SAMPLES,
  AGG_SAMPLE_SIZE, \* samples that the manager's aggregate can hold
  MaxWindows,  \* bound: measurement windows
  MaxResp      \* bound: responses per worker

Threads == 1 .. N

ASSUME AgentAssumption ==
  /\ N \in Nat \ {0}
  /\ Kind \in {"throughput", "latency", "symmetric"}
  /\ Pattern \in {"step", "fixed"}
  /\ SampleCount \subseteq Nat
  /\ MAX_PER_THREAD_SAMPLES \in Nat \ {0}
  /\ AGG_SAMPLE_SIZE \in Nat
  /\ MaxWindows \in Nat /\ MaxResp \in Nat

VARIABLES
  coord,    \* what the coordinator sends next
  msg,      \* the request being served, or "none"
  asked,    \* the sample count in it
  mpc,      \* where the manager is
  mi,       \* the worker its loop over all_stats is at
  load, measure, \* agents_should_load, agents_should_measure
  pts,      \* per_thread_samples
  rx, count, size, samples, \* each worker's statistics
  agg,      \* the aggregate: its requests and its samples
  wpc, reg, \* where each worker is, and its registers
  resp, \* bound: responses each worker has had
  window, begun, finished, atStop \* history

shared  == <<load, measure, pts, rx, count, size, samples>>
manager == <<mpc, mi, agg>>
worker  == <<wpc, reg, resp>>
history == <<window, begun, finished, atStop>>
vars    == <<coord, msg, asked, shared, manager, worker, history>>

(* Not divided by the number of threads. *)
BugPerThread(n) == (202 * n + 100) \div 200

(* lround(1.01 * payload / thread_count) *)
PerThread(n) == (202 * n + 100 * N) \div (200 * N)

Windows  == 0 .. MaxWindows
Messages == {"none", "START_LOAD", "START_MEASURE", "REPORT_THROUGHPUT", "REPORT_LATENCY"}
ManagerSteps ==
  {"recv", "load_stop", "clear_rx", "clear_lat", "load_start", "set", "measure", "stop",
   "agg_rx", "agg_copy", "agg_size", "reply", "resume", "assert", "gone"}
WorkerSteps ==
  {"idle", "lat_check", "lat_pts", "lat_count", "lat_inc", "lat_sample", "lat_size",
   "rx_check", "rx_load", "rx_store"}

TypeOK ==
  /\ coord \in {"load", "quiet", "measure", "report", "done"}
  /\ msg \in Messages /\ asked \in Nat
  /\ mpc \in ManagerSteps /\ mi \in Threads
  /\ agg \in [rx : [Threads -> Nat], samples : Seq(Windows), base : Nat]
  /\ load \in BOOLEAN /\ measure \in BOOLEAN
  /\ pts \in 0 .. MAX_PER_THREAD_SAMPLES
  /\ rx \in [Threads -> Nat] /\ count \in [Threads -> Nat]
  /\ size \in [Threads -> 0 .. MAX_PER_THREAD_SAMPLES]
  /\ samples \in [Threads -> [0 .. (MAX_PER_THREAD_SAMPLES - 1) -> Windows]]
  /\ wpc \in [Threads -> WorkerSteps]
  /\ reg \in [Threads -> [rx : Nat, pts : 0 .. MAX_PER_THREAD_SAMPLES,
                          count : Nat, win : Windows]]
  /\ resp \in [Threads -> Nat] /\ window \in Windows
  /\ begun \in [Threads -> Nat] /\ finished \in [Threads -> Nat]
  /\ atStop \in [Threads -> Nat]

NoAgg == [rx |-> [w \in Threads |-> 0], samples |-> <<>>, base |-> 0]

(* Every worker has registered its statistics (init_per_thread_stats): the  *)
(* coordinator connects five seconds after it started the agent.           *)
Init ==
  /\ coord = "load" /\ msg = "none" /\ asked = 0
  /\ mpc = "recv" /\ mi = 1 /\ agg = NoAgg
  /\ load = FALSE /\ measure = FALSE /\ pts = 0
  /\ rx = [w \in Threads |-> 0]
  /\ count = [w \in Threads |-> 0]
  /\ size = [w \in Threads |-> 0]
  /\ samples = [w \in Threads |-> [i \in 0 .. (MAX_PER_THREAD_SAMPLES - 1) |-> 0]]
  /\ wpc = [w \in Threads |-> "idle"]
  /\ reg = [w \in Threads |-> [rx |-> 0, pts |-> 0, count |-> 0, win |-> 0]]
  /\ resp = [w \in Threads |-> 0]
  /\ window = 0
  /\ begun = [w \in Threads |-> 0]
  /\ finished = [w \in Threads |-> 0]
  /\ atStop = [w \in Threads |-> 0]

-----------------------------------------------------------------------------
(* The coordinator.  testAsymPattern sends START_LOAD, START_MEASURE and    *)
(* REPORT_REQ for each load of a step pattern; fixedSymPattern sends one    *)
(* START_LOAD and then pairs of START_MEASURE and REPORT_REQ, back to back. *)
SendLoad ==
  /\ msg = "none" /\ coord = "load" /\ window < MaxWindows
  /\ msg' = "START_LOAD" /\ coord' = "quiet"
  /\ UNCHANGED <<asked, shared, manager, worker, history>>

Quiet == \A w \in Threads : wpc[w] \in {"idle", "lat_check", "rx_check"}

SendMeasure ==
  /\ msg = "none" /\ window < MaxWindows
  /\ \/ coord = "quiet" /\ Quiet
     \/ coord = "measure"
  /\ \E n \in SampleCount : asked' = n
  /\ msg' = "START_MEASURE" /\ coord' = "report"
  /\ UNCHANGED <<shared, manager, worker, history>>

(* A step pattern asks throughput agents for throughput and the others for  *)
(* latency, a fixed pattern asks its symmetric agents for either.          *)
SendReport ==
  /\ msg = "none" /\ coord = "report"
  /\ \/ /\ Kind = "throughput" \/ Pattern = "fixed"
        /\ msg' = "REPORT_THROUGHPUT"
     \/ /\ Kind # "throughput"
        /\ msg' = "REPORT_LATENCY"
  /\ coord' = IF Pattern = "step" THEN "load" ELSE "measure"
  /\ UNCHANGED <<asked, shared, manager, worker, history>>

-----------------------------------------------------------------------------
(* The manager. *)
Goto(next) == mpc' = next /\ mi' = 1
Loop(last, next) == IF mi = N THEN Goto(next) ELSE mpc' = last /\ mi' = mi + 1

(* The dispatch of manager_run, on a message whose reply is outstanding. *)
Receive ==
  /\ mpc = "recv" /\ msg # "none"
  /\ \/ msg = "START_LOAD" /\ Goto("load_stop")
     \/ msg = "START_MEASURE" /\ Goto("clear_rx")
     \/ msg \in {"REPORT_THROUGHPUT", "REPORT_LATENCY"} /\ Goto("stop")
  /\ UNCHANGED <<coord, msg, asked, shared, agg, worker, history>>

(* The coordinator is done: read returns 0, manager_run returns, and main   *)
(* waits for the workers, which nobody tells to stop.                      *)
Disconnect ==
  /\ mpc = "recv" /\ msg = "none" /\ coord \in {"load", "measure"}
  /\ coord' = "done" /\ Goto("gone")
  /\ UNCHANGED <<msg, asked, shared, agg, worker, history>>

(* A START_LOAD that leaves the measurement of the last window running. *)
BugLoadStop ==
  /\ mpc = "load_stop"
  /\ Goto("clear_rx")
  /\ UNCHANGED <<coord, msg, asked, shared, agg, worker, history>>

LoadStop ==
  /\ mpc = "load_stop"
  /\ measure' = FALSE
  /\ Goto("clear_rx")
  /\ UNCHANGED <<coord, msg, asked, load, pts, rx, count, size, samples, agg, worker, history>>

(* A worker in the middle of adding to its received requests. *)
InRx(w) == wpc[w] \in {"rx_load", "rx_store"}

(* clear_all_stats: one store for the received requests, one for count and  *)
(* size; the samples stay.  begun counts the additions since the clear,    *)
(* with the one that was under way.                                        *)
ClearRx ==
  /\ mpc = "clear_rx"
  /\ rx' = [rx EXCEPT ![mi] = 0]
  /\ begun' = [begun EXCEPT ![mi] = IF InRx(mi) THEN 1 ELSE 0]
  /\ mpc' = "clear_lat" /\ mi' = mi
  /\ UNCHANGED <<coord, msg, asked, load, measure, pts, count, size, samples, agg,
                 worker, window, finished, atStop>>

(* Only the statistics of the throughput part are zeroed. *)
BugClearLat ==
  /\ mpc = "clear_lat"
  /\ Loop("clear_rx", IF msg = "START_LOAD" THEN "load_start" ELSE "set")
  /\ UNCHANGED <<coord, msg, asked, shared, agg, worker, history>>

ClearLat ==
  /\ mpc = "clear_lat"
  /\ count' = [count EXCEPT ![mi] = 0]
  /\ size' = [size EXCEPT ![mi] = 0]
  /\ Loop("clear_rx", IF msg = "START_LOAD" THEN "load_start" ELSE "set")
  /\ UNCHANGED <<coord, msg, asked, load, measure, pts, rx, samples, agg, worker, history>>

(* Replying ends the exchange: the coordinator may send the next request. *)
LoadStart ==
  /\ mpc = "load_start"
  /\ load' = TRUE
  /\ msg' = "none" /\ Goto("recv")
  /\ UNCHANGED <<coord, asked, measure, pts, rx, count, size, samples, agg, worker, history>>

(* set_per_thread_samples built without its assertions. *)
BugSetSamples ==
  /\ mpc = "set"
  /\ pts' = PerThread(asked) /\ Goto("measure")
  /\ UNCHANGED <<coord, msg, asked, load, measure, rx, count, size, samples, agg,
                 worker, history>>

(* set_per_thread_samples and its assertions. *)
SetSamples ==
  /\ mpc = "set"
  /\ IF PerThread(asked) \in 1 .. MAX_PER_THREAD_SAMPLES
     THEN pts' = PerThread(asked) /\ Goto("measure")
     ELSE pts' = pts /\ Goto("assert")
  /\ UNCHANGED <<coord, msg, asked, load, measure, rx, count, size, samples, agg,
                 worker, history>>

(* start_measure_time is taken and the window opens. *)
MeasureStart ==
  /\ mpc = "measure"
  /\ measure' = TRUE
  /\ window' = window + 1
  /\ finished' = [w \in Threads |-> 0]
  /\ msg' = "none" /\ Goto("recv")
  /\ UNCHANGED <<coord, asked, load, pts, rx, count, size, samples, agg, worker,
                 begun, atStop>>

(* The statistics that are zeroed before they are added up are the workers'. *)
BugMeasureStop ==
  /\ mpc = "stop"
  /\ measure' = FALSE
  /\ atStop' = finished
  /\ agg' = NoAgg
  /\ rx' = [w \in Threads |-> 0]
  /\ Goto("agg_rx")
  /\ UNCHANGED <<coord, msg, asked, load, pts, count, size, samples, worker,
                 window, begun, finished>>

(* stop_measure_time is taken and the window closes. *)
MeasureStop ==
  /\ mpc = "stop"
  /\ measure' = FALSE
  /\ atStop' = finished
  /\ agg' = NoAgg
  /\ Goto("agg_rx")
  /\ UNCHANGED <<coord, msg, asked, load, pts, rx, count, size, samples, worker,
                 window, begun, finished>>

(* aggregate_throughput_stats and, for latency, aggregate_latency_samples.  *)
AggRx ==
  /\ mpc = "agg_rx"
  /\ agg' = [agg EXCEPT !.rx[mi] = rx[mi]]
  /\ IF msg = "REPORT_LATENCY" THEN mpc' = "agg_copy" /\ mi' = mi
                              ELSE Loop("agg_rx", "reply")
  /\ UNCHANGED <<coord, msg, asked, shared, worker, history>>

(* memcpy of the first size samples behind those of the workers before.  A  *)
(* worker has at most one sample in flight while measure is off, so copying *)
(* sample by sample would yield the same aggregates.                       *)
AggCopy ==
  /\ mpc = "agg_copy"
  /\ agg' = [agg EXCEPT !.samples =
               @ \o [i \in 1 .. size[mi] |-> samples[mi][i - 1]]]
  /\ mpc' = "agg_size" /\ mi' = mi
  /\ UNCHANGED <<coord, msg, asked, shared, worker, history>>

(* agg_count += size, from a second read of size: a worker that ended a     *)
(* sample in between makes the aggregate one longer than what was copied,   *)
(* and the aggregate was zeroed before.                                    *)
BugAggSize ==
  /\ mpc = "agg_size"
  /\ LET end  == agg.base + pts
         have == Len(agg.samples)
     IN  agg' = [agg EXCEPT !.base = end,
                            !.samples = [i \in 1 .. end |-> IF i <= have THEN @[i] ELSE 0]]
  /\ Loop("agg_rx", "reply")
  /\ UNCHANGED <<coord, msg, asked, shared, worker, history>>

AggSize ==
  /\ mpc = "agg_size"
  /\ LET end  == agg.base + size[mi]
         have == Len(agg.samples)
     IN  agg' = [agg EXCEPT !.base = end,
                            !.samples = [i \in 1 .. end |-> IF i <= have THEN @[i] ELSE 0]]
  /\ Loop("agg_rx", "reply")
  /\ UNCHANGED <<coord, msg, asked, shared, worker, history>>

NoSamples == msg = "REPORT_LATENCY" /\ agg.base = 0

Reply ==
  /\ mpc = "reply" /\ ~NoSamples
  /\ msg' = "none" /\ Goto("resume")
  /\ UNCHANGED <<coord, asked, shared, agg, worker, history>>

(* compute_latency_percentiles_ci asserts that there is a sample. *)
ReplyAssert ==
  /\ mpc = "reply" /\ NoSamples
  /\ Goto("assert")
  /\ UNCHANGED <<coord, msg, asked, shared, agg, worker, history>>

(* After any report measuring goes on. *)
Resume ==
  /\ mpc = "resume"
  /\ measure' = TRUE
  /\ Goto("recv")
  /\ UNCHANGED <<coord, msg, asked, load, pts, rx, count, size, samples, agg, worker, history>>

Manager ==
  \/ Receive \/ Disconnect \/ LoadStop \/ ClearRx \/ ClearLat \/ LoadStart
  \/ SetSamples \/ MeasureStart \/ MeasureStop \/ AggRx \/ AggCopy \/ AggSize
  \/ Reply \/ ReplyAssert \/ Resume

-----------------------------------------------------------------------------
(* A worker thread: for each response add_throughput_rx_sample and, but for *)
(* a throughput agent, add_latency_sample.  latency_tcp_main adds the       *)
(* requests first, the symmetric loops add the latency first.              *)
FirstStep == IF Kind = "symmetric" THEN "lat_check" ELSE "rx_check"
AfterRx   == IF Kind = "latency" THEN "lat_check" ELSE "idle"
AfterLat  == IF Kind = "symmetric" THEN "rx_check" ELSE "idle"

Step(w, from, to) == mpc # "assert" /\ wpc[w] = from /\ wpc' = [wpc EXCEPT ![w] = to]

Respond(w) ==
  /\ load /\ resp[w] < MaxResp
  /\ Step(w, "idle", FirstStep)
  /\ resp' = [resp EXCEPT ![w] = @ + 1]
  /\ UNCHANGED <<coord, msg, asked, shared, manager, reg, history>>

(* should_measure() and the draw against the sampling rate. *)
LatTake(w) ==
  /\ measure
  /\ Step(w, "lat_check", "lat_pts")
  /\ reg' = [reg EXCEPT ![w].win = window]
  /\ UNCHANGED <<coord, msg, asked, shared, manager, resp, history>>

LatSkip(w) ==
  /\ Step(w, "lat_check", AfterLat)
  /\ UNCHANGED <<coord, msg, asked, shared, manager, reg, resp, history>>

LatPts(w) ==
  /\ Step(w, "lat_pts", "lat_count")
  /\ reg' = [reg EXCEPT ![w].pts = pts]
  /\ UNCHANGED <<coord, msg, asked, shared, manager, resp, history>>

LatCount(w) ==
  /\ Step(w, "lat_count", "lat_inc")
  /\ reg' = [reg EXCEPT ![w].count = count[w]]
  /\ UNCHANGED <<coord, msg, asked, shared, manager, resp, history>>

LatInc(w) ==
  /\ Step(w, "lat_inc", "lat_sample")
  /\ count' = [count EXCEPT ![w] = reg[w].count + 1]
  /\ UNCHANGED <<coord, msg, asked, load, measure, pts, rx, size, samples, manager,
                 reg, resp, history>>

LatSample(w) ==
  /\ Step(w, "lat_sample", "lat_size")
  /\ reg[w].pts > 0
  /\ samples' = [samples EXCEPT ![w][reg[w].count % reg[w].pts] = reg[w].win]
  /\ UNCHANGED <<coord, msg, asked, load, measure, pts, rx, count, size, manager,
                 reg, resp, history>>

(* The size is not capped. *)
BugSizeAfter(w) == reg[w].count + 1
SizeAfter(w) == IF reg[w].count + 1 > reg[w].pts THEN reg[w].pts ELSE reg[w].count + 1

LatSize(w) ==
  /\ Step(w, "lat_size", AfterLat)
  /\ size' = [size EXCEPT ![w] = SizeAfter(w)]
  /\ UNCHANGED <<coord, msg, asked, load, measure, pts, rx, count, samples, manager,
                 reg, resp, history>>

RxTake(w) ==
  /\ measure
  /\ Step(w, "rx_check", "rx_load")
  /\ begun' = [begun EXCEPT ![w] = @ + 1]
  /\ UNCHANGED <<coord, msg, asked, shared, manager, reg, resp, window, finished, atStop>>

RxSkip(w) ==
  /\ ~measure
  /\ Step(w, "rx_check", AfterRx)
  /\ UNCHANGED <<coord, msg, asked, shared, manager, reg, resp, history>>

RxLoad(w) ==
  /\ Step(w, "rx_load", "rx_store")
  /\ reg' = [reg EXCEPT ![w].rx = rx[w]]
  /\ UNCHANGED <<coord, msg, asked, shared, manager, resp, history>>

RxStore(w) ==
  /\ Step(w, "rx_store", AfterRx)
  /\ rx' = [rx EXCEPT ![w] = reg[w].rx + 1]
  /\ finished' = [finished EXCEPT ![w] = @ + 1]
  /\ UNCHANGED <<coord, msg, asked, load, measure, pts, count, size, samples, manager,
                 reg, resp, window, begun, atStop>>

Worker(w) ==
  \/ Respond(w) \/ LatTake(w) \/ LatSkip(w) \/ LatPts(w) \/ LatCount(w) \/ LatInc(w)
  \/ LatSample(w) \/ LatSize(w) \/ RxTake(w) \/ RxSkip(w) \/ RxLoad(w) \/ RxStore(w)

(* After an assertion failed, or the coordinator left, the manager is done. *)
Over == mpc \in {"assert", "gone"} /\ UNCHANGED vars

Next == \/ SendLoad \/ SendMeasure \/ SendReport
        \/ Manager
        \/ \E w \in Threads : Worker(w)
        \/ Over

Spec == Init /\ [][Next]_vars

-----------------------------------------------------------------------------
(* Worker w's received requests are those it accounted in this window.      *)
Account(w) ==
  /\ rx[w] = finished[w]
  /\ wpc[w] = "rx_store" => reg[w].rx = rx[w]
  /\ begun[w] = finished[w] + IF InRx(w) THEN 1 ELSE 0

Reporting == msg \in {"REPORT_THROUGHPUT", "REPORT_LATENCY"}

(* The workers whose received requests the manager has cleared, and those   *)
(* whose it has aggregated.                                                *)
RxCleared(w) ==
  \/ mpc \in {"set", "measure"}
  \/ mpc = "clear_rx" /\ w < mi
  \/ mpc = "clear_lat" /\ w <= mi
Aggregated(w) ==
  \/ mpc = "reply"
  \/ mpc = "agg_rx" /\ w < mi
  \/ mpc \in {"agg_copy", "agg_size"} /\ w <= mi

(* Which requests can be outstanding where the manager is. *)
Control ==
  /\ msg = "none" => mpc \in {"recv", "resume", "gone"}
  /\ mpc = "gone" => coord = "done"
  /\ msg = "START_LOAD" =>
       /\ coord = "quiet"
       /\ mpc \in {"resume", "recv", "load_stop", "clear_rx", "clear_lat", "load_start"}
  /\ msg = "START_MEASURE" =>
       /\ coord = "report" /\ window < MaxWindows
       /\ mpc \in {"resume", "recv", "clear_rx", "clear_lat", "set", "measure", "assert"}
  /\ Reporting =>
       /\ coord \in {"load", "measure"}
       /\ mpc \in {"recv", "stop", "agg_rx", "agg_copy", "agg_size", "reply", "assert"}
  /\ coord = "quiet" /\ msg = "none" => mpc = "recv"
  /\ coord = "report" /\ msg = "none" => mpc = "recv"

(* In a step pattern, each START_MEASURE follows a START_LOAD. *)
StepControl ==
  /\ coord # "measure"
  /\ mpc = "resume" => coord \in {"load", "quiet"}

(* The inductive invariant behind DivisorSet: measuring is on only after    *)
(* set_per_thread_samples, although Resume turns it on without looking.     *)
DivisorInv ==
  /\ measure \/ mpc \in {"measure", "resume"} \/ Reporting
       \/ (coord = "report" /\ msg = "none") => pts > 0
  /\ \A w \in Threads :
       /\ wpc[w] = "lat_pts" => pts > 0
       /\ wpc[w] \in {"lat_count", "lat_inc", "lat_sample"} => reg[w].pts > 0

(* The inductive invariant behind CleanWindow, for a step pattern.  Nothing *)
(* is measured from the START_LOAD to the end of the next START_MEASURE, so *)
(* no thread is between its load and its store when the second clear comes, *)
(* and from then on the received requests are the finished ones.           *)
WindowInv ==
  /\ StepControl
  /\ msg = "START_LOAD" /\ mpc \in {"clear_rx", "clear_lat", "load_start"} => ~measure
  /\ coord = "quiet" /\ msg = "none" => ~measure
  /\ msg = "START_MEASURE" => ~measure /\ \A w \in Threads : ~InRx(w)
  /\ msg = "START_MEASURE" => \A w \in Threads : RxCleared(w) => rx[w] = 0 /\ begun[w] = 0
  /\ Reporting \/ (msg = "none" /\ coord \in {"report", "load", "done"}) =>
       \A w \in Threads : Account(w)
  /\ mpc \in {"agg_rx", "agg_copy", "agg_size", "reply"} =>
       \A w \in Threads :
         /\ atStop[w] <= finished[w]
         /\ Aggregated(w) => atStop[w] <= agg.rx[w] /\ agg.rx[w] <= begun[w]

(* The inductive invariant behind NothingLost, for any pattern.  A clear    *)
(* comes before the window only, so that from then on a worker's counter,  *)
(* and what it has loaded of it, are at least what ended in the window.    *)
InWindow == Reporting \/ (msg = "none" /\ coord # "quiet")
Covers(w)   == finished[w] <= rx[w] /\ (wpc[w] = "rx_store" => finished[w] <= reg[w].rx)
Reported(w) == atStop[w] <= finished[w] /\ (Aggregated(w) => atStop[w] <= agg.rx[w])
LostInv ==
  /\ InWindow => \A w \in Threads : Covers(w)
  /\ mpc \in {"agg_rx", "agg_copy", "agg_size", "reply"} => \A w \in Threads : Reported(w)

(* Worker w's samples are those of this window: the second clear found no   *)
(* thread in the middle of a sample, per_thread_samples has not changed    *)
(* since, and only the first size entries of the buffer are the window's.  *)
InLat(w)  == wpc[w] \in {"lat_pts", "lat_count", "lat_inc", "lat_sample", "lat_size"}
Counted(w) == wpc[w] \in {"lat_sample", "lat_size"}
Fresh(w) ==
  /\ InLat(w) => reg[w].win = window
  /\ InLat(w) /\ wpc[w] # "lat_pts" => reg[w].pts = pts
  /\ wpc[w] = "lat_inc" => reg[w].count = count[w]
  /\ Counted(w) => count[w] = reg[w].count + 1
  /\ size[w] = LET ended == count[w] - IF Counted(w) THEN 1 ELSE 0
               IN  IF ended > pts THEN pts ELSE ended
  /\ \A i \in 0 .. (size[w] - 1) : samples[w][i] = window
  /\ wpc[w] = "lat_size" => pts > 0 /\ samples[w][reg[w].count % pts] = window

(* The workers whose latency statistics the manager has cleared.           *)
LatCleared(w) == mpc \in {"set", "measure"} \/ (mpc \in {"clear_rx", "clear_lat"} /\ w < mi)

(* The inductive invariant behind FreshSamples, for a step pattern.        *)
FreshInv ==
  /\ msg = "START_MEASURE" =>
       \A w \in Threads : ~InLat(w) /\ (LatCleared(w) => count[w] = 0 /\ size[w] = 0)
  /\ Reporting \/ (msg = "none" /\ coord \in {"report", "load", "done"}) =>
       \A w \in Threads : Fresh(w)
  /\ mpc \in {"agg_rx", "agg_copy", "agg_size", "reply"} =>
       \A i \in 1 .. Len(agg.samples) : agg.samples[i] \in {0, window}

(* The inductive invariant behind PhantomsBounded, for a step pattern.  A   *)
(* latency agent reports with samples counted (start_measure came before), *)
(* and measuring is off, so a worker ends at most the sample it was at:     *)
(* between the copy and the second read of size, size grows by one at most. *)
Zeroes(s) == {i \in 1 .. Len(s) : s[i] = 0}
PhantomInv ==
  /\ Reporting \/ (msg = "none" /\ coord = "report") => window > 0
  /\ mpc \in {"agg_rx", "agg_copy", "agg_size", "reply"} => ~measure
  /\ mpc \in {"agg_rx", "agg_copy"} =>
       Len(agg.samples) = agg.base /\ Cardinality(Zeroes(agg.samples)) < mi
  /\ mpc = "agg_size" =>
       /\ Cardinality(Zeroes(agg.samples)) < mi
       /\ Len(agg.samples) >= agg.base
       /\ LET late == size[mi] - (Len(agg.samples) - agg.base)
          IN  late \in {0, 1} /\ (InLat(mi) => late = 0)
  /\ mpc = "reply" => Cardinality(Zeroes(agg.samples)) <= N

(* The inductive invariant behind SamplesFit: no worker has more samples    *)
(* than its share of the aggregate's array.                                *)
Share == AGG_SAMPLE_SIZE \div N
FitInv ==
  /\ msg = "START_MEASURE" => asked \in SampleCount
  /\ pts <= Share
  /\ \A w \in Threads : reg[w].pts <= Share /\ size[w] <= Share
  /\ agg.base <= N * Share /\ Len(agg.samples) <= N * Share
  /\ mpc \in {"agg_rx", "agg_copy", "agg_size"} => agg.base <= (mi - 1) * Share
  /\ mpc \in {"agg_rx", "agg_copy"} => Len(agg.samples) <= (mi - 1) * Share

(* Every request that a worker had accounted when the window closed is in   *)
(* the report: nobody clears, or writes an old count back, in between.     *)
NothingLost == mpc = "reply" => \A w \in Threads : atStop[w] <= agg.rx[w]

(* A report has no request but those whose accounting began, or was under   *)
(* way, since the clear at the start of its window.                        *)
NothingAdded == mpc = "reply" => \A w \in Threads : agg.rx[w] <= begun[w]

(* What is reported for a window is what happened in it. *)
CleanWindow == NothingLost /\ NothingAdded

(* No sample of an earlier window is reported with a later one. *)
FreshSamples == mpc = "reply" => \A i \in 1 .. Len(agg.samples) : agg.samples[i] \in {0, window}

(* The race between the two reads of size adds at most one zero per worker. *)
PhantomsBounded ==
  mpc = "reply" =>
    Cardinality(Zeroes(agg.samples)) <= N

(* No worker divides by per_thread_samples before it is set. *)
DivisorSet == \A w \in Threads : wpc[w] = "lat_sample" => reg[w].pts > 0

(* The samples of all workers together fit in the manager's aggregate, to   *)
(* which they are copied one worker after the other with no test.          *)
SamplesFit == agg.base <= AGG_SAMPLE_SIZE /\ Len(agg.samples) <= AGG_SAMPLE_SIZE
=============================================================================
