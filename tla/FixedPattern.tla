---------------------------- MODULE FixedPattern ----------------------------
(***************************************************************************)
(* fixedSymPattern (coordinator.go) over the management protocol of        *)
(* Coordinator: the loop that repeats measurements of one load until the   *)
(* throughput is what was asked for, and then until the latency samples of *)
(* a window are good enough to be printed.  Here are the data that the     *)
(* agents report, what the loop decides from them, and the number of       *)
(* samples that it asks for, which an agent may not have room for.         *)
(*                                                                         *)
(* A latency reply has the correlation of the samples ("zero" is exactly   *)
(* 0), whether the agent found that they converged, and the bounds of the  *)
(* confidence interval of the 99th percentile.  Only agents with NIC       *)
(* timestamps (Nic) send correlations.                                     *)
(***************************************************************************)
EXTENDS Coordinator, FiniteSetsExt

CONSTANTS
  Nic,          \* whether the agents use NIC timestamps
  Intervals,    \* [i, k]: bounds that an agent may report, in us
  ciSize,       \* the widest interval to be accepted, in us
  Threads,      \* worker threads of an agent
  MAX_PER_THREAD_SAMPLES,
  initialSamples, samplesStep

ASSUME PatternAssumption ==
  /\ Pattern = "fixed"
  /\ Nic \in BOOLEAN
  /\ Intervals \subseteq [i : Nat, k : Nat]
  /\ ciSize \in Nat /\ Threads \in Nat \ {0} /\ MAX_PER_THREAD_SAMPLES \in Nat
  /\ initialSamples \in Nat /\ samplesStep \in Nat \ {0}

VARIABLES
  samples,         \* asked for in every START_MEASURE
  halvings,        \* how often the sampling rate was halved
  last,            \* the latency replies that were printed
  misses           \* history: windows with the wrong throughput

loop  == <<samples, halvings, last, misses>>
fvars == <<vars, loop>>

Correlations == {"zero", "low", "high"}
Replies == [corr : Correlations, conv : BOOLEAN, p99 : Intervals]

LoopTypeOK ==
  /\ samples \in Nat /\ halvings \in Nat /\ misses \in Nat
  /\ last \in [Agents -> Replies] \/ last = <<>>

FInit ==
  /\ Init
  /\ samples = initialSamples /\ halvings = 0
  /\ last = <<>> /\ misses = 0

-----------------------------------------------------------------------------
(* The rate must be within a tenth of the load that was asked for.          *)
TryThroughput ==
  \/ ThroughputWrong /\ misses' = misses + 1 /\ UNCHANGED <<samples, halvings, last>>
  \/ ThroughputReached /\ UNCHANGED loop

Correlated(r) == Nic /\ \E a \in Agents : r[a].corr = "high"

(* The test that the code calls the convergence check.                     *)
NotConverged(r) == Nic /\ \E a \in Agents : r[a].corr = "zero"

(* computeStatsLatency averages the bounds, rounding down; the difference   *)
(* of the averages is unsigned, and negative when taken as an int if the    *)
(* upper bound is the smaller one.                                         *)
Average(v) == MapThenSumSet(LAMBDA a : v[a], Agents) \div N
Width(r)   == Average([a \in Agents |-> r[a].p99.k]) - Average([a \in Agents |-> r[a].p99.i])

TooWide(r) == Width(r) > ciSize

(* One agent whose samples are correlated halves the rate once, however     *)
(* many there are.                                                         *)
HalveRate(r) ==
  /\ Correlated(r) /\ LatencyWrong
  /\ halvings' = halvings + 1
  /\ UNCHANGED <<samples, last, misses>>

(* Correlated samples ask for more samples, too.                           *)
BugMoreSamples(r) ==
  /\ Correlated(r) \/ NotConverged(r) \/ TooWide(r)
  /\ LatencyWrong
  /\ samples' = samples + samplesStep
  /\ halvings' = IF Correlated(r) THEN halvings + 1 ELSE halvings
  /\ UNCHANGED <<last, misses>>

MoreSamples(r) ==
  /\ ~Correlated(r) /\ (NotConverged(r) \/ TooWide(r))
  /\ LatencyWrong
  /\ samples' = samples + samplesStep
  /\ UNCHANGED <<halvings, last, misses>>

(* Correlated samples only lower the rate.                                 *)
BugPrintLatency(r) ==
  /\ ~NotConverged(r) /\ ~TooWide(r)
  /\ LatencyOk
  /\ last' = r
  /\ UNCHANGED <<samples, halvings, misses>>

(* The replies are kept whatever the width, and printed with the last try. *)
BugPrintWide(r) ==
  /\ ~Correlated(r) /\ ~NotConverged(r)
  /\ IF TooWide(r) THEN LatencyWrong ELSE LatencyOk
  /\ last' = r
  /\ UNCHANGED <<samples, halvings, misses>>

PrintLatency(r) ==
  /\ ~Correlated(r) /\ ~NotConverged(r) /\ ~TooWide(r)
  /\ LatencyOk
  /\ last' = r
  /\ UNCHANGED <<samples, halvings, misses>>

TryLatency ==
  /\ Ended /\ call = "latency"
  /\ \E r \in [Agents -> Replies] : HalveRate(r) \/ MoreSamples(r) \/ PrintLatency(r)

Calling == /\ \/ Write \/ WriteError \/ WriteLost
              \/ Read \/ ReadClosed \/ ReadWait \/ ReadTimeout \/ NextCall
           /\ UNCHANGED loop

-----------------------------------------------------------------------------
(* lround(1.01 * payload / thread_count), and the assertion of the agent    *)
(* that gets the START_MEASURE: without room for the samples it dies.       *)
PerThread == (202 * samples + 100 * Threads) \div (200 * Threads)
Accepted  == PerThread \in 1 .. MAX_PER_THREAD_SAMPLES

ServeRequest(a) ==
  /\ inq[a] # <<>> /\ Head(inq[a]).call = "measure" => Accepted
  /\ Serve(a)
  /\ UNCHANGED loop

DieAnyhow(a) == Die(a) /\ UNCHANGED loop

FRun  == TryThroughput \/ TryLatency \/ Calling
FNext == FRun \/ (Over /\ UNCHANGED loop) \/ \E a \in Agents : ServeRequest(a) \/ DieAnyhow(a)

FSpec     == FInit /\ [][FNext]_fvars
FFairSpec == FSpec /\ WF_fvars(FRun)

-----------------------------------------------------------------------------
(* Every try that the loop counts was for one reason, and changed what is   *)
(* asked of the next one accordingly: a window with the wrong throughput    *)
(* changes nothing, correlated samples halve the rate, and anything else    *)
(* asks for samplesStep more samples.                                      *)
TriesAccounted ==
  samples + samplesStep * halvings + samplesStep * misses
    = initialSamples + samplesStep * tryCount

(* The rounds of the protocol are the tries of the loop: there was one       *)
(* window per counted try, one with the throughput reached, and the present *)
(* or the printed one.  None is measured twice or skipped.                  *)
RoundsAreTries ==
  round + (IF why = "tries" THEN 1 ELSE 0)
    = tryCount + (IF state = "waitForThroughput" THEN 1 ELSE 2)

(* What is printed passed every check of the loop, on one and the same      *)
(* window, which every agent measured and had room for: no agent's samples  *)
(* are correlated, and the interval is narrow.                             *)
ResultsGood ==
  outcome = "done" =>
    /\ Accepted /\ \A a \in Agents : measured[a] = round
    /\ Nic => \A a \in Agents : last[a].corr # "high"
    /\ ~(Width(last) > ciSize)

(* An experiment that is given up has made all its tries, and printed       *)
(* nothing; one that ended otherwise has a try left.                        *)
GivesUpAfterMaxTries ==
  /\ why = "tries" => tryCount = maxTries
  /\ why # "tries" => tryCount < maxTries
  /\ outcome = "done" <=> last # <<>>

(* Where the loop is: which report its state waits for, and that an agent   *)
(* measures in a window only if it had room for its samples.               *)
LoopPlace ==
  /\ outcome = "running" => why = "none" /\ state # "exit"
  /\ outcome = "done" => why = "none" /\ call = "latency"
  /\ call = "throughput" => state = "waitForThroughput"
  /\ call = "latency" => state # "waitForThroughput"
  /\ why # "tries" => \A a \in Agents : measured[a] = round => Accepted

(* The inductive invariant of the loop. *)
LoopInv ==
  /\ LoopTypeOK /\ LoopPlace
  /\ TriesAccounted /\ RoundsAreTries /\ ResultsGood /\ GivesUpAfterMaxTries

(* The printed results converged: "Check convergence" and the comparison    *)
(* below it are about the replies' convergence.                            *)
ResultsConverged == outcome = "done" /\ Nic => \A a \in Agents : last[a].conv
=============================================================================
