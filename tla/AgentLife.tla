----------------------------- MODULE AgentLife -----------------------------
(***************************************************************************)
(* An agent from its command line (AgentStart) to the statistics it is     *)
(* asked for (SampleStats): the reports of manager.c, which compute        *)
(* percentiles of whatever samples there are and, for NIC timestamps,      *)
(* compare the two halves of the samples (compute_convergence, whose       *)
(* result no other agent sends) and the inter-arrival times with the       *)
(* reference (check_ia).  Not modelled: the correlation of check_iid, and  *)
(* the thresholds with which the statistics are compared.                  *)
(***************************************************************************)
EXTENDS AgentStart, SampleStats

CONSTANTS
  TxCounts,          \* how many transmit timestamps
  MaxHalf,           \* bound: length of the halves that are compared
  REFERENCE_IA_SIZE, AGG_SAMPLE_SIZE

ASSUME LifeAssumption ==
  /\ TxCounts \subseteq Nat
  /\ MaxHalf \in Nat
  /\ REFERENCE_IA_SIZE \in Nat
  /\ AGG_SAMPLE_SIZE \in Nat /\ AGG_SAMPLE_SIZE >= 1000
  /\ \A n \in Sizes : n <= AGG_SAMPLE_SIZE

VARIABLES
  step,      \* "none", the report's step, or "replied"
  size, txs  \* samples and timestamps of the report

reportVars == <<step, size, txs>>
lifeVars   == <<startVars, ksVars, reportVars>>

LifeInit == StartInit /\ ksIdle /\ step = "none" /\ size = 0 /\ txs = 0

Starting == StartNext /\ UNCHANGED <<ksVars, reportVars>>

Nic == args.type = "symmetric_nic"

Crash == Stop("crash") /\ UNCHANGED <<args, Gens, ksVars, reportVars>>

(* A throughput report only sums up counters, and NIC agents' also checks   *)
(* the inter-arrival times.                                                *)
ReportThroughput ==
  /\ Running("run") /\ step = "none"
  /\ \E m \in TxCounts : txs' = m
  /\ step' = IF Nic THEN "arrivals" ELSE "replied"
  /\ UNCHANGED <<startVars, ksVars, size>>

(* compute_latency_percentiles_ci asserts that there are samples; with few  *)
(* of them the lower index is negative, and as a uint32_t far outside.     *)
BugOutside(n) == n = 0
Outside(n) == n = 0 \/ \E p \in Percentiles : LowerIdx(n, p) < 0

ReportLatency ==
  /\ Running("run") /\ step = "none" /\ args.type # "throughput"
  /\ \E n \in Sizes :
    /\ Nic => n <= 2 * MaxHalf
    /\ IF Outside(n) THEN Crash
       ELSE /\ size' = n
            /\ \E m \in TxCounts : txs' = m
            /\ step' = IF Nic THEN "convergence" ELSE "replied"
            /\ UNCHANGED <<startVars, ksVars>>

(* compute_convergence: the first half of the samples and the second.      *)
CompareHalves ==
  /\ end = "none" /\ step = "convergence"
  /\ \E s, t \in Sorted(size \div 2) : Begin(s, t)
  /\ step' = "halves"
  /\ UNCHANGED <<startVars, size, txs>>

HalvesCompared ==
  /\ step = "halves" /\ ~Walking
  /\ step' = "arrivals"
  /\ UNCHANGED <<startVars, ksVars, size, txs>>

(* check_ia: n timestamps have n - 1 differences, and no timestamp has -1.  *)
CheckIa ==
  /\ end = "none" /\ step = "arrivals"
  /\ IF txs = 0 THEN Crash
     ELSE /\ \E s \in Sorted(REFERENCE_IA_SIZE), t \in Sorted(txs - 1) : Begin(s, t)
          /\ step' = "inter_tx"
          /\ UNCHANGED <<startVars, size, txs>>

(* Requests that follow one another by a second or more fail an assertion.  *)
Pause == end = "none" /\ step = "arrivals" /\ txs > 1 /\ Crash

IaChecked ==
  /\ step = "inter_tx" /\ ~Walking
  /\ step' = "replied"
  /\ UNCHANGED <<startVars, ksVars, size, txs>>

Compare == Walk /\ UNCHANGED <<startVars, reportVars>>

LifeNext == \/ Starting \/ ReportThroughput \/ ReportLatency
            \/ CompareHalves \/ HalvesCompared \/ CheckIa \/ Pause
            \/ IaChecked \/ Compare

LifeSpec == LifeInit /\ [][LifeNext]_lifeVars

-----------------------------------------------------------------------------
(* A report is given only if there is something to report, and then the     *)
(* interval of a percentile is around it, at indices of the samples once   *)
(* there are 800 of them; below, an upper bound may be read after the last *)
(* sample, where aggregate_latency_samples left zeroes.                    *)
IntervalsInPlace ==
  step = "replied" =>
    /\ Nic => txs > 0
    /\ size > 0 =>
         \A p \in Percentiles :
           /\ 0 <= LowerIdx(size, p) /\ LowerIdx(size, p) <= Idx(size, p)
           /\ Idx(size, p) < size /\ Idx(size, p) < UpperIdx(size, p)
           /\ UpperIdx(size, p) < AGG_SAMPLE_SIZE
           /\ size >= 800 => UpperIdx(size, p) < size
=============================================================================
