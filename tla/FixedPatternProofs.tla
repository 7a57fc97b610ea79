------------------------- MODULE FixedPatternProofs -------------------------
(***************************************************************************)
(* Proofs about FixedPattern for any number of agents, intervals, tries    *)
(* and sample counts.  Its steps are steps of Coordinator, so everything   *)
(* proved of the protocol holds of the loop; LoopInv is an invariant       *)
(* relative to CoordInv, which says that an agent that serves a            *)
(* START_MEASURE serves the one of the present window.                     *)
(***************************************************************************)
EXTENDS FixedPattern, CoordinatorProofs

(* The loop only restricts the protocol. *)
LEMMA StepIsProtocol ==
  ASSUME [FNext]_fvars
  PROVE  [ProtocolNext]_vars
<1>1. ASSUME FRun PROVE Run \/ FixedTurn
  <2>1. TryThroughput => FixedTurn
    BY DEF TryThroughput, FixedTurn
  <2>2. TryLatency => FixedTurn
    BY DEF TryLatency, HalveRate, MoreSamples, PrintLatency, FixedTurn
  <2>3. Calling => Run
    BY DEF Calling, Run
  <2> QED
    BY <1>1, <2>1, <2>2, <2>3 DEF FRun
<1>2. ASSUME NEW a \in Agents, ServeRequest(a) \/ DieAnyhow(a)
      PROVE  Serve(a) \/ Die(a)
  BY <1>2 DEF ServeRequest, DieAnyhow
<1>3. UNCHANGED fvars => UNCHANGED vars
  BY DEF fvars
<1> QED
  BY <1>1, <1>2, <1>3 DEF FNext, Next, ProtocolNext

(* The fixed pattern implements the protocol. *)
THEOREM LoopFollowsProtocol == FSpec => ProtocolSpec
BY StepIsProtocol, PTL DEF FSpec, ProtocolSpec, FInit

(* The loop of the fixed pattern keeps the barriers of the protocol, so that *)
(* the windows that it compares and prints are of all agents at once.       *)
THEOREM LoopKeepsBarriers ==
  FSpec => [](NoStaleReply /\ MeasureBarrier /\ ReportBarrier /\ ResultsComplete)
BY LoopFollowsProtocol, NoReplyIsStale, MeasureTogether, ReportTogether, ResultsOfAllAgents, PTL

(* However often it repeats a window and whatever fails, the loop of the     *)
(* fixed pattern is a sequence of phases that no agent is ahead of.         *)
THEOREM LoopIsLockstep == FSpec => ImplementsLockstep
BY LoopFollowsProtocol, CoordinatorIsLockstep, PTL

LEMMA LoopProtocolInv == FSpec => []CoordInv
BY LoopFollowsProtocol, CoordinatorInvariant, PTL

-----------------------------------------------------------------------------
LEMMA NoRepliesYet == ASSUME NEW r \in [Agents -> Replies] PROVE r # <<>>
<1>1. 1 \in DOMAIN r
  BY CoordinatorAssumption DEF Agents
<1>2. DOMAIN <<>> = 1 .. 0
  OBVIOUS
<1> QED
  BY <1>1, <1>2

LEMMA LoopInit ==
  ASSUME FInit
  PROVE  LoopInv
<1>1. LoopTypeOK /\ tryCount = 0 /\ round = 1 /\ samples = initialSamples
      /\ halvings = 0 /\ misses = 0 /\ last = <<>>
  BY PatternAssumption DEF FInit, Init, LoopTypeOK
<1>2. LoopPlace
  BY <1>1, CoordinatorAssumption DEF FInit, Init, LoopPlace
<1>3. TriesAccounted
  <2>1. samplesStep * 0 = 0
    BY PatternAssumption
  <2> QED
    BY <1>1, <2>1, PatternAssumption DEF TriesAccounted
<1>4. RoundsAreTries /\ ResultsGood /\ GivesUpAfterMaxTries
  BY <1>1, CoordinatorAssumption DEF FInit, Init, RoundsAreTries, ResultsGood,
     GivesUpAfterMaxTries
<1> QED
  BY <1>1, <1>2, <1>3, <1>4 DEF LoopInv

(* What the calls, and whatever the agents do, leave alone. *)
LEMMA LoopStay ==
  ASSUME LoopInv, LoopPlace',
         UNCHANGED <<round, state, tryCount, loop>>,
         \/ UNCHANGED <<outcome, why>>
         \/ outcome = "running" /\ outcome' = "failed" /\ why' # "tries",
         outcome' = "done" => \A a \in Agents : measured'[a] = round'
  PROVE  LoopInv'
<1> USE DEF loop
<1>1. LoopTypeOK'
  BY DEF LoopInv, LoopTypeOK
<1>2. TriesAccounted'
  BY DEF LoopInv, TriesAccounted
<1>3. RoundsAreTries'
  BY DEF LoopInv, LoopPlace, RoundsAreTries
<1>4. ResultsGood'
  <2> SUFFICES ASSUME outcome' = "done" PROVE ResultsGood'
    BY DEF ResultsGood
  <2>1. outcome = "done" /\ ResultsGood
    BY DEF LoopInv
  <2> QED
    BY <2>1 DEF ResultsGood, Accepted, PerThread
<1>5. GivesUpAfterMaxTries'
  BY DEF LoopInv, LoopPlace, GivesUpAfterMaxTries
<1> QED
  BY <1>1, <1>2, <1>3, <1>4, <1>5 DEF LoopInv

(* The windows of the round under way, after the protocol's invariant. *)
LEMMA Windows ==
  ASSUME CoordInv
  PROVE  /\ call \in Reports => \A a \in Agents : measured[a] = round
         /\ \A a \in Agents : measured[a] \in Nat /\ measured[a] <= round
         /\ round \in Nat /\ tryCount \in Nat
BY DEF CoordInv, Progress, TypeOK

LEMMA CallingInv ==
  ASSUME LoopInv, CoordInv, CoordInv', Calling
  PROVE  LoopInv'
<1>1. /\ UNCHANGED <<round, state, tryCount, loop>> /\ outcome = "running"
      /\ \/ UNCHANGED <<outcome, why>>
         \/ outcome' = "failed" /\ why' # "tries"
      /\ UNCHANGED measured
      /\ call' = call \/ NextCall
  BY DEF Calling, Write, WriteError, WriteLost, Read, ReadClosed, ReadWait, ReadTimeout,
         NextCall, Begin, Fail, Writing, Reading, Ended, agents, history
<1>2. LoopPlace'
  <2>1. /\ call' = "throughput" => state = "waitForThroughput"
        /\ call' = "latency" => state # "waitForThroughput"
    <3>1. CASE call' = call
      BY <3>1 DEF LoopInv, LoopPlace
    <3>2. CASE NextCall
      BY <3>2, PatternAssumption, CoordinatorAssumption
      DEF NextCall, Ended, Begin, AfterMeasure, LoopInv, LoopPlace, CoordInv, TypeOK
    <3> QED
      BY <1>1, <3>1, <3>2
  <2> QED
    BY <1>1, <2>1 DEF LoopInv, LoopPlace, Accepted, PerThread, loop
<1> QED
  BY <1>1, <1>2, LoopStay

(* An agent that serves a START_MEASURE serves the present one, and has     *)
(* room for what it asks.                                                  *)
LEMMA ServeLoopInv ==
  ASSUME LoopInv, CoordInv, NEW s \in Agents, ServeRequest(s)
  PROVE  LoopInv'
<1>1. /\ UNCHANGED <<outcome, why, round, call, dir, at, state, tryCount, loop>>
      /\ inq[s] # <<>> /\ up[s]
  BY DEF ServeRequest, Serve, coordinator
<1>2. s \in Members(call) /\ Asked(s) /\ inq[s] = <<Request>>
  BY <1>1 DEF CoordInv, Exchange
<1>3. Head(inq[s]) = Request
  BY <1>2
<1>4. /\ measured \in [Agents -> Nat]
      /\ \/ measured' = [measured EXCEPT ![s] = round] /\ call = "measure" /\ Accepted
         \/ UNCHANGED measured
  <2>1. measured \in [Agents -> Nat]
    BY DEF CoordInv, TypeOK
  <2>2. /\ Request.call = call /\ Request.round = round
        /\ measured' = IF Request.call = "measure" THEN [measured EXCEPT ![s] = Request.round]
                                                  ELSE measured
    BY <1>3 DEF ServeRequest, Serve, Request
  <2>3. call = "measure" => Accepted
    BY <1>1, <1>3, <2>2 DEF ServeRequest
  <2> QED
    BY <2>1, <2>2, <2>3
<1>5. why # "tries" => \A a \in Agents : measured'[a] = round => Accepted
  BY <1>4 DEF LoopInv, LoopPlace
<1>6. LoopPlace'
  BY <1>1, <1>5 DEF LoopInv, LoopPlace, Accepted, PerThread, loop
<1>7. outcome' = "done" => \A a \in Agents : measured'[a] = round'
  BY <1>1, <1>4 DEF LoopInv, LoopPlace, ResultsGood
<1> QED
  BY <1>1, <1>6, <1>7, LoopStay

LEMMA DieLoopInv ==
  ASSUME LoopInv, NEW s \in Agents, DieAnyhow(s) \/ (Over /\ UNCHANGED loop) \/ UNCHANGED fvars
  PROVE  LoopInv'
<1>1. UNCHANGED <<outcome, why, round, call, state, tryCount, loop, measured>>
  BY DEF DieAnyhow, Die, Over, coordinator, history, vars, fvars, agents
<1>2. LoopPlace'
  BY <1>1 DEF LoopInv, LoopPlace, Accepted, PerThread, loop
<1>3. outcome' = "done" => \A a \in Agents : measured'[a] = round'
  BY <1>1 DEF LoopInv, ResultsGood
<1> QED
  BY <1>1, <1>2, <1>3, LoopStay

-----------------------------------------------------------------------------
LEMMA NextTime == ASSUME NEW s \in Nat, NEW n \in Nat PROVE s * (n + 1) = s * n + s
OBVIOUS

(* A try that fails is counted, for one reason. *)
LEMMA RetryInv ==
  ASSUME LoopInv, CoordInv, Ended, Retry, UNCHANGED <<state, last>>,
         \/ misses' = misses + 1 /\ UNCHANGED <<samples, halvings>>
         \/ halvings' = halvings + 1 /\ UNCHANGED <<samples, misses>>
         \/ samples' = samples + samplesStep /\ UNCHANGED <<halvings, misses>>
  PROVE  LoopInv'
<1>1. /\ tryCount' = tryCount + 1 /\ tryCount \in Nat /\ outcome = "running"
      /\ why = "none" /\ tryCount < maxTries /\ last = <<>> /\ state # "exit"
      /\ round \in Nat /\ samples \in Nat /\ halvings \in Nat /\ misses \in Nat
      /\ maxTries \in Nat /\ samplesStep \in Nat /\ initialSamples \in Nat
  BY CoordinatorAssumption, PatternAssumption
  DEF LoopInv, LoopPlace, LoopTypeOK, GivesUpAfterMaxTries, Ended, Retry, CoordInv, TypeOK
<1>2. LoopTypeOK'
  BY <1>1 DEF LoopTypeOK
<1>3. TriesAccounted'
  <2>1. /\ samplesStep * tryCount' = samplesStep * tryCount + samplesStep
        /\ samplesStep * (misses + 1) = samplesStep * misses + samplesStep
        /\ samplesStep * (halvings + 1) = samplesStep * halvings + samplesStep
    BY <1>1, NextTime
  <2>2. /\ samplesStep * misses \in Nat /\ samplesStep * halvings \in Nat
        /\ samplesStep * tryCount \in Nat
    BY <1>1
  <2>3. TriesAccounted
    BY DEF LoopInv
  <2> DEFINE h == samplesStep * halvings
             m == samplesStep * misses
             t == samplesStep * tryCount
  <2>4. samples + h + m = initialSamples + t
    BY <2>3 DEF TriesAccounted
  <2>5. CASE misses' = misses + 1 /\ UNCHANGED <<samples, halvings>>
    <3>1. samplesStep * misses' = m + samplesStep /\ samplesStep * halvings' = h
          /\ samplesStep * tryCount' = t + samplesStep
      BY <2>1, <2>5
    <3>2. samples' + h + (m + samplesStep) = initialSamples + (t + samplesStep)
      <4> HIDE DEF h, m, t
      <4>1. h \in Nat /\ m \in Nat /\ t \in Nat
        BY <2>2 DEF h, m, t
      <4> QED
        BY <1>1, <2>4, <2>5, <4>1
    <3> QED
      BY <3>1, <3>2 DEF TriesAccounted
  <2>6. CASE halvings' = halvings + 1 /\ UNCHANGED <<samples, misses>>
    <3>1. samplesStep * misses' = m /\ samplesStep * halvings' = h + samplesStep
          /\ samplesStep * tryCount' = t + samplesStep
      BY <2>1, <2>6
    <3>2. samples' + (h + samplesStep) + m = initialSamples + (t + samplesStep)
      <4> HIDE DEF h, m, t
      <4>1. h \in Nat /\ m \in Nat /\ t \in Nat
        BY <2>2 DEF h, m, t
      <4> QED
        BY <1>1, <2>4, <2>6, <4>1
    <3> QED
      BY <3>1, <3>2 DEF TriesAccounted
  <2>7. CASE samples' = samples + samplesStep /\ UNCHANGED <<halvings, misses>>
    <3>1. samplesStep * misses' = m /\ samplesStep * halvings' = h
          /\ samplesStep * tryCount' = t + samplesStep
      BY <2>1, <2>7
    <3>2. samples' + h + m = initialSamples + (t + samplesStep)
      <4> HIDE DEF h, m, t
      <4>1. h \in Nat /\ m \in Nat /\ t \in Nat
        BY <2>2 DEF h, m, t
      <4> QED
        BY <1>1, <2>4, <2>7, <4>1
    <3> QED
      BY <3>1, <3>2 DEF TriesAccounted
  <2> QED
    BY <2>5, <2>6, <2>7
<1>4. CASE tryCount + 1 < maxTries
  <2>1. /\ round' = round + 1 /\ call' = "measure"
        /\ UNCHANGED <<outcome, why, measured>>
    BY <1>4 DEF Retry, NewRound, Begin
  <2>2. \A a \in Agents : measured'[a] # round'
    BY <1>1, <2>1, Windows
  <2>3. LoopPlace'
    BY <1>1, <2>1, <2>2 DEF LoopPlace
  <2>4. RoundsAreTries'
    BY <1>1, <2>1 DEF LoopInv, RoundsAreTries
  <2>5. ResultsGood' /\ GivesUpAfterMaxTries'
    BY <1>1, <1>4, <2>1 DEF ResultsGood, GivesUpAfterMaxTries
  <2> QED
    BY <1>2, <1>3, <2>3, <2>4, <2>5 DEF LoopInv
<1>5. CASE ~(tryCount + 1 < maxTries)
  <2>1. /\ outcome' = "failed" /\ why' = "tries"
        /\ UNCHANGED <<round, call>>
    BY <1>5 DEF Retry, Exit
  <2>2. LoopPlace'
    BY <2>1 DEF LoopInv, LoopPlace
  <2>3. RoundsAreTries'
    BY <1>1, <2>1 DEF LoopInv, RoundsAreTries
  <2>4. ResultsGood' /\ GivesUpAfterMaxTries'
    BY <1>1, <1>5, <2>1 DEF ResultsGood, GivesUpAfterMaxTries
  <2> QED
    BY <1>2, <1>3, <2>2, <2>3, <2>4 DEF LoopInv
<1> QED
  BY <1>4, <1>5

LEMMA TryThroughputInv ==
  ASSUME LoopInv, CoordInv, TryThroughput
  PROVE  LoopInv'
<1>1. CASE ThroughputWrong /\ misses' = misses + 1 /\ UNCHANGED <<samples, halvings, last>>
  BY <1>1, RetryInv DEF ThroughputWrong
<1>2. CASE ThroughputReached /\ UNCHANGED loop
  <2>1. /\ outcome = "running" /\ call = "throughput" /\ state = "waitForThroughput"
        /\ why = "none" /\ round \in Nat /\ tryCount \in Nat /\ last = <<>>
        /\ round' = round + 1 /\ call' = "measure" /\ state' = "waitForLatency"
        /\ UNCHANGED <<outcome, why, measured, tryCount>> /\ UNCHANGED loop
    BY <1>2, Windows DEF ThroughputReached, Ended, NewRound, Begin, LoopInv, LoopPlace,
       GivesUpAfterMaxTries
  <2>2. \A a \in Agents : measured'[a] # round'
    BY <2>1, Windows
  <2>3. LoopPlace'
    BY <2>1, <2>2 DEF LoopPlace
  <2>4. LoopTypeOK' /\ TriesAccounted'
    BY <2>1 DEF LoopInv, LoopTypeOK, TriesAccounted, loop
  <2>5. RoundsAreTries'
    BY <2>1 DEF LoopInv, RoundsAreTries
  <2>6. ResultsGood' /\ GivesUpAfterMaxTries'
    BY <2>1 DEF LoopInv, ResultsGood, GivesUpAfterMaxTries, loop
  <2> QED
    BY <2>3, <2>4, <2>5, <2>6 DEF LoopInv
<1> QED
  BY <1>1, <1>2 DEF TryThroughput

LEMMA TryLatencyInv ==
  ASSUME LoopInv, CoordInv, TryLatency
  PROVE  LoopInv'
<1>1. PICK r \in [Agents -> Replies] : HalveRate(r) \/ MoreSamples(r) \/ PrintLatency(r)
  BY DEF TryLatency
<1>2. Ended /\ call = "latency"
  BY DEF TryLatency
<1>3. CASE HalveRate(r)
  BY <1>2, <1>3, RetryInv DEF HalveRate, LatencyWrong
<1>4. CASE MoreSamples(r)
  BY <1>2, <1>4, RetryInv DEF MoreSamples, LatencyWrong
<1>5. CASE PrintLatency(r)
  <2>1. /\ outcome = "running" /\ why = "none" /\ state \in {"waitForThroughput", "waitForLatency", "exit"}
        /\ state # "waitForThroughput" /\ state' = "exit"
        /\ outcome' = "done" /\ why' = "none" /\ last' = r
        /\ UNCHANGED <<round, call, measured, tryCount, samples, halvings, misses>>
    BY <1>2, <1>5 DEF PrintLatency, LatencyOk, Exit, Ended, LoopInv, LoopPlace, CoordInv,
       TypeOK, history
  <2>2. \A a \in Agents : measured[a] = round
    BY <1>2, Windows DEF Reports
  <2>3. Accepted
    <3>1. 1 \in Agents
      BY CoordinatorAssumption DEF Agents
    <3> QED
      BY <2>1, <2>2, <3>1 DEF LoopInv, LoopPlace
  <2>4. LoopPlace'
    BY <1>2, <2>1, <2>3 DEF LoopPlace, Accepted, PerThread
  <2>5. LoopTypeOK' /\ TriesAccounted'
    BY <2>1 DEF LoopInv, LoopTypeOK, TriesAccounted
  <2>6. RoundsAreTries'
    BY <2>1 DEF LoopInv, RoundsAreTries
  <2>7. ResultsGood'
    <3>1. Accepted' /\ \A a \in Agents : measured'[a] = round'
      BY <2>1, <2>2, <2>3 DEF Accepted, PerThread
    <3>2. Nic => \A a \in Agents : last'[a].corr # "high"
      BY <1>5, <2>1 DEF PrintLatency, Correlated
    <3>3. ~(Width(last') > ciSize)
      BY <1>5, <2>1 DEF PrintLatency, TooWide
    <3>4. Width(last)' = Width(last')
      OBVIOUS
    <3> QED
      BY <3>1, <3>2, <3>3, <3>4 DEF ResultsGood
  <2>8. GivesUpAfterMaxTries'
    BY <2>1, NoRepliesYet DEF LoopInv, GivesUpAfterMaxTries
  <2> QED
    BY <2>4, <2>5, <2>6, <2>7, <2>8 DEF LoopInv
<1> QED
  BY <1>1, <1>3, <1>4, <1>5

(* The loop's invariant, relative to the protocol's. *)
THEOREM LoopInvariant == FSpec => []LoopInv
<1>1. FInit => LoopInv
  BY LoopInit
<1>2. ASSUME LoopInv, CoordInv, CoordInv', [FNext]_fvars
      PROVE  LoopInv'
  <2>1. 1 \in Agents
    BY CoordinatorAssumption DEF Agents
  <2>2. CASE FRun
    BY <1>2, <2>2, TryThroughputInv, TryLatencyInv, CallingInv DEF FRun
  <2>3. CASE (Over /\ UNCHANGED loop) \/ UNCHANGED fvars
    BY <1>2, <2>1, <2>3, DieLoopInv
  <2>4. CASE \E a \in Agents : ServeRequest(a) \/ DieAnyhow(a)
    BY <1>2, <2>4, ServeLoopInv, DieLoopInv
  <2> QED
    BY <1>2, <2>2, <2>3, <2>4 DEF FNext
<1> QED
  BY <1>1, <1>2, LoopProtocolInv, PTL DEF FSpec

(* Every try of the fixed pattern is counted once and for one reason, and    *)
(* what is asked of the next one follows from that reason.                 *)
THEOREM TriesCountedOnce == FSpec => []TriesAccounted
<1>1. LoopInv => TriesAccounted
  BY DEF LoopInv
<1> QED
  BY <1>1, LoopInvariant, PTL

(* No window is measured twice for a try, and none is skipped.             *)
THEOREM RoundsCountTries == FSpec => []RoundsAreTries
<1>1. LoopInv => RoundsAreTries
  BY DEF LoopInv
<1> QED
  BY <1>1, LoopInvariant, PTL

(* What the fixed pattern prints passed every test of the loop on one window *)
(* of all agents.                                                          *)
THEOREM ResultsPassedTests == FSpec => []ResultsGood
<1>1. LoopInv => ResultsGood
  BY DEF LoopInv
<1> QED
  BY <1>1, LoopInvariant, PTL

(* An experiment gives up after maxTries tries and not before, with nothing *)
(* printed.                                                                *)
THEOREM GivesUpInTime == FSpec => []GivesUpAfterMaxTries
<1>1. LoopInv => GivesUpAfterMaxTries
  BY DEF LoopInv
<1> QED
  BY <1>1, LoopInvariant, PTL
=============================================================================
