---------------------------- MODULE Coordinator ----------------------------
(***************************************************************************)
(* The coordinator's side of the management protocol (coordinator.go and   *)
(* proto.go): the calls that an experiment makes, each a broadcast of one  *)
(* request to some agents followed by a read of one reply from each, in    *)
(* the order of the agents and under a deadline; and the agents at the     *)
(* other ends of the connections (manager_run), which serve one request    *)
(* after the other and may die.                                            *)
(*                                                                         *)
(* The patterns are step (testAsymPattern for every load), test (the same, *)
(* once; or testSymPattern) and fixed (fixedSymPattern).  With T = 0 the    *)
(* agents are latency agents only, or those of a symmetric experiment, and *)
(* the calls that a throughput agent gets go to nobody.  There is a last   *)
(* agent that is no throughput agent: without one the coordinator divides  *)
(* by zero when it averages the latencies.                                 *)
(*                                                                         *)
(* A round is one load of a step pattern, or one try of a fixed pattern.   *)
(***************************************************************************)
EXTENDS Integers, Sequences

CONSTANTS
  N,        \* agents, in the order of the coordinator's lists
  T,        \* the first T of them are throughput agents
  Pattern,  \* "step", "test" or "fixed"
  Rounds,   \* loads of the pattern
  maxTries, \* tries of a fixed pattern
  AckDeadline, ThroughputDeadline, LatencyDeadline \* in ticks of a half second

Agents == 1 .. N

ASSUME CoordinatorAssumption ==
  /\ N \in Nat \ {0}
  /\ T \in 0 .. (N - 1)
  /\ Pattern \in {"step", "test", "fixed"}
  /\ Pattern = "fixed" => T = 0
  /\ Rounds \in Nat \ {0}
  /\ Pattern = "test" => Rounds = 1
  /\ maxTries \in Nat \ {0}
  /\ AckDeadline \in Nat \ {0}
  /\ ThroughputDeadline \in Nat \ {0}
  /\ LatencyDeadline \in Nat \ {0}

VARIABLES
  outcome,   \* "running", "done" or "failed"
  why,       \* why it failed
  round,     \* the load, or the try, that is under way
  call,      \* the call under way
  dir, at,   \* "write" or "read", and from which agent on; "end"
  waited,    \* ticks that the read under way has waited
  stats,     \* the agents whose statistics of this round have been read
  state, tryCount, \* of the fixed pattern
  up,        \* whether the agent's process is alive
  inq, outq, \* the two directions of its management connection
  acted, loaded, measured \* history

coordinator == <<outcome, why, round, call, dir, at, waited, stats, state, tryCount>>
agents      == <<up, inq, outq>>
history     == <<acted, loaded, measured>>
vars        == <<coordinator, agents, history>>

Loads   == {"load_th", "load_lt"}
Reports == {"throughput", "latency"}
Calls   == Loads \cup {"measure"} \cup Reports

(* The agents that a call goes to: Lo(c) .. Hi(c).                          *)
Lo(c) == IF c \in {"load_lt", "latency"} THEN T + 1 ELSE 1
Hi(c) == IF c = "load_th" \/ (c = "throughput" /\ Pattern # "fixed") THEN T ELSE N

Deadline(c) == CASE c = "throughput" -> ThroughputDeadline
                 [] c = "latency"    -> LatencyDeadline
                 [] OTHER            -> AckDeadline

Request == [call |-> call, round |-> round]
Exchanges == [call : Calls, round : Nat]

TypeOK ==
  /\ outcome \in {"running", "done", "failed"}
  /\ why \in {"none", "write", "reply", "closed", "ack_timeout", "stats_timeout", "tries"}
  /\ round \in Nat /\ call \in Calls
  /\ dir \in {"write", "read", "end"} /\ at \in Nat
  /\ waited \in Nat /\ stats \subseteq Agents
  /\ state \in {"waitForThroughput", "waitForLatency", "exit"} /\ tryCount \in Nat
  /\ up \in [Agents -> BOOLEAN]
  /\ inq \in [Agents -> Seq(Exchanges)] /\ outq \in [Agents -> Seq(Exchanges)]
  /\ acted \subseteq Agents
  /\ loaded \in [Agents -> Nat] /\ measured \in [Agents -> Nat]

(* The agents are connected; the first call starts the load.               *)
Init ==
  /\ outcome = "running" /\ why = "none"
  /\ round = 1 /\ call = "load_th"
  /\ dir = (IF T = 0 THEN "end" ELSE "write") /\ at = 1
  /\ waited = 0 /\ stats = {}
  /\ state = "waitForThroughput" /\ tryCount = 0
  /\ up = [a \in Agents |-> TRUE]
  /\ inq = [a \in Agents |-> <<>>]
  /\ outq = [a \in Agents |-> <<>>]
  /\ acted = {}
  /\ loaded = [a \in Agents |-> 0]
  /\ measured = [a \in Agents |-> 0]

-----------------------------------------------------------------------------
Fail(reason) ==
  /\ outcome' = "failed" /\ why' = reason
  /\ UNCHANGED <<round, call, dir, at, waited, stats, state, tryCount, agents, history>>

Writing == outcome = "running" /\ dir = "write"
Reading == outcome = "running" /\ dir = "read"

Written == IF at = Hi(call) THEN dir' = "read" /\ at' = Lo(call)
                            ELSE dir' = dir /\ at' = at + 1

(* broadcastMessage: one Write to each agent.                              *)
Write ==
  /\ Writing /\ up[at]
  /\ inq' = [inq EXCEPT ![at] = Append(@, Request)]
  /\ Written
  /\ UNCHANGED <<outcome, why, round, call, waited, stats, state, tryCount, up, outq, history>>

(* The agent has died: the write fails, or it goes unnoticed.              *)
WriteError == Writing /\ ~up[at] /\ Fail("write")

WriteLost ==
  /\ Writing /\ ~up[at] /\ Written
  /\ UNCHANGED <<outcome, why, round, call, waited, stats, state, tryCount, agents, history>>

(* collectAcks, collectThroughputResults, collectLatencyResults: one Read   *)
(* per agent.  It returns what has arrived, and the reply at its beginning *)
(* must be of the type that answers the call; the rest is thrown away.     *)
Answers(reply) ==
  IF call \in Reports THEN reply.call = call ELSE reply.call \notin Reports

Read ==
  /\ Reading /\ outq[at] # <<>>
  /\ IF Answers(Head(outq[at]))
     THEN /\ outq' = [outq EXCEPT ![at] = <<>>]
          /\ stats' = IF call \in Reports THEN stats \cup {at} ELSE stats
          /\ IF at = Hi(call) THEN dir' = "end" /\ at' = at
                              ELSE dir' = dir /\ at' = at + 1
          /\ waited' = 0
          /\ UNCHANGED <<outcome, why, round, call, state, tryCount, up, inq, history>>
     ELSE Fail("reply")

ReadClosed == Reading /\ outq[at] = <<>> /\ ~up[at] /\ Fail("closed")

ReadWait ==
  /\ Reading /\ outq[at] = <<>> /\ up[at]
  /\ waited + 1 < Deadline(call)
  /\ waited' = waited + 1
  /\ UNCHANGED <<outcome, why, round, call, dir, at, stats, state, tryCount, agents, history>>

(* An agent that does not answer in time is passed over.                   *)
BugPassOver ==
  /\ Reading /\ outq[at] = <<>> /\ up[at]
  /\ waited + 1 >= Deadline(call)
  /\ IF at = Hi(call) THEN dir' = "end" /\ at' = at ELSE dir' = dir /\ at' = at + 1
  /\ waited' = 0
  /\ UNCHANGED <<outcome, why, round, call, stats, state, tryCount, agents, history>>

(* A read without a deadline.                                              *)
BugNoDeadline ==
  /\ Reading /\ outq[at] = <<>> /\ up[at]
  /\ waited + 1 >= Deadline(call)
  /\ UNCHANGED vars

ReadTimeout ==
  /\ Reading /\ outq[at] = <<>> /\ up[at]
  /\ waited + 1 >= Deadline(call)
  /\ Fail(IF call \in Reports THEN "stats_timeout" ELSE "ack_timeout")

-----------------------------------------------------------------------------
(* From one call to the next.                                              *)
Ended == outcome = "running" /\ dir = "end"

Begin(c) ==
  /\ call' = c /\ at' = Lo(c) /\ waited' = 0
  /\ dir' = IF Lo(c) > Hi(c) THEN "end" ELSE "write"
  /\ acted' = {}
  /\ UNCHANGED <<outcome, why, agents, loaded, measured>>

(* The measurement of a fixed pattern is followed by the report that its   *)
(* state is waiting for.                                                   *)
AfterMeasure ==
  IF Pattern = "fixed" /\ state = "waitForLatency" THEN "latency" ELSE "throughput"

(* START_MEASURE is sent as soon as the first agents are loaded.           *)
BugNextCall ==
  /\ Ended
  /\ \/ call = "load_th" /\ Begin("measure")
     \/ call = "load_lt" /\ Begin("measure")
     \/ call = "measure" /\ Begin(AfterMeasure)
     \/ call = "throughput" /\ Pattern # "fixed" /\ Begin("latency")
  /\ UNCHANGED <<round, stats, state, tryCount>>

NextCall ==
  /\ Ended
  /\ \/ call = "load_th" /\ Begin("load_lt")
     \/ call = "load_lt" /\ Begin("measure")
     \/ call = "measure" /\ Begin(AfterMeasure)
     \/ call = "throughput" /\ Pattern # "fixed" /\ Begin("latency")
  /\ UNCHANGED <<round, stats, state, tryCount>>

Exit(result, reason) ==
  /\ outcome' = result /\ why' = reason
  /\ UNCHANGED <<call, dir, at, waited, stats, round, agents, history>>

NewRound(c) == Begin(c) /\ round' = round + 1 /\ stats' = {}

(* The results of a load are printed; the step pattern goes on to the next. *)
PrintResults ==
  /\ Ended /\ call = "latency" /\ Pattern # "fixed"
  /\ IF round < Rounds THEN NewRound("load_th") ELSE Exit("done", "none")
  /\ UNCHANGED <<state, tryCount>>

(* Another try of the fixed pattern, if one is left.                       *)
Retry ==
  /\ tryCount' = tryCount + 1
  /\ IF tryCount + 1 < maxTries THEN NewRound("measure") ELSE Exit("failed", "tries")

ThroughputWrong ==
  /\ Ended /\ call = "throughput" /\ Pattern = "fixed"
  /\ Retry
  /\ UNCHANGED state

(* The window that reaches the throughput is counted as a try, too.         *)
BugThroughputReached ==
  /\ Ended /\ call = "throughput" /\ Pattern = "fixed"
  /\ state' = "waitForLatency" /\ tryCount' = tryCount + 1
  /\ NewRound("measure")

ThroughputReached ==
  /\ Ended /\ call = "throughput" /\ Pattern = "fixed"
  /\ state' = "waitForLatency"
  /\ NewRound("measure")
  /\ UNCHANGED tryCount

(* The samples are correlated, or their confidence interval is too wide.   *)
LatencyWrong ==
  /\ Ended /\ call = "latency" /\ Pattern = "fixed"
  /\ Retry
  /\ UNCHANGED state

(* Everything is ok: the results are printed and the next turn returns.    *)
LatencyOk ==
  /\ Ended /\ call = "latency" /\ Pattern = "fixed"
  /\ state' = "exit"
  /\ Exit("done", "none")
  /\ UNCHANGED tryCount

Run == \/ Write \/ WriteError \/ WriteLost
       \/ Read \/ ReadClosed \/ ReadWait \/ ReadTimeout
       \/ NextCall \/ PrintResults

(* What the loop of a fixed pattern does with a report: FixedPattern has    *)
(* the data that decide it.                                                *)
FixedTurn == ThroughputWrong \/ ThroughputReached \/ LatencyWrong \/ LatencyOk

-----------------------------------------------------------------------------
(* An agent serves the next request and replies.                           *)
Serve(a) ==
  /\ up[a] /\ inq[a] # <<>>
  /\ LET req == Head(inq[a])
     IN  /\ inq' = [inq EXCEPT ![a] = Tail(@)]
         /\ outq' = [outq EXCEPT ![a] = Append(@, req)]
         /\ acted' = IF req = Request THEN acted \cup {a} ELSE acted
         /\ loaded' = IF req.call \in Loads THEN [loaded EXCEPT ![a] = req.round] ELSE loaded
         /\ measured' = IF req.call = "measure" THEN [measured EXCEPT ![a] = req.round]
                                                ELSE measured
  /\ UNCHANGED <<coordinator, up>>

(* An assertion fails in one of the agent's threads: the process aborts and *)
(* its connection is reset, with or without the reply on its way.          *)
Die(a) ==
  /\ up[a]
  /\ up' = [up EXCEPT ![a] = FALSE]
  /\ inq' = [inq EXCEPT ![a] = <<>>]
  /\ outq' \in {outq, [outq EXCEPT ![a] = <<>>]}
  /\ UNCHANGED <<coordinator, history>>

Over == outcome # "running" /\ UNCHANGED vars

Next == Run \/ Over \/ \E a \in Agents : Serve(a) \/ Die(a)

(* The step and test patterns. *)
Spec == Init /\ [][Next]_vars

(* Any pattern. *)
ProtocolNext == Next \/ FixedTurn
ProtocolSpec == Init /\ [][ProtocolNext]_vars

(* The coordinator is one thread that never blocks for longer than a        *)
(* deadline; nothing is assumed of the agents.                             *)
FairSpec == Spec /\ WF_vars(Run)

-----------------------------------------------------------------------------
Members(c) == Lo(c) .. Hi(c)

(* The round whose load the agents should be under.                        *)
LoadRound == IF Pattern = "fixed" THEN 1 ELSE round

(* The exchange with agent a in the call under way.  Asked: the request was *)
(* written, and the reply not read.                                        *)
Asked(a)    == (dir = "write" /\ a < at) \/ (dir = "read" /\ a >= at)
Answered(a) == dir = "end" \/ (dir = "read" /\ a < at)

Exchange(a) ==
  IF a \in Members(call) /\ Asked(a)
  THEN \/ inq[a] = <<Request>> /\ outq[a] = <<>> /\ a \notin acted
       \/ inq[a] = <<>> /\ outq[a] = <<Request>> /\ a \in acted
       \/ inq[a] = <<>> /\ outq[a] = <<>> /\ ~up[a]
  ELSE /\ inq[a] = <<>> /\ outq[a] = <<>>
       /\ a \in acted <=> a \in Members(call) /\ Answered(a)

(* What agent a has done once the coordinator is at a call.                *)
Progress(a) ==
  /\ \/ call \notin Loads
     \/ call = "load_lt" /\ a <= T
     \/ call \in Loads /\ a \in acted
     => loaded[a] = LoadRound
  /\ measured[a] <= round
  /\ call \in Loads => measured[a] < round
  /\ call = "measure" /\ a \in acted => measured[a] = round
  /\ call \in Reports => measured[a] = round

(* The agents whose statistics were read.                                  *)
Collected ==
  CASE call = "throughput" -> {a \in Members(call) : Answered(a)}
    [] call = "latency"    -> (1 .. T) \cup {a \in Members(call) : Answered(a)}
    [] OTHER               -> {}

(* The inductive invariant behind the barriers below: each call leaves      *)
(* every connection empty, so the calls cannot run into each other.         *)
CoordInv ==
  /\ TypeOK
  /\ dir # "end" => at \in Members(call)
  /\ Pattern = "fixed" /\ call \in Loads => round = 1
  /\ \A a \in Agents : Exchange(a) /\ Progress(a)
  /\ stats = Collected

(* A Read that returns finds the reply to the call under way, from an agent *)
(* that was asked, and nothing behind it: it may throw away what it does    *)
(* not parse, and it needs no number to tell the replies apart.            *)
NoStaleReply ==
  outcome = "running" =>
    \A a \in Agents : /\ Len(inq[a]) + Len(outq[a]) <= 1
                      /\ outq[a] # <<>> => /\ outq[a] = <<Request>>
                                           /\ a \in Members(call)

(* No agent measures before every agent has the load of the round.         *)
MeasureBarrier ==
  \A a \in Agents : measured[a] = round => \A b \in Agents : loaded[b] = LoadRound

(* No agent reports before every agent measures in the round: the windows   *)
(* that are reported together overlap.                                     *)
ReportBarrier ==
  call \in Reports /\ acted # {} => \A b \in Agents : measured[b] = round

(* The results of a round are those of all its agents.                     *)
ResultsComplete ==
  Ended /\ call = "latency" => stats = Agents /\ \A a \in Agents : measured[a] = round

(* An experiment ends, whatever its agents do.                             *)
Terminates == <>(outcome # "running")

(* The experiment proceeds in lockstep, from phase to phase of a round and   *)
(* then to the next round.                                                 *)
Within == {<<"load_th", "load_lt">>, <<"load_lt", "measure">>, <<"measure", "throughput">>,
           <<"measure", "latency">>, <<"throughput", "latency">>}
Across == {<<"latency", "load_th">>, <<"throughput", "measure">>, <<"latency", "measure">>}
Follow(p) ==
       {q \in [call : Calls, round : {p.round}]     : <<p.call, q.call>> \in Within}
  \cup {q \in [call : Calls, round : {p.round + 1}] : <<p.call, q.call>> \in Across}
MembersOf(p) == Members(p.call)
Steps == INSTANCE Lockstep
  WITH First <- [call |-> "load_th", round |-> 1],
       Members <- MembersOf, Follow <- Follow,
       phase <- Request, acted <- acted, over <- (outcome # "running")
ImplementsLockstep == Steps!Spec
=============================================================================
