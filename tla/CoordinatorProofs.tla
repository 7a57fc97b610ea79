------------------------- MODULE CoordinatorProofs -------------------------
(***************************************************************************)
(* Proofs about Coordinator for any number of agents, loads and tries, and *)
(* any deadlines: CoordInv is an invariant, the barriers follow from it,   *)
(* and every step is a step of Lockstep or leaves it as it is.             *)
(***************************************************************************)
EXTENDS Coordinator, TLAPS

LEMMA OneElement ==
  ASSUME NEW S, NEW x \in S
  PROVE  /\ Append(<<>>, x) = <<x>> /\ Head(<<x>>) = x /\ Tail(<<x>>) = <<>>
         /\ <<x>> # <<>> /\ <<x>> \in Seq(S) /\ <<>> \in Seq(S)
         /\ Len(<<>>) = 0 /\ Len(<<x>>) = 1
OBVIOUS

LEMMA EmptySeq == ASSUME NEW S PROVE <<>> \in Seq(S)
OBVIOUS

LEMMA MembersFacts ==
  ASSUME NEW c \in Calls
  PROVE  /\ Lo(c) \in Nat \ {0} /\ Hi(c) \in Nat /\ Hi(c) <= N
         /\ Members(c) \subseteq Agents
         /\ \A a \in Members(c) : Lo(c) <= a /\ a <= Hi(c)
BY CoordinatorAssumption DEF Lo, Hi, Members, Agents, Calls, Loads, Reports

LEMMA RequestType == TypeOK => Request \in Exchanges
BY DEF TypeOK, Request, Exchanges

LEMMA InitInv == Init => CoordInv
<1> SUFFICES ASSUME Init PROVE CoordInv
  OBVIOUS
<1>1. <<>> \in Seq(Exchanges)
  BY EmptySeq
<1>2. TypeOK
  BY <1>1, CoordinatorAssumption DEF Init, TypeOK, Calls, Loads, Reports
<1>3. /\ Members(call) = 1 .. T /\ call = "load_th" /\ at = 1
      /\ dir \in {"end", "write"} /\ (T = 0 => dir = "end") /\ T \in Nat
      /\ acted = {} /\ round = 1
  <2>1. /\ call = "load_th" /\ at = 1 /\ acted = {} /\ round = 1
        /\ dir \in {"end", "write"} /\ (T = 0 => dir = "end")
    BY DEF Init
  <2>2. Members("load_th") = 1 .. T
    BY DEF Members, Lo, Hi
  <2>3. T \in Nat
    BY CoordinatorAssumption
  <2> QED
    BY <2>1, <2>2, <2>3
<1>4. dir # "end" => at \in Members(call)
  <2>1. T # 0 => 1 \in 1 .. T
    BY <1>3
  <2> QED
    BY <1>3, <2>1
<1>5. ASSUME NEW a \in Agents PROVE Exchange(a) /\ Progress(a)
  <2>1. /\ inq[a] = <<>> /\ outq[a] = <<>> /\ loaded[a] = 0 /\ measured[a] = 0
    BY DEF Init
  <2>2. ~Asked(a) /\ (a \in Members(call) => ~Answered(a))
    <3>1. a \in Nat \ {0} /\ (T = 0 => Members(call) = {})
      BY <1>3, CoordinatorAssumption DEF Agents
    <3>2. dir = "write" \/ T = 0
      BY DEF Init
    <3> QED
      BY <1>3, <3>1, <3>2 DEF Asked, Answered
  <2>3. Exchange(a)
    BY <1>3, <2>1, <2>2 DEF Exchange
  <2>4. Progress(a)
    BY <1>3, <2>1, CoordinatorAssumption DEF Progress, Loads, Reports, Members, Agents
  <2> QED
    BY <2>3, <2>4
<1>6. stats = Collected
  BY <1>3 DEF Init, Collected
<1> QED
  BY <1>2, <1>3, <1>4, <1>5, <1>6 DEF CoordInv

-----------------------------------------------------------------------------
(* Steps that leave the call and its cursor where they are.                *)
LEMMA StayInv ==
  ASSUME CoordInv, TypeOK',
         UNCHANGED <<round, call, dir, at, stats, agents, history>>
  PROVE  CoordInv'
BY DEF CoordInv, Exchange, Progress, Collected, Members, Lo, Hi, Asked, Answered, Request,
       LoadRound, agents, history

LEMMA FailInv ==
  ASSUME CoordInv, NEW reason \in {"write", "reply", "closed", "ack_timeout", "stats_timeout"},
         Fail(reason)
  PROVE  CoordInv'
<1>1. TypeOK'
  BY DEF CoordInv, TypeOK, Fail, agents, history
<1> QED
  BY <1>1, StayInv DEF Fail

(* The cursor moves past an agent to whom the request was written.          *)
LEMMA WriteInv ==
  ASSUME CoordInv, Write \/ WriteLost
  PROVE  CoordInv'
<1> USE DEF Writing, Agents
<1>1. /\ TypeOK /\ call \in Calls /\ at \in Members(call) /\ dir = "write"
      /\ at \in Agents /\ Request \in Exchanges
      /\ \A a \in Agents : Exchange(a) /\ Progress(a)
      /\ stats = Collected
  BY MembersFacts, RequestType DEF CoordInv, TypeOK, Write, WriteLost
<1>2. /\ Lo(call) \in Nat \ {0} /\ Hi(call) \in Nat /\ Lo(call) <= at /\ at <= Hi(call)
      /\ Members(call) = Lo(call) .. Hi(call) /\ Members(call) \subseteq Agents
      /\ at \in Nat
  BY <1>1, MembersFacts DEF Members
<1>3. /\ UNCHANGED <<round, call, stats, up, outq, acted, loaded, measured>>
      /\ UNCHANGED <<outcome, why, waited, state, tryCount>> /\ Written
      /\ inq' = inq \/ inq' = [inq EXCEPT ![at] = Append(inq[at], Request)]
  BY DEF Write, WriteLost, agents, history
<1>4. inq[at] = <<>> /\ outq[at] = <<>> /\ at \notin acted
  <2>1. ~Asked(at) /\ ~Answered(at)
    BY <1>1, <1>2 DEF Asked, Answered
  <2> QED
    BY <1>1, <2>1 DEF Exchange
<1>5. \/ inq' = [inq EXCEPT ![at] = <<Request>>]
      \/ inq' = inq /\ ~up[at]
  BY <1>1, <1>3, <1>4, OneElement DEF Write, WriteLost
<1>6. inq \in [Agents -> Seq(Exchanges)] /\ <<Request>> \in Seq(Exchanges)
  BY <1>1, OneElement DEF TypeOK
<1>7. /\ dir' \in {"write", "read"} /\ at' \in Members(call)
      /\ \A a \in Members(call) : ~Answered(a)' /\ (Asked(a)' <=> Asked(a) \/ a = at)
  <2>1. CASE at = Hi(call)
    <3>1. dir' = "read" /\ at' = Lo(call)
      BY <1>3, <2>1 DEF Written
    <3> QED
      BY <1>1, <1>2, <2>1, <3>1 DEF Asked, Answered
  <2>2. CASE at # Hi(call)
    <3>1. dir' = "write" /\ at' = at + 1
      BY <1>1, <1>3, <2>2 DEF Written
    <3> QED
      BY <1>1, <1>2, <2>2, <3>1 DEF Asked, Answered
  <2> QED
    BY <2>1, <2>2
<1>8. TypeOK'
  <2>1. inq' \in [Agents -> Seq(Exchanges)]
    BY <1>5, <1>6
  <2>2. at' \in Nat
    BY <1>2, <1>7
  <2> QED
    BY <1>1, <1>3, <1>7, <2>1, <2>2 DEF TypeOK
<1>9. ASSUME NEW a \in Agents PROVE Exchange(a)'
  <2>1. Request' = Request /\ Members(call)' = Members(call)
    BY <1>3 DEF Request, Members, Lo, Hi
  <2>2. CASE a = at
    <3>1. \/ inq'[a] = <<Request>>
          \/ inq'[a] = <<>> /\ ~up[a]
      BY <1>4, <1>5, <1>6, <2>2
    <3>2. Asked(a)' /\ a \in Members(call)
      BY <1>1, <1>7, <2>2
    <3> QED
      BY <1>3, <1>4, <2>1, <2>2, <3>1, <3>2 DEF Exchange
  <2>3. CASE a # at
    <3>1. inq'[a] = inq[a]
      BY <1>5, <1>6, <2>3
    <3>2. a \in Members(call) => (Asked(a)' <=> Asked(a)) /\ ~Answered(a)' /\ ~Answered(a)
      BY <1>1, <1>7, <2>3 DEF Answered
    <3> QED
      BY <1>1, <1>3, <2>1, <3>1, <3>2 DEF Exchange
  <2> QED
    BY <2>2, <2>3
<1>10. ASSUME NEW a \in Agents PROVE Progress(a)'
  BY <1>1, <1>3 DEF Progress, LoadRound
<1>11. stats' = Collected'
  <2>1. {a \in Members(call) : Answered(a)} = {} /\ {a \in Members(call) : Answered(a)'} = {}
    BY <1>1, <1>7 DEF Answered
  <2> QED
    BY <1>1, <1>3, <2>1 DEF Collected, Members, Lo, Hi
<1> QED
  BY <1>3, <1>7, <1>8, <1>9, <1>10, <1>11 DEF CoordInv, Members, Lo, Hi

(* A read finds the reply to the call, and the cursor moves past the agent. *)
LEMMA ReadInv ==
  ASSUME CoordInv, Read
  PROVE  CoordInv'
<1> USE DEF Reading, Agents
<1>1. /\ TypeOK /\ call \in Calls /\ at \in Members(call) /\ dir = "read"
      /\ at \in Agents /\ Request \in Exchanges /\ outq[at] # <<>>
      /\ \A a \in Agents : Exchange(a) /\ Progress(a)
      /\ stats = Collected
  BY MembersFacts, RequestType DEF CoordInv, TypeOK, Read
<1>2. /\ Lo(call) \in Nat \ {0} /\ Hi(call) \in Nat /\ Lo(call) <= at /\ at <= Hi(call)
      /\ Members(call) = Lo(call) .. Hi(call) /\ Members(call) \subseteq Agents
      /\ at \in Nat
  BY <1>1, MembersFacts DEF Members
<1>3. inq[at] = <<>> /\ outq[at] = <<Request>> /\ at \in acted
  BY <1>1, <1>2 DEF Exchange, Asked
<1>4. Answers(Head(outq[at]))
  BY <1>1, <1>3, OneElement DEF Answers, Request
<1>5. /\ outq' = [outq EXCEPT ![at] = <<>>]
      /\ stats' = IF call \in Reports THEN stats \cup {at} ELSE stats
      /\ IF at = Hi(call) THEN dir' = "end" /\ at' = at ELSE dir' = dir /\ at' = at + 1
      /\ waited' = 0
      /\ UNCHANGED <<outcome, why, round, call, state, tryCount, up, inq, acted, loaded,
                     measured>>
  BY <1>4 DEF Read, history
<1>6. outq \in [Agents -> Seq(Exchanges)] /\ <<>> \in Seq(Exchanges)
  BY <1>1, EmptySeq DEF TypeOK
<1>7. /\ dir' \in {"read", "end"} /\ at' \in Nat
      /\ dir' = "read" => at' \in Members(call)
      /\ \A a \in Members(call) : /\ Answered(a)' <=> Answered(a) \/ a = at
                                  /\ Asked(a)' <=> Asked(a) /\ a # at
  <2>1. CASE at = Hi(call)
    <3>1. dir' = "end" /\ at' = at
      BY <1>5, <2>1
    <3> QED
      BY <1>1, <1>2, <2>1, <3>1 DEF Asked, Answered
  <2>2. CASE at # Hi(call)
    <3>1. dir' = "read" /\ at' = at + 1
      BY <1>1, <1>5, <2>2
    <3> QED
      BY <1>1, <1>2, <2>2, <3>1 DEF Asked, Answered
  <2> QED
    BY <2>1, <2>2
<1>8. TypeOK'
  <2>1. outq' \in [Agents -> Seq(Exchanges)]
    BY <1>5, <1>6
  <2>2. stats' \subseteq Agents
    BY <1>1, <1>5 DEF TypeOK
  <2> QED
    BY <1>1, <1>5, <1>7, <2>1, <2>2 DEF TypeOK
<1>9. ASSUME NEW a \in Agents PROVE Exchange(a)'
  <2>1. Request' = Request /\ Members(call)' = Members(call)
    BY <1>5 DEF Request, Members, Lo, Hi
  <2>2. CASE a = at
    <3>1. outq'[a] = <<>> /\ ~Asked(a)' /\ Answered(a)'
      BY <1>1, <1>5, <1>6, <1>7, <2>2
    <3> QED
      BY <1>1, <1>3, <1>5, <2>1, <2>2, <3>1 DEF Exchange
  <2>3. CASE a # at
    <3>1. outq'[a] = outq[a]
      BY <1>5, <1>6, <2>3
    <3>2. a \in Members(call) => (Asked(a)' <=> Asked(a)) /\ (Answered(a)' <=> Answered(a))
      BY <1>7, <2>3
    <3> QED
      BY <1>1, <1>5, <2>1, <3>1, <3>2 DEF Exchange
  <2> QED
    BY <2>2, <2>3
<1>10. ASSUME NEW a \in Agents PROVE Progress(a)'
  BY <1>1, <1>5 DEF Progress, LoadRound
<1>11. stats' = Collected'
  <2>1. {a \in Members(call) : Answered(a)'} = {a \in Members(call) : Answered(a)} \cup {at}
    BY <1>1, <1>7
  <2> QED
    BY <1>1, <1>5, <2>1 DEF Collected, Members, Lo, Hi, Reports
<1> QED
  BY <1>5, <1>7, <1>8, <1>9, <1>10, <1>11 DEF CoordInv, Members, Lo, Hi

-----------------------------------------------------------------------------
(* The end of a call: every agent it went to has acted, and every connection *)
(* is empty.                                                               *)
LEMMA EndedFacts ==
  ASSUME CoordInv, Ended
  PROVE  /\ acted = Members(call)
         /\ \A a \in Agents : inq[a] = <<>> /\ outq[a] = <<>>
<1>1. ASSUME NEW a \in Agents
      PROVE  /\ inq[a] = <<>> /\ outq[a] = <<>>
             /\ a \in acted <=> a \in Members(call)
  BY <1>1 DEF CoordInv, Ended, Exchange, Asked, Answered
<1>2. acted \subseteq Agents /\ Members(call) \subseteq Agents
  BY MembersFacts DEF CoordInv, TypeOK
<1> QED
  BY <1>1, <1>2

(* What the agents have done when a call has ended.                        *)
LEMMA EndedProgress ==
  ASSUME CoordInv, Ended, NEW a \in Agents
  PROVE  /\ measured[a] \in Nat /\ measured[a] <= round
         /\ call = "load_th" /\ a <= T => loaded[a] = LoadRound
         /\ call \in Calls \ {"load_th"} => loaded[a] = LoadRound
         /\ call \in Loads => measured[a] < round
         /\ call \notin Loads => measured[a] = round
<1>1. acted = Members(call) /\ Progress(a) /\ a \in 1 .. N
      /\ measured[a] \in Nat /\ call \in Calls
  BY EndedFacts DEF CoordInv, TypeOK, Agents
<1>2. /\ a \in Members("load_th") <=> a <= T
      /\ a \in Members("load_lt") <=> ~(a <= T)
      /\ a \in Members("measure")
  BY <1>1, CoordinatorAssumption DEF Members, Lo, Hi
<1> QED
  BY <1>1, <1>2 DEF Progress, Loads, Reports, Calls

(* A new call, in the same round or the next: r is the round, s the agents  *)
(* whose statistics of that round have been read.                          *)
LEMMA BeginInv ==
  ASSUME CoordInv, Ended, NEW c \in Calls, Begin(c), TypeOK',
         Pattern = "fixed" /\ c \in Loads => round' = 1,
         \A a \in Agents :
           /\ measured[a] <= round'
           /\ c \in Loads => measured[a] < round'
           /\ c \notin Loads \/ (c = "load_lt" /\ a <= T) => loaded[a] = LoadRound'
           /\ c \in Reports => measured[a] = round',
         stats' = IF c = "latency" THEN 1 .. T ELSE {}
  PROVE  CoordInv'
<1>1. /\ call' = c /\ at' = Lo(c) /\ acted' = {}
      /\ dir' = IF Lo(c) > Hi(c) THEN "end" ELSE "write"
      /\ UNCHANGED <<inq, outq, up, loaded, measured>>
  BY DEF Begin, agents
<1>2. /\ Lo(c) \in Nat \ {0} /\ Hi(c) \in Nat /\ Members(c) = Lo(c) .. Hi(c)
      /\ Members(call)' = Members(c)
  BY <1>1, MembersFacts DEF Members, Lo, Hi
<1>3. dir' # "end" => at' \in Members(call)'
  BY <1>1, <1>2
<1>4. \A a \in Members(c) : ~Asked(a)' /\ ~Answered(a)'
  BY <1>1, <1>2 DEF Asked, Answered
<1>5. ASSUME NEW a \in Agents PROVE Exchange(a)' /\ Progress(a)'
  <2>1. inq'[a] = <<>> /\ outq'[a] = <<>>
    BY <1>1, EndedFacts
  <2>2. Exchange(a)'
    BY <1>1, <1>2, <1>4, <2>1 DEF Exchange
  <2>3. Progress(a)'
    BY <1>1, <1>5 DEF Progress, Loads, Reports
  <2> QED
    BY <2>2, <2>3
<1>6. stats' = Collected'
  <2>1. {a \in Members(call)' : Answered(a)'} = {}
    BY <1>2, <1>4
  <2> QED
    BY <1>1, <2>1 DEF Collected
<1> QED
  BY <1>1, <1>3, <1>5, <1>6 DEF CoordInv

-----------------------------------------------------------------------------
LEMMA NextCallInv ==
  ASSUME CoordInv, NextCall
  PROVE  CoordInv'
<1> DEFINE Moves(c) ==
      \/ call = "load_th" /\ c = "load_lt"
      \/ call = "load_lt" /\ c = "measure"
      \/ call = "measure" /\ c = AfterMeasure
      \/ call = "throughput" /\ Pattern # "fixed" /\ c = "latency"
<1>1. PICK c \in Calls : Moves(c) /\ Begin(c)
  BY DEF NextCall, AfterMeasure, Calls, Loads, Reports
<1>2. Ended /\ UNCHANGED <<round, stats, state, tryCount>>
  BY DEF NextCall
<1>3. TypeOK'
  BY <1>1, <1>2, MembersFacts DEF CoordInv, TypeOK, Begin, agents
<1>4. LoadRound' = LoadRound
  BY <1>2 DEF LoadRound
<1>5. ASSUME NEW a \in Agents
      PROVE  /\ measured[a] <= round
             /\ c \in Loads => measured[a] < round
             /\ c \notin Loads \/ (c = "load_lt" /\ a <= T) => loaded[a] = LoadRound
             /\ c \in Reports => measured[a] = round
  BY <1>1, <1>2, EndedProgress DEF AfterMeasure, Calls, Loads, Reports
<1>6. stats = IF c = "latency" THEN 1 .. T ELSE {}
  <2>1. stats = Collected /\ (Pattern = "fixed" => T = 0)
    BY CoordinatorAssumption DEF CoordInv
  <2>2. CASE call = "throughput"
    <3>1. Members(call) = 1 .. T /\ \A a \in Members(call) : Answered(a)
      BY <1>1, <1>2, <2>2 DEF Members, Lo, Hi, Answered, Ended
    <3>2. stats = 1 .. T
      BY <2>1, <2>2, <3>1 DEF Collected
    <3> QED
      BY <1>1, <2>2, <3>2
  <2>3. CASE call # "throughput"
    <3>1. stats = {} /\ (c = "latency" => T = 0)
      BY <1>1, <2>1, <2>3 DEF Collected, AfterMeasure
    <3> QED
      BY <3>1
  <2> QED
    BY <2>2, <2>3
<1>7. Pattern = "fixed" /\ c \in Loads => round' = 1
  BY <1>1, <1>2 DEF CoordInv, Loads, Reports, AfterMeasure
<1> QED
  BY <1>1, <1>2, <1>3, <1>4, <1>5, <1>6, <1>7, BeginInv

(* A new round starts with a load, or, in a fixed pattern, with a           *)
(* measurement under the load that there is.                               *)
LEMMA NewRoundInv ==
  ASSUME CoordInv, Ended, call \in Reports, NEW c \in {"load_th", "measure"},
         c = "measure" <=> Pattern = "fixed",
         NewRound(c), TypeOK'
  PROVE  CoordInv'
<1>1. round' = round + 1 /\ stats' = {} /\ Begin(c) /\ round \in Nat
  BY DEF NewRound, CoordInv, TypeOK
<1>2. UNCHANGED <<loaded, measured>>
  BY <1>1 DEF Begin
<1>3. c = "measure" => LoadRound' = LoadRound
  BY DEF LoadRound
<1>4. ASSUME NEW a \in Agents
      PROVE  /\ measured[a] < round' /\ measured[a] <= round'
             /\ c = "measure" => loaded[a] = LoadRound'
  BY <1>1, <1>3, EndedProgress DEF Loads, Reports, Calls
<1>5. /\ c \in Calls /\ c \notin Reports /\ c # "latency" /\ c # "load_lt"
      /\ c \notin Loads <=> c = "measure"
  BY DEF Calls, Loads, Reports
<1> QED
  BY <1>1, <1>4, <1>5, BeginInv

LEMMA RoundInv ==
  ASSUME CoordInv,
         PrintResults \/ ThroughputWrong \/ ThroughputReached \/ LatencyWrong \/ LatencyOk
  PROVE  CoordInv'
<1>1. TypeOK /\ Ended /\ call \in Reports
  BY DEF CoordInv, PrintResults, ThroughputWrong, ThroughputReached, LatencyWrong, LatencyOk,
         Reports
<1>2. \/ \E result \in {"done", "failed"}, reason \in {"none", "tries"} : Exit(result, reason)
      \/ NewRound("load_th") /\ Pattern # "fixed"
      \/ NewRound("measure") /\ Pattern = "fixed"
  BY DEF PrintResults, ThroughputWrong, ThroughputReached, LatencyWrong, LatencyOk, Retry
<1>3. /\ state' \in {"waitForThroughput", "waitForLatency", "exit"}
      /\ tryCount' \in Nat
  <2>3. state \in {"waitForThroughput", "waitForLatency", "exit"} /\ tryCount \in Nat
    BY <1>1 DEF TypeOK
  <2>1. /\ state \in {"waitForThroughput", "waitForLatency", "exit"}
        /\ tryCount \in Nat /\ tryCount + 1 \in Nat
    BY <2>3
  <2>2. state' \in {state, "waitForLatency", "exit"} /\ tryCount' \in {tryCount, tryCount + 1}
    BY DEF PrintResults, ThroughputWrong, ThroughputReached, LatencyWrong, LatencyOk, Retry
  <2> QED
    BY <2>1, <2>2
<1>4. ASSUME NEW result \in {"done", "failed"}, NEW reason \in {"none", "tries"},
             Exit(result, reason)
      PROVE  CoordInv'
  <2>1. TypeOK'
    BY <1>1, <1>3, <1>4 DEF Exit, TypeOK, agents, history
  <2> QED
    BY <1>4, <2>1, StayInv DEF Exit
<1>5. ASSUME NEW c \in {"load_th", "measure"}, c = "measure" <=> Pattern = "fixed",
             NewRound(c)
      PROVE  CoordInv'
  <2>1. c \in Calls
    BY DEF Calls, Loads, Reports
  <2>2. TypeOK'
    <3>1. /\ round' = round + 1 /\ stats' = {} /\ call' = c /\ at' = Lo(c) /\ waited' = 0
          /\ dir' \in {"end", "write"} /\ acted' = {}
          /\ UNCHANGED <<outcome, why, up, inq, outq, loaded, measured>>
      BY <1>5 DEF NewRound, Begin, agents
    <3>2. Lo(c) \in Nat
      BY <2>1, MembersFacts
    <3>3. round \in Nat
      BY <1>1 DEF TypeOK
    <3>4. /\ round' \in Nat /\ call' \in Calls /\ at' \in Nat /\ waited' \in Nat
          /\ dir' \in {"end", "write", "read"} /\ stats' \subseteq Agents /\ acted' \subseteq Agents
      BY <2>1, <3>1, <3>2, <3>3
    <3> QED
      BY <1>1, <1>3, <3>1, <3>4 DEF TypeOK
  <2> QED
    BY <1>1, <1>5, <2>2, NewRoundInv
<1> QED
  BY <1>2, <1>4, <1>5

-----------------------------------------------------------------------------
(* An agent serves the request that is at the head of its connection, which *)
(* is the request of the call under way.                                   *)
LEMMA ServeInv ==
  ASSUME CoordInv, NEW s \in Agents, Serve(s)
  PROVE  CoordInv'
<1>1. /\ TypeOK /\ Request \in Exchanges /\ call \in Calls
      /\ \A a \in Agents : Exchange(a) /\ Progress(a)
  BY RequestType DEF CoordInv, TypeOK
<1>2. /\ s \in Members(call) /\ Asked(s) /\ s \notin acted
      /\ inq[s] = <<Request>> /\ outq[s] = <<>>
  BY <1>1 DEF Serve, Exchange
<1>3. Head(inq[s]) = Request /\ Tail(inq[s]) = <<>> /\ Append(outq[s], Request) = <<Request>>
  BY <1>1, <1>2, OneElement
<1>11. Request.call = call /\ Request.round = round
  BY DEF Request
<1>12. /\ inq' = [inq EXCEPT ![s] = Tail(inq[s])]
       /\ outq' = [outq EXCEPT ![s] = Append(outq[s], Head(inq[s]))]
       /\ acted' = (IF Head(inq[s]) = Request THEN acted \cup {s} ELSE acted)
       /\ loaded' = (IF Head(inq[s]).call \in Loads
                     THEN [loaded EXCEPT ![s] = Head(inq[s]).round] ELSE loaded)
       /\ measured' = (IF Head(inq[s]).call = "measure"
                       THEN [measured EXCEPT ![s] = Head(inq[s]).round] ELSE measured)
       /\ UNCHANGED <<coordinator, up>>
  BY DEF Serve
<1>4. /\ inq' = [inq EXCEPT ![s] = <<>>]
      /\ outq' = [outq EXCEPT ![s] = <<Request>>]
      /\ acted' = acted \cup {s}
      /\ loaded' = IF call \in Loads THEN [loaded EXCEPT ![s] = round] ELSE loaded
      /\ measured' = IF call = "measure" THEN [measured EXCEPT ![s] = round] ELSE measured
      /\ UNCHANGED <<coordinator, up>>
  BY <1>3, <1>11, <1>12
<1>5. /\ inq \in [Agents -> Seq(Exchanges)] /\ outq \in [Agents -> Seq(Exchanges)]
      /\ <<>> \in Seq(Exchanges) /\ <<Request>> \in Seq(Exchanges)
      /\ loaded \in [Agents -> Nat] /\ measured \in [Agents -> Nat] /\ round \in Nat
  BY <1>1, OneElement DEF TypeOK
<1>6. TypeOK'
  <2>1. /\ inq' \in [Agents -> Seq(Exchanges)] /\ outq' \in [Agents -> Seq(Exchanges)]
        /\ loaded' \in [Agents -> Nat] /\ measured' \in [Agents -> Nat]
        /\ acted' \subseteq Agents
    BY <1>1, <1>4, <1>5 DEF TypeOK
  <2> QED
    BY <1>1, <1>4, <2>1 DEF TypeOK, coordinator
<1>7. ASSUME NEW a \in Agents PROVE Exchange(a)'
  <2>1. /\ Request' = Request /\ Members(call)' = Members(call)
        /\ Asked(a)' = Asked(a) /\ Answered(a)' = Answered(a)
    BY <1>4 DEF Request, Members, Lo, Hi, Asked, Answered, coordinator
  <2>2. CASE a = s
    <3>1. inq'[a] = <<>> /\ outq'[a] = <<Request>> /\ a \in acted'
      BY <1>4, <1>5, <2>2
    <3> QED
      BY <1>2, <2>1, <2>2, <3>1 DEF Exchange
  <2>3. CASE a # s
    <3>1. inq'[a] = inq[a] /\ outq'[a] = outq[a] /\ (a \in acted' <=> a \in acted)
      BY <1>4, <1>5, <2>3
    <3> QED
      BY <1>1, <1>4, <2>1, <3>1 DEF Exchange
  <2> QED
    BY <2>2, <2>3
<1>8. call \in Loads => round = LoadRound
  BY DEF CoordInv, LoadRound
<1>9. ASSUME NEW a \in Agents PROVE Progress(a)'
  <2>1. LoadRound' = LoadRound /\ UNCHANGED <<call, round>>
    BY <1>4 DEF LoadRound, coordinator
  <2>2. /\ call \in Loads => loaded'[a] = IF a = s THEN round ELSE loaded[a]
        /\ call \notin Loads => loaded'[a] = loaded[a]
        /\ call = "measure" => measured'[a] = IF a = s THEN round ELSE measured[a]
        /\ call # "measure" => measured'[a] = measured[a]
        /\ a # s => (a \in acted' <=> a \in acted)
    BY <1>4, <1>5
  <2>3. CASE a = s
    <3>1. Progress(a) /\ round <= round
      BY <1>1, <1>5
    <3> QED
      BY <1>1, <1>8, <2>1, <2>2, <2>3, <3>1 DEF Progress, Loads, Reports, Calls
  <2>4. CASE a # s
    BY <1>1, <2>1, <2>2, <2>4 DEF Progress, Loads, Reports
  <2> QED
    BY <2>3, <2>4
<1>10. stats' = Collected'
  BY <1>4 DEF CoordInv, Collected, Members, Lo, Hi, Answered, coordinator
<1> QED
  BY <1>4, <1>6, <1>7, <1>9, <1>10 DEF CoordInv, Members, Lo, Hi, coordinator

LEMMA DieInv ==
  ASSUME CoordInv, NEW s \in Agents, Die(s)
  PROVE  CoordInv'
<1>1. /\ TypeOK /\ \A a \in Agents : Exchange(a) /\ Progress(a)
      /\ up \in [Agents -> BOOLEAN] /\ <<>> \in Seq(Exchanges)
      /\ inq \in [Agents -> Seq(Exchanges)] /\ outq \in [Agents -> Seq(Exchanges)]
  BY EmptySeq DEF CoordInv, TypeOK
<1>2. /\ up' = [up EXCEPT ![s] = FALSE] /\ inq' = [inq EXCEPT ![s] = <<>>]
      /\ outq' = outq \/ outq' = [outq EXCEPT ![s] = <<>>]
      /\ UNCHANGED <<coordinator, history>>
  BY DEF Die
<1>3. TypeOK'
  <2>1. /\ inq' \in [Agents -> Seq(Exchanges)] /\ outq' \in [Agents -> Seq(Exchanges)]
        /\ up' \in [Agents -> BOOLEAN]
    BY <1>1, <1>2
  <2> QED
    BY <1>1, <1>2, <2>1 DEF TypeOK, coordinator, history
<1>4. ASSUME NEW a \in Agents PROVE Exchange(a)' /\ Progress(a)'
  <2>1. /\ Request' = Request /\ Members(call)' = Members(call) /\ acted' = acted
        /\ Asked(a)' = Asked(a) /\ Answered(a)' = Answered(a)
    BY <1>2 DEF Request, Members, Lo, Hi, Asked, Answered, coordinator, history
  <2>2. CASE a = s
    <3>1. inq'[a] = <<>> /\ ~up'[a] /\ outq'[a] \in {outq[a], <<>>}
      BY <1>1, <1>2, <2>2
    <3>2. Exchange(a)'
      BY <1>1, <2>1, <3>1 DEF Exchange
    <3> QED
      BY <1>1, <1>2, <3>2 DEF Progress, LoadRound, coordinator, history
  <2>3. CASE a # s
    <3>1. inq'[a] = inq[a] /\ up'[a] = up[a] /\ outq'[a] = outq[a]
      BY <1>1, <1>2, <2>3
    <3>2. Exchange(a)'
      BY <1>1, <2>1, <3>1 DEF Exchange
    <3> QED
      BY <1>1, <1>2, <3>2 DEF Progress, LoadRound, coordinator, history
  <2> QED
    BY <2>2, <2>3
<1>5. stats' = Collected'
  BY <1>2 DEF CoordInv, Collected, Members, Lo, Hi, Answered, coordinator
<1> QED
  BY <1>2, <1>3, <1>4, <1>5 DEF CoordInv, Members, Lo, Hi, coordinator

LEMMA NextInv ==
  ASSUME CoordInv, [ProtocolNext]_vars
  PROVE  CoordInv'
<1>1. CASE UNCHANGED vars
  <2>1. TypeOK'
    BY <1>1 DEF CoordInv, TypeOK, vars, coordinator, agents, history
  <2> QED
    BY <1>1, <2>1, StayInv DEF vars, coordinator
<1>2. CASE WriteError \/ ReadClosed \/ ReadTimeout
  BY <1>2, FailInv DEF WriteError, ReadClosed, ReadTimeout
<1>3. CASE ReadWait
  <2>2. TypeOK /\ waited' = waited + 1
        /\ UNCHANGED <<outcome, why, round, call, dir, at, stats, state, tryCount>>
        /\ UNCHANGED <<up, inq, outq, acted, loaded, measured>>
    BY <1>3 DEF ReadWait, CoordInv, agents, history
  <2>3. waited \in Nat
    BY <2>2 DEF TypeOK
  <2>4. waited' \in Nat
    BY <2>2, <2>3
  <2>1. TypeOK'
    BY <2>2, <2>4 DEF TypeOK
  <2> QED
    BY <1>3, <2>1, StayInv DEF ReadWait
<1> QED
  BY <1>1, <1>2, <1>3, WriteInv, ReadInv, NextCallInv, RoundInv, ServeInv, DieInv
  DEF ProtocolNext, FixedTurn, Next, Run, Over

(* Whatever the agents do and however late they are, every call of the     *)
(* coordinator leaves the connections empty and the agents at the same     *)
(* point of the experiment.                                                *)
THEOREM CoordinatorInvariant == ProtocolSpec => []CoordInv
BY InitInv, NextInv, PTL DEF ProtocolSpec

(* Step and test patterns are experiments of this protocol, and so is the   *)
(* fixed pattern (FixedPatternProofs).                                     *)
THEOREM PatternsFollowProtocol == Spec => ProtocolSpec
<1>1. [Next]_vars => [ProtocolNext]_vars
  BY DEF ProtocolNext
<1> QED
  BY <1>1, PTL DEF Spec, ProtocolSpec

(* A read finds the reply to the call under way, from an agent that was     *)
(* asked, and nothing behind it.                                           *)
THEOREM NoReplyIsStale == ProtocolSpec => []NoStaleReply
<1>1. ASSUME CoordInv PROVE NoStaleReply
  <2>1. ASSUME NEW a \in Agents
        PROVE  /\ Len(inq[a]) + Len(outq[a]) <= 1
               /\ outq[a] # <<>> => outq[a] = <<Request>> /\ a \in Members(call)
    <3>1. Request \in Exchanges /\ Exchange(a)
      BY <1>1, RequestType DEF CoordInv
    <3>2. /\ inq[a] \in {<<>>, <<Request>>} /\ outq[a] \in {<<>>, <<Request>>}
          /\ inq[a] = <<>> \/ outq[a] = <<>>
          /\ outq[a] # <<>> => a \in Members(call)
      BY <3>1 DEF Exchange
    <3>3. Len(<<>>) = 0 /\ Len(<<Request>>) = 1
      BY <3>1, OneElement
    <3>4. Len(inq[a]) \in {0, 1} /\ Len(outq[a]) \in {0, 1}
      BY <3>2, <3>3
    <3>5. Len(inq[a]) = 0 \/ Len(outq[a]) = 0
      BY <3>2, <3>3
    <3>8. \A x, y \in {0, 1} : x = 0 \/ y = 0 => x + y <= 1
      OBVIOUS
    <3>6. Len(inq[a]) + Len(outq[a]) <= 1
      BY <3>4, <3>5, <3>8, Zenon
    <3>7. outq[a] # <<>> => outq[a] = <<Request>> /\ a \in Members(call)
      BY <3>2
    <3> QED
      BY <3>6, <3>7
  <2> QED
    BY <2>1 DEF NoStaleReply
<1> QED
  BY <1>1, CoordinatorInvariant, PTL

(* No agent measures before all agents have the load of the round, whatever *)
(* is slow or dies.                                                        *)
THEOREM MeasureTogether == ProtocolSpec => []MeasureBarrier
<1>1. ASSUME CoordInv PROVE MeasureBarrier
  <2>1. ASSUME NEW a \in Agents, measured[a] = round, NEW b \in Agents
        PROVE  loaded[b] = LoadRound
    <3>1. Progress(a) /\ Progress(b) /\ round \in Nat
      BY <1>1 DEF CoordInv, TypeOK
    <3>2. call \notin Loads
      BY <2>1, <3>1 DEF Progress
    <3> QED
      BY <3>1, <3>2 DEF Progress
  <2> QED
    BY <2>1 DEF MeasureBarrier
<1> QED
  BY <1>1, CoordinatorInvariant, PTL

(* No agent is asked for its results before all agents measure in the round. *)
THEOREM ReportTogether == ProtocolSpec => []ReportBarrier
<1>1. CoordInv => ReportBarrier
  BY DEF CoordInv, ReportBarrier, Progress
<1> QED
  BY <1>1, CoordinatorInvariant, PTL

(* What is printed for a round are the results of all agents, each of which *)
(* measured in that round.                                                 *)
THEOREM ResultsOfAllAgents == ProtocolSpec => []ResultsComplete
<1>1. ASSUME CoordInv PROVE ResultsComplete
  <2>1. ASSUME Ended, call = "latency"
        PROVE  stats = Agents /\ \A a \in Agents : measured[a] = round
    <3>1. \A a \in Agents : measured[a] = round
      BY <1>1, <2>1 DEF CoordInv, Progress, Reports
    <3>2. Members(call) = (T + 1) .. N /\ \A a \in Members(call) : Answered(a)
      BY <2>1 DEF Members, Lo, Hi, Answered, Ended
    <3>3. stats = (1 .. T) \cup ((T + 1) .. N)
      BY <1>1, <2>1, <3>2 DEF CoordInv, Collected
    <3> QED
      BY <3>1, <3>3, CoordinatorAssumption DEF Agents
  <2> QED
    BY <2>1 DEF ResultsComplete
<1> QED
  BY <1>1, CoordinatorInvariant, PTL

-----------------------------------------------------------------------------
(* Every experiment proceeds in lockstep: a request served is an agent's    *)
(* act, the next call begins when all have acted, and all else stutters.    *)
THEOREM CoordinatorIsLockstep == ProtocolSpec => ImplementsLockstep
<1> DEFINE AbsVars == <<Request, acted, outcome # "running">>
<1>1. ASSUME Init PROVE Steps!Init
  BY <1>1 DEF Init, Steps!Init, Request
<1>2. ASSUME CoordInv, [ProtocolNext]_vars
      PROVE  Steps!Next \/ UNCHANGED AbsVars
  <2>1. CASE \E s \in Agents : Serve(s)
    <3>1. PICK s \in Agents : Serve(s)
      BY <2>1
    <3>2. Exchange(s) /\ call \in Calls /\ Request \in Exchanges
      BY <1>2, RequestType DEF CoordInv, TypeOK
    <3>3. s \in Members(call) /\ s \notin acted /\ inq[s] = <<Request>>
      BY <3>1, <3>2 DEF Serve, Exchange
    <3>4. Head(inq[s]) = Request
      BY <3>2, <3>3, OneElement
    <3>5. acted' = acted \cup {s} /\ UNCHANGED <<call, round, outcome>>
      BY <3>1, <3>4 DEF Serve, coordinator
    <3>6. MembersOf(Request) = Members(call) /\ Request' = Request
      BY <3>5 DEF MembersOf, Request
    <3>7. Steps!Act(s)
      BY <3>3, <3>5, <3>6 DEF Steps!Act
    <3> QED
      BY <3>3, <3>6, <3>7 DEF Steps!Next
  <2>2. ASSUME Ended, NEW c \in Calls, Begin(c),
               \/ <<call, c>> \in Within /\ round' = round
               \/ <<call, c>> \in Across /\ round' = round + 1
        PROVE  Steps!Next
    <3>1. acted = Members(call) /\ MembersOf(Request) = Members(call)
      BY <1>2, <2>2, EndedFacts DEF MembersOf, Request
    <3>2. outcome = "running" /\ UNCHANGED outcome /\ acted' = {}
      BY <2>2 DEF Ended, Begin
    <3>3. Request' \in Follow(Request)
      BY <2>2 DEF Request, Follow, Begin
    <3> QED
      BY <3>1, <3>2, <3>3 DEF Steps!Next, Steps!Advance
  <2>3. ASSUME outcome' # "running", UNCHANGED <<call, round, acted>>
        PROVE  Steps!Next
    BY <2>3 DEF Steps!Next, Steps!Finish, Request
  <2>4. CASE NextCall
    <3>1. PICK c \in Calls : <<call, c>> \in Within /\ Begin(c)
      BY <2>4 DEF NextCall, AfterMeasure, Calls, Loads, Reports, Within
    <3> QED
      BY <2>2, <2>4, <3>1 DEF NextCall
  <2>5. CASE PrintResults \/ ThroughputWrong \/ ThroughputReached \/ LatencyWrong \/ LatencyOk
    <3>1. Ended /\ call \in Reports
      BY <2>5 DEF PrintResults, ThroughputWrong, ThroughputReached, LatencyWrong, LatencyOk,
                  Reports
    <3>2. \/ \E result \in {"done", "failed"}, reason \in {"none", "tries"} : Exit(result, reason)
          \/ NewRound("load_th") /\ call = "latency"
          \/ NewRound("measure")
      BY <2>5 DEF PrintResults, ThroughputWrong, ThroughputReached, LatencyWrong, LatencyOk,
                  Retry
    <3>3. CASE \E result \in {"done", "failed"}, reason \in {"none", "tries"} : Exit(result, reason)
      BY <2>3, <3>3 DEF Exit, history
    <3>4. CASE NewRound("load_th") /\ call = "latency"
      BY <2>2, <3>1, <3>4 DEF NewRound, Across, Calls, Loads, Reports
    <3>5. CASE NewRound("measure")
      BY <2>2, <3>1, <3>5 DEF NewRound, Across, Calls, Loads, Reports
    <3> QED
      BY <3>2, <3>3, <3>4, <3>5
  <2>6. CASE WriteError \/ ReadClosed \/ ReadTimeout
    BY <2>3, <2>6 DEF WriteError, ReadClosed, ReadTimeout, Fail, history
  <2>7. CASE Read
    <3>1. \/ Fail("reply")
          \/ UNCHANGED <<outcome, call, round, acted>>
      BY <2>7 DEF Read, history
    <3> QED
      BY <2>3, <3>1 DEF Fail, history, Request
  <2>8. CASE \/ Write \/ WriteLost \/ ReadWait \/ UNCHANGED vars
             \/ \E s \in Agents : Die(s)
    BY <2>8 DEF Write, WriteLost, ReadWait, Die, vars, coordinator, history, Request
  <2> QED
    BY <1>2, <2>1, <2>4, <2>5, <2>6, <2>7, <2>8 DEF ProtocolNext, FixedTurn, Next, Run, Over
<1>3. ASSUME CoordInv, [ProtocolNext]_vars
      PROVE  [Steps!Next]_AbsVars
  BY <1>2, <1>3
<1> QED
  BY <1>1, <1>3, CoordinatorInvariant, PTL DEF ProtocolSpec, ImplementsLockstep, Steps!Spec
=============================================================================
