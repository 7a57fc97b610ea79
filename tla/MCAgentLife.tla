---------------------------- MODULE MCAgentLife ----------------------------
(* AgentLife with command lines that differ from a good one in one or two    *)
(* arguments.                                                              *)
EXTENDS AgentLife

Dist(k, n) == [kind |-> k, given |-> n]
App(p, d)  == [proto |-> p, dist |-> d]
NoDist     == Dist("", 0)

Good == [threads |-> 2, conns |-> 4, targets |-> 1, idist |-> Dist("exp", 0),
         tp |-> "TCP", app |-> App("echo", Dist("", 1)), type |-> "latency"]

Dists == {Dist(k, n) : k \in Kinds \union {"zipf"}, n \in {0, 3}}
Apps  == {App("echo", Dist("", 0)), App("echo", Dist("", 1)), App("ascii-mem", NoDist),
          App("bmc", NoDist)}
         \union {App(p, d) : p \in {"synthetic", "ascii-mem-svc"}, d \in Dists}

MCCommands ==
  {[Good EXCEPT !.idist = d, !.app = p] : d \in Dists, p \in Apps}
    \union {[Good EXCEPT !.threads = t, !.conns = c, !.targets = n] :
              t \in {0, 1, 2, 3, 65}, c \in {0, 2, 65}, n \in {0, 1}}
    \union {[Good EXCEPT !.tp = p, !.type = t] :
              p \in {"TCP", "R2P2", "UDP"},
              t \in {"throughput", "latency", "symmetric_nic", "symmetric", "other"}}
=============================================================================
