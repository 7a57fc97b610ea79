----------------------------- MODULE AgentStart -----------------------------
(***************************************************************************)
(* An agent from its command line to its first requests: parse_arguments   *)
(* (args.c), the generators and application protocols it makes             *)
(* (rand_gen.c, app_proto.c), main and set_load (agent.c).  Nothing checks *)
(* the arguments as a whole, so that what is wrong with them may show only *)
(* once the agent is under load.                                           *)
(*                                                                         *)
(* A distribution is its name and the number of parameters that follow it; *)
(* a generator is the family of its density and its average, a fraction of *)
(* a second.                                                               *)
(***************************************************************************)
EXTENDS Integers

CONSTANTS
  Commands, \* the command lines considered
  Loads     \* requests per second that a START_LOAD may ask for

Distributions == [kind : STRING, given : Nat]

ASSUME StartAssumption ==
  /\ Commands \subseteq [threads : Nat, conns : Nat, targets : Nat, idist : Distributions,
                         tp : STRING, app : [proto : STRING, dist : Distributions],
                         type : STRING]
  /\ Loads \subseteq Nat \ {0}

VARIABLES
  args,      \* the command line
  phase,     \* what the agent does next
  end,       \* "none", "usage" (it refuses its arguments) or "crash"
  idist,     \* cfg->idist
  reference, \* reference_ia_gen
  svc        \* the generator of the service times

startVars == <<args, phase, end, idist, reference, svc>>

Parameters == [fixed |-> 0, exp |-> 0, pareto |-> 3, gev |-> 3, bimodal |-> 3,
               lognorm |-> 2, gamma |-> 2, fb_key |-> 0, fb_ia |-> 0, fb_val |-> 0]
Kinds    == DOMAIN Parameters
Facebook == {"fb_key", "fb_ia", "fb_val"}
Density(kind) == CASE kind = "fb_key" -> "gev"
                   [] kind \in {"fb_ia", "fb_val", "pareto"} -> "gpar"
                   [] OTHER -> kind

Average    == [num : Nat, den : Nat]
Unset      == [num |-> 0, den |-> 1]
Generator(family) == [family |-> family, avg |-> Unset]
Null       == Generator("null")
Crashed    == Generator("crash")

StartTypeOK ==
  /\ args \in Commands
  /\ phase \in {"idist", "tp", "app", "type", "make", "start", "wait", "load", "measure", "run"}
  /\ end \in {"none", "usage", "crash"}
  /\ {idist, reference, svc} \subseteq
       [family : Kinds \union {"gpar", "null", "crash"}, avg : Average]

StartInit ==
  /\ args \in Commands
  /\ phase = "idist" /\ end = "none"
  /\ idist = Null /\ reference = Null /\ svc = Null

-----------------------------------------------------------------------------
(* The names of the Facebook distributions are compared as a whole, so that *)
(* they are unknown with anything behind them; of the others it is enough   *)
(* that the string starts with the name.                                   *)
Known(dist) == dist.kind \in Kinds /\ (dist.kind \in Facebook => dist.given = 0)

(* init_rand: a parameter that is missing is a NULL for atof, but for the   *)
(* average of fixed and exp; gamma_init does not let itself be used.       *)
init_rand(dist) ==
  IF ~Known(dist) THEN Null
  ELSE IF dist.kind = "gamma" \/ dist.given < Parameters[dist.kind] THEN Crashed
  ELSE Generator(Density(dist.kind))

(* strtok has ended the string after the name, but for the distributions    *)
(* that are copied from a constant.                                        *)
Parsed(dist) == IF dist.kind \in Facebook THEN dist ELSE [dist EXCEPT !.given = 0]

(* gev, bimodal and lognorm do not implement set_avg.                      *)
Settable(gen) == gen.family \in {"fixed", "exp", "gpar"}
set_avg(gen, num, den) == [gen EXCEPT !.avg = [num |-> num, den |-> den]]

Running(p) == end = "none" /\ phase = p
Go(p)      == phase' = p /\ end' = end
Stop(how)  == end' = how /\ phase' = phase
Gens       == <<idist, reference, svc>>

(* The reference is made from the string that the first call has parsed.   *)
ParseIdist ==
  /\ Running("idist")
  /\ idist' = init_rand(args.idist)
  /\ reference' = init_rand(Parsed(args.idist))
  /\ IF Crashed \in {idist', reference'} THEN Stop("crash")
     ELSE IF idist' = Null THEN Stop("usage") ELSE Go("tp")
  /\ UNCHANGED <<args, svc>>

ParseTransport ==
  /\ Running("tp")
  /\ IF args.tp \in {"TCP", "R2P2"} THEN Go("app") ELSE Stop("usage")
  /\ UNCHANGED <<args, Gens>>

(* init_app_proto, by the name of the protocol.                            *)
Protocol(p) == Running("app") /\ args.app.proto = p /\ UNCHANGED <<args, idist, reference>>

(* A message without a length is a NULL for atoi.                          *)
ParseEcho ==
  /\ Protocol("echo")
  /\ IF args.app.dist.given = 0 THEN Stop("crash") ELSE Go("type")
  /\ UNCHANGED svc

(* What is behind the name is a distribution, and asserted to be one.      *)
ParseSynthetic ==
  /\ Protocol("synthetic")
  /\ svc' = init_rand(args.app.dist)
  /\ IF svc' \in {Null, Crashed} THEN Stop("crash") ELSE Go("type")

(* ... and here it is not.                                                 *)
ParseMemSvc ==
  /\ Protocol("ascii-mem-svc")
  /\ svc' = init_rand(args.app.dist)
  /\ IF svc' = Crashed THEN Stop("crash") ELSE Go("type")

ParseMem == Protocol("ascii-mem") /\ Go("type") /\ UNCHANGED svc

ParseUnknown ==
  /\ Running("app")
  /\ args.app.proto \notin {"echo", "synthetic", "ascii-mem-svc", "ascii-mem"}
  /\ Stop("usage")
  /\ UNCHANGED <<args, Gens>>

ParseApp == ParseEcho \/ ParseSynthetic \/ ParseMemSvc \/ ParseMem \/ ParseUnknown

(* The agent's type.                                                       *)
ParseType ==
  /\ Running("type")
  /\ IF args.type \in {"throughput", "latency", "symmetric_nic", "symmetric"}
     THEN Go("make") ELSE Stop("usage")
  /\ UNCHANGED <<args, Gens>>

(* The transport is made last: there is no R2P2.                           *)
MakeTransport ==
  /\ Running("make")
  /\ IF args.tp = "TCP" THEN Go("start") ELSE Stop("usage")
  /\ UNCHANGED <<args, Gens>>

-----------------------------------------------------------------------------
PerThread == IF args.threads = 0 THEN 0 ELSE args.conns \div args.threads

(* main starts the worker threads.  Each takes one of 64 entries in the     *)
(* tables of statistics and opens its share of the connections, one target *)
(* after the other.                                                        *)
BugStart ==
  /\ Running("start")
  /\ IF PerThread > 0 /\ args.targets = 0 THEN Stop("crash") ELSE Go("wait")
  /\ UNCHANGED <<args, Gens>>

Start ==
  /\ Running("start")
  /\ IF args.threads > 64 \/ (PerThread > 0 /\ args.targets = 0)
     THEN Stop("crash") ELSE Go("wait")
  /\ UNCHANGED <<args, Gens>>

(* Every thread is given the average of the whole load.                    *)
BugStartLoad ==
  /\ Running("wait")
  /\ IF Settable(reference) /\ Settable(idist)
     THEN /\ \E load \in Loads :
               /\ reference' = set_avg(reference, 1, load)
               /\ idist' = set_avg(idist, 1, load)
          /\ Go("load")
     ELSE Stop("crash") /\ UNCHANGED <<idist, reference>>
  /\ UNCHANGED <<args, svc>>

(* set_load: a thread gets its share of the load; the reference, with which *)
(* the arrivals of all threads are compared, gets all of it.               *)
StartLoad ==
  /\ Running("wait")
  /\ IF Settable(reference) /\ Settable(idist)
     THEN /\ \E load \in Loads :
               /\ reference' = set_avg(reference, 1, load)
               /\ idist' = set_avg(idist, args.threads, load)
          /\ Go("load")
     ELSE Stop("crash") /\ UNCHANGED <<idist, reference>>
  /\ UNCHANGED <<args, svc>>

(* A worker picks its first connection and makes its first request.        *)
FirstRequest ==
  /\ Running("load")
  /\ IF args.threads > 0 /\ (PerThread = 0 \/ (args.app.proto = "ascii-mem-svc" /\ svc = Null))
     THEN Stop("crash") ELSE Go("measure")
  /\ UNCHANGED <<args, Gens>>

(* set_per_thread_samples asserts what the samples divided by no thread is  *)
(* not.                                                                    *)
StartMeasure ==
  /\ Running("measure")
  /\ IF args.threads = 0 THEN Stop("crash") ELSE Go("run")
  /\ UNCHANGED <<args, Gens>>

StartNext == \/ ParseIdist \/ ParseTransport \/ ParseApp \/ ParseType \/ MakeTransport
             \/ Start \/ StartLoad \/ FirstRequest \/ StartMeasure

-----------------------------------------------------------------------------
(* A distribution that can be sampled once it was parsed. *)
Complete(dist) ==
  Known(dist) /\ dist.kind # "gamma" /\ dist.given >= Parameters[dist.kind]

(* A command line that an agent can run with. *)
WellFormed ==
  /\ args.threads \in 1 .. 64 /\ args.conns >= args.threads /\ args.targets > 0
  /\ args.idist.kind \in {"fixed", "exp", "fb_ia", "fb_val"} /\ Known(args.idist)
  /\ args.tp = "TCP"
  /\ args.type \in {"throughput", "latency", "symmetric_nic", "symmetric"}
  /\ \/ args.app.proto = "echo" /\ args.app.dist.given > 0
     \/ args.app.proto = "ascii-mem"
     \/ args.app.proto \in {"synthetic", "ascii-mem-svc"} /\ Complete(args.app.dist)

(* Exactly the well-formed command lines lead to an agent that measures;    *)
(* the others end it, some of them under load and not in parse_arguments.  *)
(* The bimodal_set_avg that "should never be called" is not, because a      *)
(* bimodal inter-arrival distribution is already fatal to its parser.      *)
RunsIfWellFormed ==
  /\ phase = "run" => WellFormed
  /\ end # "none" /\ phase # "run" => ~WellFormed

(* The inter-arrival times are compared with a reference of their family,   *)
(* at the rate of all the threads together.                                *)
ReferenceMatches ==
  phase \in {"load", "measure", "run"} =>
    /\ reference.family = idist.family
    /\ idist.avg.num * reference.avg.den = args.threads * reference.avg.num * idist.avg.den

(* The inductive invariant behind both: what the agent has accepted so far. *)
AppAccepted ==
  \/ args.app.proto = "echo" /\ args.app.dist.given > 0
  \/ args.app.proto = "ascii-mem"
  \/ args.app.proto = "synthetic" /\ Complete(args.app.dist)
  \/ args.app.proto = "ascii-mem-svc" /\ svc = init_rand(args.app.dist) /\ svc # Crashed

Generators ==
  /\ args.idist.kind \in {"fixed", "exp", "fb_key", "fb_ia", "fb_val"} /\ Known(args.idist)
  /\ {idist.family, reference.family} = {Density(args.idist.kind)}

StartInv ==
  /\ StartTypeOK
  /\ phase # "idist" => Generators
  /\ phase \notin {"idist", "tp"} => args.tp \in {"TCP", "R2P2"}
  /\ phase \notin {"idist", "tp", "app"} => AppAccepted
  /\ phase \notin {"idist", "tp", "app", "type"} =>
       args.type \in {"throughput", "latency", "symmetric_nic", "symmetric"}
  /\ phase \in {"start", "wait", "load", "measure", "run"} => args.tp = "TCP"
  /\ phase \in {"wait", "load", "measure", "run"} =>
       args.threads <= 64 /\ (PerThread > 0 => args.targets > 0)
  /\ phase \in {"load", "measure", "run"} => args.idist.kind # "fb_key"
  /\ phase \in {"measure", "run"} /\ args.threads > 0 =>
       PerThread > 0 /\ ~(args.app.proto = "ascii-mem-svc" /\ svc = Null)
  /\ phase = "run" => args.threads > 0
  /\ RunsIfWellFormed /\ ReferenceMatches
=============================================================================
