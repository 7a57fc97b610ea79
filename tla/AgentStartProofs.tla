-------------------------- MODULE AgentStartProofs --------------------------
(***************************************************************************)
(* Proofs about the start of an agent, for every set of command lines and  *)
(* loads: the well-formed command lines, and no others, lead to an agent   *)
(* that measures, and what its arrivals are compared with has their family *)
(* and the rate of all threads.  Reports (AgentLife) change none of it.    *)
(***************************************************************************)
EXTENDS AgentLife, TLAPS

LEMMA KindsAre ==
  /\ Kinds = {"fixed", "exp", "pareto", "gev", "bimodal", "lognorm", "gamma",
              "fb_key", "fb_ia", "fb_val"}
  /\ \A k \in {"fixed", "exp", "fb_key", "fb_ia", "fb_val"} : Parameters[k] = 0
  /\ \A k \in Kinds \ {"fixed", "exp", "fb_key", "fb_ia", "fb_val"} :
       Parameters[k] \in {2, 3}
BY DEF Kinds, Parameters

LEMMA DensityIs ==
  /\ \A k \in Kinds : Density(k) \in Kinds \union {"gpar"}
  /\ \A k \in Kinds : Density(k) \notin {"null", "crash"}
  /\ \A k \in {"fixed", "exp", "fb_ia", "fb_val"} : Density(k) \in {"fixed", "exp", "gpar"}
  /\ Density("fb_key") = "gev"
BY KindsAre DEF Density

(* What init_rand makes of a distribution. *)
LEMMA InitRand ==
  ASSUME NEW dist \in Distributions
  PROVE  /\ ~Known(dist) => init_rand(dist) = Null
         /\ Complete(dist) => init_rand(dist) = Generator(Density(dist.kind))
         /\ Known(dist) /\ ~Complete(dist) => init_rand(dist) = Crashed
         /\ init_rand(dist) \in [family : Kinds \union {"gpar", "null", "crash"}, avg : Average]
<1>1. dist.given \in Nat /\ \A k \in Kinds : Parameters[k] \in {0, 2, 3}
  BY KindsAre DEF Distributions
<1>2. \A f \in Kinds \union {"gpar", "null", "crash"} :
        Generator(f) \in [family : Kinds \union {"gpar", "null", "crash"}, avg : Average]
  BY DEF Generator, Average, Unset
<1>3. Null \in [family : Kinds \union {"gpar", "null", "crash"}, avg : Average]
      /\ Crashed \in [family : Kinds \union {"gpar", "null", "crash"}, avg : Average]
  BY <1>2 DEF Null, Crashed
<1>4. CASE ~Known(dist)
  <2>1. init_rand(dist) = Null /\ ~Complete(dist)
    BY <1>4 DEF init_rand, Complete
  <2> QED
    BY <1>3, <1>4, <2>1
<1>5. CASE Complete(dist)
  <2>1. init_rand(dist) = Generator(Density(dist.kind)) /\ dist.kind \in Kinds
    BY <1>1, <1>5 DEF init_rand, Complete, Known
  <2>2. Known(dist)
    BY <1>5 DEF Complete
  <2> QED
    BY <1>2, <1>5, <2>1, <2>2, DensityIs
<1>6. CASE Known(dist) /\ ~Complete(dist)
  <2>1. init_rand(dist) = Crashed
    BY <1>1, <1>6 DEF init_rand, Complete, Known
  <2> QED
    BY <1>3, <1>6, <2>1
<1> QED
  BY <1>4, <1>5, <1>6 DEF Complete

LEMMA Families ==
  /\ Null.family = "null" /\ Crashed.family = "crash" /\ Null # Crashed
  /\ \A k \in Kinds : Generator(Density(k)) \notin {Null, Crashed}
  /\ \A f : Generator(f).family = f /\ Generator(f).avg = Unset
<1>1. \A f : Generator(f).family = f /\ Generator(f).avg = Unset
  BY DEF Generator
<1>2. Null.family = "null" /\ Crashed.family = "crash"
  BY <1>1 DEF Null, Crashed
<1> QED
  BY <1>1, <1>2, DensityIs

LEMMA ArgsTyped ==
  ASSUME args \in Commands
  PROVE  /\ args.threads \in Nat /\ args.conns \in Nat /\ args.targets \in Nat
         /\ args.idist \in Distributions /\ args.app.dist \in Distributions
         /\ Parsed(args.idist) \in Distributions
         /\ Parsed(args.idist).kind = args.idist.kind
         /\ Known(Parsed(args.idist)) <=> Known(args.idist)
         /\ args.idist.kind \notin Facebook => Parsed(args.idist).given = 0
         /\ args.idist.given \in Nat
BY StartAssumption DEF Distributions, Parsed, Known

(* A thread has a connection if there are as many as threads. *)
LEMMA PerThreadIs ==
  ASSUME args \in Commands
  PROVE  /\ PerThread \in Nat
         /\ args.threads > 0 => (PerThread > 0 <=> args.conns >= args.threads)
<1>1. \A c \in Nat, t \in Nat \ {0} : c \div t \in Nat /\ (c \div t > 0 <=> c >= t)
  OBVIOUS
<1> QED
  BY <1>1, ArgsTyped DEF PerThread

(* The program ends rather than run only for a command line that is not     *)
(* well formed.                                                            *)
LEMMA Stopping ==
  ASSUME StartInv, NEW how \in {"usage", "crash"}, Stop(how), UNCHANGED <<args, Gens>>,
         phase # "run" => ~WellFormed
  PROVE  StartInv'
<1>1. args' = args /\ phase' = phase /\ idist' = idist /\ reference' = reference
      /\ svc' = svc /\ end' = how
  BY DEF Stop, Gens
<1>2. /\ Generators' <=> Generators
      /\ AppAccepted' <=> AppAccepted
      /\ PerThread' = PerThread
      /\ WellFormed' <=> WellFormed
      /\ ReferenceMatches' <=> ReferenceMatches
  BY <1>1 DEF Generators, AppAccepted, PerThread, WellFormed, ReferenceMatches
<1>3. StartTypeOK'
  BY <1>1 DEF StartInv, StartTypeOK
<1>4. RunsIfWellFormed'
  BY <1>1, <1>2 DEF StartInv, RunsIfWellFormed
<1> QED
  BY <1>1, <1>2, <1>3, <1>4 DEF StartInv

(* What an argument leaves alone on the way to the next one. *)
LEMMA Passing ==
  ASSUME StartInv, NEW p, Go(p), UNCHANGED <<args, Gens>>
  PROVE  /\ args' = args /\ end' = end /\ phase' = p /\ svc' = svc
         /\ Generators' <=> Generators
         /\ AppAccepted' <=> AppAccepted
         /\ PerThread' = PerThread
         /\ WellFormed' <=> WellFormed
         /\ idist' = idist /\ reference' = reference
BY DEF Go, Gens, Generators, AppAccepted, PerThread, WellFormed

LEMMA ParseIdistInv == StartInv /\ ParseIdist => StartInv'
<1> SUFFICES ASSUME StartInv, ParseIdist PROVE StartInv'
  OBVIOUS
<1>1. /\ phase = "idist" /\ end = "none" /\ args \in Commands /\ args' = args /\ svc' = svc
      /\ svc \in [family : Kinds \union {"gpar", "null", "crash"}, avg : Average]
      /\ idist' = init_rand(args.idist) /\ reference' = init_rand(Parsed(args.idist))
      /\ phase' \in {"idist", "tp"} /\ end' \in {"none", "usage", "crash"}
      /\ phase' = "tp" => end' = "none"
      /\ (phase' = "tp") <=> (Crashed \notin {idist', reference'} /\ idist' # Null)
  BY DEF StartInv, StartTypeOK, ParseIdist, Running, Go, Stop
<1>2. StartTypeOK'
  BY <1>1, ArgsTyped, InitRand DEF StartTypeOK
<1>3. args.idist.kind \in {"fixed", "exp", "fb_key", "fb_ia", "fb_val"} /\ Known(args.idist) =>
        Complete(args.idist) /\ Complete(Parsed(args.idist))
  BY <1>1, KindsAre, ArgsTyped DEF Complete, Distributions
<1>4. phase' = "tp" => Complete(args.idist) /\ Complete(Parsed(args.idist))
  BY <1>1, ArgsTyped, InitRand
<1>5. Complete(Parsed(args.idist)) =>
        args.idist.kind \in {"fixed", "exp", "fb_key", "fb_ia", "fb_val"} /\ Known(args.idist)
  BY <1>1, ArgsTyped, KindsAre DEF Complete, Known, Facebook
<1>6. phase' = "tp" => Generators'
  <2> SUFFICES ASSUME phase' = "tp" PROVE Generators'
    OBVIOUS
  <2>1. idist'.family = Density(args.idist.kind) /\ reference'.family = Density(args.idist.kind)
    BY <1>1, <1>4, ArgsTyped, InitRand, Families
  <2> QED
    BY <1>1, <1>4, <1>5, <2>1 DEF Generators
<1>7. phase' = "idist" => ~WellFormed'
  <2> SUFFICES ASSUME phase' = "idist", WellFormed' PROVE FALSE
    OBVIOUS
  <2>1. args.idist.kind \in Kinds /\ Complete(args.idist) /\ Complete(Parsed(args.idist))
    BY <1>1, <1>3, KindsAre DEF WellFormed, Known
  <2>2. idist' \notin {Null, Crashed} /\ reference' \notin {Null, Crashed}
    BY <1>1, <2>1, ArgsTyped, InitRand, Families
  <2> QED
    BY <1>1, <2>2
<1>8. RunsIfWellFormed' /\ ReferenceMatches'
  BY <1>1, <1>7 DEF RunsIfWellFormed, ReferenceMatches
<1> QED
  BY <1>1, <1>2, <1>6, <1>8 DEF StartInv

LEMMA ParseTransportInv == StartInv /\ ParseTransport => StartInv'
<1> SUFFICES ASSUME StartInv, ParseTransport PROVE StartInv'
  OBVIOUS
<1>1. phase = "tp" /\ end = "none" /\ UNCHANGED <<args, Gens>>
  BY DEF ParseTransport, Running
<1>2. CASE Go("app")
  <2>1. StartTypeOK'
    BY <1>2, <1>1, Passing DEF StartInv, StartTypeOK, Go
  <2>2. RunsIfWellFormed' /\ ReferenceMatches'
    BY <1>1, <1>2, Passing DEF RunsIfWellFormed, ReferenceMatches
  <2> QED
    BY <1>1, <1>2, <2>1, <2>2, Passing DEF StartInv, ParseTransport, Stop, Go
<1>3. CASE ~Go("app")
  <2>1. Stop("usage") /\ ~WellFormed
    BY <1>1, <1>3 DEF ParseTransport, WellFormed, Stop, Go
  <2> QED
    BY <1>1, <2>1, Stopping
<1> QED
  BY <1>2, <1>3

LEMMA ParseTypeInv == StartInv /\ ParseType => StartInv'
<1> SUFFICES ASSUME StartInv, ParseType PROVE StartInv'
  OBVIOUS
<1>1. phase = "type" /\ end = "none" /\ UNCHANGED <<args, Gens>>
  BY DEF ParseType, Running
<1>2. CASE Go("make")
  <2>1. StartTypeOK'
    BY <1>2, <1>1, Passing DEF StartInv, StartTypeOK, Go
  <2>2. RunsIfWellFormed' /\ ReferenceMatches'
    BY <1>1, <1>2, Passing DEF RunsIfWellFormed, ReferenceMatches
  <2> QED
    BY <1>1, <1>2, <2>1, <2>2, Passing DEF StartInv, ParseType, Stop, Go
<1>3. CASE ~Go("make")
  <2>1. Stop("usage") /\ ~WellFormed
    BY <1>1, <1>3 DEF ParseType, WellFormed, Stop, Go
  <2> QED
    BY <1>1, <2>1, Stopping
<1> QED
  BY <1>2, <1>3

LEMMA MakeTransportInv == StartInv /\ MakeTransport => StartInv'
<1> SUFFICES ASSUME StartInv, MakeTransport PROVE StartInv'
  OBVIOUS
<1>1. phase = "make" /\ end = "none" /\ UNCHANGED <<args, Gens>>
  BY DEF MakeTransport, Running
<1>2. CASE Go("start")
  <2>1. StartTypeOK'
    BY <1>2, <1>1, Passing DEF StartInv, StartTypeOK, Go
  <2>2. RunsIfWellFormed' /\ ReferenceMatches'
    BY <1>1, <1>2, Passing DEF RunsIfWellFormed, ReferenceMatches
  <2> QED
    BY <1>1, <1>2, <2>1, <2>2, Passing DEF StartInv, MakeTransport, Stop, Go
<1>3. CASE ~Go("start")
  <2>1. Stop("usage") /\ ~WellFormed
    BY <1>1, <1>3 DEF MakeTransport, WellFormed, Stop, Go
  <2> QED
    BY <1>1, <2>1, Stopping
<1> QED
  BY <1>2, <1>3

(* The protocols: svc is set only by those that have a distribution. *)
LEMMA ParseAppInv == StartInv /\ ParseApp => StartInv'
<1> SUFFICES ASSUME StartInv, ParseApp PROVE StartInv'
  OBVIOUS
<1>1. /\ phase = "app" /\ end = "none" /\ args' = args /\ args \in Commands
      /\ idist' = idist /\ reference' = reference
      /\ Go("type") \/ Stop("crash") \/ Stop("usage")
  BY DEF ParseApp, ParseEcho, ParseSynthetic, ParseMemSvc, ParseMem, ParseUnknown, Protocol,
         Running, Gens, StartInv, StartTypeOK
<1>2. svc' \in [family : Kinds \union {"gpar", "null", "crash"}, avg : Average]
  BY <1>1, ArgsTyped, InitRand
  DEF ParseApp, ParseEcho, ParseSynthetic, ParseMemSvc, ParseMem, ParseUnknown, Gens,
      StartInv, StartTypeOK
<1>3. StartTypeOK'
  BY <1>1, <1>2 DEF StartInv, StartTypeOK, Go, Stop
<1>4. (Generators' <=> Generators) /\ (WellFormed' <=> WellFormed)
  BY <1>1 DEF Generators, WellFormed
<1>5. CASE Go("type")
  <2>1. AppAccepted'
    <3>1. CASE ParseEcho
      BY <1>1, <1>5, <3>1, ArgsTyped DEF ParseEcho, Protocol, AppAccepted, Go, Stop, Distributions
    <3>2. CASE ParseSynthetic
      BY <1>1, <1>5, <3>2, ArgsTyped, InitRand
      DEF ParseSynthetic, Protocol, AppAccepted, Go, Stop
    <3>3. CASE ParseMemSvc
      BY <1>1, <1>5, <3>3 DEF ParseMemSvc, Protocol, AppAccepted, Go, Stop
    <3>4. CASE ParseMem
      BY <1>1, <1>5, <3>4 DEF ParseMem, Protocol, AppAccepted
    <3>5. CASE ParseUnknown
      BY <1>1, <1>5, <3>5 DEF ParseUnknown, Stop, Go
    <3> QED
      BY <3>1, <3>2, <3>3, <3>4, <3>5 DEF ParseApp
  <2>2. phase' = "type" /\ end' = "none"
    BY <1>1, <1>5 DEF Go
  <2>3. RunsIfWellFormed' /\ ReferenceMatches'
    BY <2>2 DEF RunsIfWellFormed, ReferenceMatches
  <2> QED
    BY <1>1, <1>3, <1>4, <2>1, <2>2, <2>3 DEF StartInv
<1>6. CASE ~Go("type")
  <2>1. phase' = "app"
    BY <1>1, <1>6 DEF Stop
  <2>2. ~WellFormed
    <3> SUFFICES ASSUME WellFormed PROVE FALSE
      OBVIOUS
    <3>1. CASE ParseEcho
      BY <1>6, <3>1 DEF ParseEcho, Protocol, WellFormed
    <3>2. CASE ParseSynthetic
      <4>1. Complete(args.app.dist) /\ args.app.dist.kind \in Kinds
        BY <3>2 DEF ParseSynthetic, Protocol, WellFormed, Complete, Known
      <4> QED
        BY <1>1, <1>6, <3>2, <4>1, ArgsTyped, InitRand, Families DEF ParseSynthetic
    <3>3. CASE ParseMemSvc
      <4>1. Complete(args.app.dist) /\ args.app.dist.kind \in Kinds
        BY <3>3 DEF ParseMemSvc, Protocol, WellFormed, Complete, Known
      <4> QED
        BY <1>1, <1>6, <3>3, <4>1, ArgsTyped, InitRand, Families DEF ParseMemSvc
    <3>4. CASE ParseMem
      BY <1>6, <3>4 DEF ParseMem
    <3>5. CASE ParseUnknown
      BY <3>5 DEF ParseUnknown, WellFormed
    <3> QED
      BY <3>1, <3>2, <3>3, <3>4, <3>5 DEF ParseApp
  <2>3. RunsIfWellFormed' /\ ReferenceMatches'
    BY <1>4, <2>1, <2>2 DEF RunsIfWellFormed, ReferenceMatches
  <2> QED
    BY <1>1, <1>3, <1>4, <2>1, <2>3 DEF StartInv
<1> QED
  BY <1>5, <1>6

(* A target and a place in the tables for every thread. *)
LEMMA StartsInv == StartInv /\ Start => StartInv'
<1> SUFFICES ASSUME StartInv, Start PROVE StartInv'
  OBVIOUS
<1>1. phase = "start" /\ end = "none" /\ args \in Commands /\ UNCHANGED <<args, Gens>>
  BY DEF Start, Running, StartInv, StartTypeOK
<1>2. CASE args.threads > 64 \/ (PerThread > 0 /\ args.targets = 0)
  <2>1. Stop("crash")
    BY <1>2 DEF Start
  <2>2. ~WellFormed
    BY <1>1, <1>2, ArgsTyped DEF WellFormed
  <2> QED
    BY <1>1, <2>1, <2>2, Stopping
<1>3. CASE ~(args.threads > 64 \/ (PerThread > 0 /\ args.targets = 0))
  <2>1. Go("wait")
    BY <1>3 DEF Start
  <2>2. phase' = "wait" /\ end' = "none" /\ UNCHANGED <<args, idist, reference, svc>>
    BY <1>1, <2>1 DEF Go, Gens
  <2>3. StartTypeOK'
    BY <2>2 DEF StartInv, StartTypeOK
  <2>4. RunsIfWellFormed' /\ ReferenceMatches'
    BY <2>2 DEF RunsIfWellFormed, ReferenceMatches
  <2>5. args.threads <= 64 /\ (PerThread > 0 => args.targets > 0)
    BY <1>1, <1>3, ArgsTyped
  <2> QED
    BY <1>1, <2>1, <2>2, <2>3, <2>4, <2>5, Passing DEF StartInv
<1> QED
  BY <1>2, <1>3

(* The shares of the threads add up to the rate of the reference. *)
LEMMA StartLoadInv == StartInv /\ StartLoad => StartInv'
<1> SUFFICES ASSUME StartInv, StartLoad PROVE StartInv'
  OBVIOUS
<1>1. /\ phase = "wait" /\ end = "none" /\ args \in Commands /\ args' = args /\ svc' = svc
      /\ Generators
  BY DEF StartLoad, Running, StartInv, StartTypeOK
<1>2. CASE ~(Settable(reference) /\ Settable(idist))
  <2>1. Stop("crash") /\ UNCHANGED <<args, Gens>>
    BY <1>1, <1>2 DEF StartLoad, Gens
  <2>2. Density(args.idist.kind) \notin {"fixed", "exp", "gpar"}
    BY <1>1, <1>2 DEF Generators, Settable
  <2>3. ~WellFormed
    BY <2>2, DensityIs DEF WellFormed
  <2> QED
    BY <1>1, <2>1, <2>3, Stopping
<1>3. CASE Settable(reference) /\ Settable(idist)
  <2>1. PICK load \in Loads : /\ reference' = set_avg(reference, 1, load)
                              /\ idist' = set_avg(idist, args.threads, load)
    BY <1>3 DEF StartLoad
  <2>2. phase' = "load" /\ end' = "none"
    BY <1>1, <1>3 DEF StartLoad, Go
  <2>3. load \in Nat /\ args.threads \in Nat
    BY <1>1, ArgsTyped, StartAssumption
  <2>4. /\ {idist, reference} \subseteq
               [family : Kinds \union {"gpar", "null", "crash"}, avg : Average]
        /\ svc \in [family : Kinds \union {"gpar", "null", "crash"}, avg : Average]
    BY DEF StartInv, StartTypeOK
  <2>5. /\ idist'.family = idist.family /\ reference'.family = reference.family
        /\ idist'.avg = [num |-> args.threads, den |-> load]
        /\ reference'.avg = [num |-> 1, den |-> load]
    BY <2>1, <2>4 DEF set_avg
  <2>6. {idist', reference'} \subseteq
          [family : Kinds \union {"gpar", "null", "crash"}, avg : Average]
    BY <2>1, <2>3, <2>4 DEF set_avg, Average
  <2>7. StartTypeOK'
    BY <1>1, <2>2, <2>4, <2>6 DEF StartTypeOK
  <2>8. Generators'
    BY <1>1, <2>5 DEF Generators
  <2>9. RunsIfWellFormed' /\ ReferenceMatches'
    <3>1. idist'.family = reference'.family
      BY <1>1, <2>5 DEF Generators
    <3>2. args.threads * load = args.threads * 1 * load
      BY <2>3
    <3>3. idist'.avg.num = args.threads /\ idist'.avg.den = load
          /\ reference'.avg.num = 1 /\ reference'.avg.den = load
      BY <2>5
    <3> QED
      BY <1>1, <2>2, <3>1, <3>2, <3>3 DEF RunsIfWellFormed, ReferenceMatches
  <2>10. args.idist.kind # "fb_key"
    BY <1>1, <1>3, DensityIs DEF Generators, Settable
  <2>11. (AppAccepted' <=> AppAccepted) /\ PerThread' = PerThread
    BY <1>1 DEF AppAccepted, PerThread
  <2> QED
    BY <1>1, <2>2, <2>7, <2>8, <2>9, <2>10, <2>11 DEF StartInv
<1> QED
  BY <1>2, <1>3

(* A request needs a connection to be made on and a generator to be made of. *)
LEMMA FirstRequestInv == StartInv /\ FirstRequest => StartInv'
<1> SUFFICES ASSUME StartInv, FirstRequest PROVE StartInv'
  OBVIOUS
<1>1. phase = "load" /\ end = "none" /\ args \in Commands /\ UNCHANGED <<args, Gens>>
      /\ AppAccepted
  BY DEF FirstRequest, Running, StartInv, StartTypeOK
<1>2. CASE args.threads > 0 /\ (PerThread = 0 \/ (args.app.proto = "ascii-mem-svc" /\ svc = Null))
  <2>1. Stop("crash")
    BY <1>2 DEF FirstRequest
  <2>2. ~WellFormed
    <3> SUFFICES ASSUME WellFormed PROVE FALSE
      OBVIOUS
    <3>1. PerThread # 0
      BY <1>1, <1>2, PerThreadIs DEF WellFormed
    <3>2. args.app.proto = "ascii-mem-svc" /\ svc = Null
      BY <1>2, <3>1
    <3>3. svc = init_rand(args.app.dist) /\ Complete(args.app.dist) /\ args.app.dist.kind \in Kinds
      BY <1>1, <3>2 DEF AppAccepted, WellFormed, Complete, Known
    <3> QED
      BY <1>1, <3>2, <3>3, ArgsTyped, InitRand, Families
  <2> QED
    BY <1>1, <2>1, <2>2, Stopping
<1>3. CASE ~(args.threads > 0 /\ (PerThread = 0 \/ (args.app.proto = "ascii-mem-svc" /\ svc = Null)))
  <2>1. Go("measure")
    BY <1>3 DEF FirstRequest
  <2>2. phase' = "measure" /\ end' = "none" /\ UNCHANGED <<args, idist, reference, svc>>
    BY <1>1, <2>1 DEF Go, Gens
  <2>3. StartTypeOK'
    BY <2>2 DEF StartInv, StartTypeOK
  <2>4. RunsIfWellFormed' /\ ReferenceMatches'
    BY <1>1, <2>2 DEF StartInv, RunsIfWellFormed, ReferenceMatches
  <2>5. args.threads > 0 => PerThread > 0 /\ ~(args.app.proto = "ascii-mem-svc" /\ svc = Null)
    BY <1>1, <1>3, PerThreadIs
  <2> QED
    BY <1>1, <2>1, <2>2, <2>3, <2>4, <2>5, Passing DEF StartInv
<1> QED
  BY <1>2, <1>3

(* Whatever has come this far with a thread is well formed. *)
LEMMA StartMeasureInv == StartInv /\ StartMeasure => StartInv'
<1> SUFFICES ASSUME StartInv, StartMeasure PROVE StartInv'
  OBVIOUS
<1>1. phase = "measure" /\ end = "none" /\ args \in Commands /\ UNCHANGED <<args, Gens>>
  BY DEF StartMeasure, Running, StartInv, StartTypeOK
<1>2. CASE args.threads = 0
  <2>1. Stop("crash")
    BY <1>2 DEF StartMeasure
  <2>2. ~WellFormed
    BY <1>2 DEF WellFormed
  <2> QED
    BY <1>1, <2>1, <2>2, Stopping
<1>3. CASE args.threads # 0
  <2>1. Go("run")
    BY <1>3 DEF StartMeasure
  <2>2. phase' = "run" /\ end' = "none" /\ UNCHANGED <<args, idist, reference, svc>>
    BY <1>1, <2>1 DEF Go, Gens
  <2>3. StartTypeOK'
    BY <2>2 DEF StartInv, StartTypeOK
  <2>4. args.threads > 0 /\ args.threads \in Nat
    BY <1>1, <1>3, ArgsTyped
  <2>5. PerThread > 0 /\ ~(args.app.proto = "ascii-mem-svc" /\ svc = Null)
    BY <1>1, <2>4 DEF StartInv
  <2>6. args.threads \in 1 .. 64 /\ args.conns >= args.threads /\ args.targets > 0
    BY <1>1, <2>4, <2>5, PerThreadIs DEF StartInv
  <2>7. /\ args.idist.kind \in {"fixed", "exp", "fb_ia", "fb_val"} /\ Known(args.idist)
        /\ args.tp = "TCP"
        /\ args.type \in {"throughput", "latency", "symmetric_nic", "symmetric"}
    BY <1>1 DEF StartInv, Generators
  <2>8. AppAccepted
    BY <1>1 DEF StartInv
  <2>9. args.app.proto = "ascii-mem-svc" => Complete(args.app.dist)
    BY <1>1, <2>5, <2>8, ArgsTyped, InitRand DEF AppAccepted
  <2>10. WellFormed
    BY <2>6, <2>7, <2>8, <2>9 DEF WellFormed, AppAccepted
  <2>11. RunsIfWellFormed' /\ ReferenceMatches'
    BY <1>1, <2>1, <2>2, <2>10, Passing DEF StartInv, RunsIfWellFormed, ReferenceMatches
  <2> QED
    BY <1>1, <2>1, <2>2, <2>3, <2>4, <2>5, <2>11, Passing DEF StartInv
<1> QED
  BY <1>2, <1>3

-----------------------------------------------------------------------------
(* Reports only come of an agent that runs. *)
LifeInv == StartInv /\ (step # "none" => phase = "run")

LEMMA LifeStart == LifeInit => LifeInv
<1> SUFFICES ASSUME LifeInit PROVE LifeInv
  OBVIOUS
<1>1. /\ args \in Commands /\ phase = "idist" /\ end = "none" /\ step = "none"
      /\ idist = Null /\ reference = Null /\ svc = Null
  BY DEF LifeInit, StartInit
<1>2. Null \in [family : Kinds \union {"gpar", "null", "crash"}, avg : Average]
  BY DEF Null, Generator, Average, Unset
<1>3. StartTypeOK
  BY <1>1, <1>2 DEF StartTypeOK
<1> QED
  BY <1>1, <1>3 DEF LifeInv, StartInv, RunsIfWellFormed, ReferenceMatches

(* A stop of a running agent, and a step that leaves its start alone. *)
LEMMA Standing ==
  ASSUME StartInv, UNCHANGED startVars
  PROVE  StartInv' /\ phase' = phase
BY DEF startVars, StartInv, StartTypeOK, Generators, AppAccepted, PerThread, RunsIfWellFormed,
       WellFormed, ReferenceMatches

LEMMA Crashing ==
  ASSUME StartInv, Crash, phase = "run"
  PROVE  StartInv' /\ phase' = "run"
<1>1. Stop("crash") /\ UNCHANGED <<args, Gens>>
  BY DEF Crash
<1> QED
  BY <1>1, Stopping DEF Stop

LEMMA LifeStep == LifeInv /\ [LifeNext]_lifeVars => LifeInv'
<1> SUFFICES ASSUME LifeInv, [LifeNext]_lifeVars PROVE LifeInv'
  OBVIOUS
<1>1. StartInv /\ (step # "none" => phase = "run")
  BY DEF LifeInv
<1>2. CASE Starting
  <2>1. StartInv' /\ step' = step
    BY <1>1, <1>2, ParseIdistInv, ParseTransportInv, ParseAppInv, ParseTypeInv,
       MakeTransportInv, StartsInv, StartLoadInv, FirstRequestInv, StartMeasureInv
    DEF Starting, StartNext, reportVars
  <2>2. phase # "run"
    BY <1>2 DEF Starting, StartNext, ParseIdist, ParseTransport, ParseApp, ParseEcho,
                ParseSynthetic, ParseMemSvc, ParseMem, ParseUnknown, Protocol, ParseType,
                MakeTransport, Start, StartLoad, FirstRequest, StartMeasure, Running
  <2> QED
    BY <1>1, <2>1, <2>2 DEF LifeInv
<1>3. CASE phase = "run" /\ (Crash \/ UNCHANGED startVars)
  BY <1>1, <1>3, Standing, Crashing DEF LifeInv
<1>4. CASE ReportThroughput \/ ReportLatency
  <2>1. phase = "run" /\ (Crash \/ UNCHANGED startVars)
    BY <1>4 DEF ReportThroughput, ReportLatency, Running
  <2> QED
    BY <1>3, <2>1
<1>5. CASE CompareHalves \/ HalvesCompared \/ CheckIa \/ Pause \/ IaChecked
  <2>1. step # "none" /\ (Crash \/ UNCHANGED startVars)
    BY <1>5 DEF CompareHalves, HalvesCompared, CheckIa, Pause, IaChecked
  <2> QED
    BY <1>1, <1>3, <2>1
<1>6. CASE Compare \/ UNCHANGED lifeVars
  <2>1. UNCHANGED startVars /\ step' = step
    BY <1>6 DEF Compare, lifeVars, reportVars
  <2> QED
    BY <1>1, <2>1, Standing DEF LifeInv
<1> QED
  BY <1>2, <1>4, <1>5, <1>6 DEF LifeNext

(* main, parse_arguments and set_load: an agent starts measuring only for a *)
(* command line that is well formed, and a well-formed command line stops   *)
(* no agent on its way there.                                              *)
THEOREM StartsIfWellFormed == LifeSpec => []RunsIfWellFormed
<1>1. LifeInv => RunsIfWellFormed
  BY DEF LifeInv, StartInv
<1> QED
  BY <1>1, LifeStart, LifeStep, PTL DEF LifeSpec

(* The arrivals of all threads together have the rate of the reference they *)
(* are compared with, however often the load is set.                       *)
THEOREM ArrivalsMatchReference == LifeSpec => []ReferenceMatches
<1>1. LifeInv => ReferenceMatches
  BY DEF LifeInv, StartInv
<1> QED
  BY <1>1, LifeStart, LifeStep, PTL DEF LifeSpec
=============================================================================
