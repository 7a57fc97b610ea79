# Lancet in TLA+

Lancet, the load generator under `src/lancet`, measures the latency and the throughput of servers. A *coordinator*
(Go) starts *agents* (C) on other machines over ssh, tells them over TCP when to generate load and when to measure, and
collects and prints what they measured. An agent is a *manager* thread, which serves the coordinator, and *worker*
threads, which send requests to the *servers* under test and account the responses.

These modules model the parts of Lancet whose correctness depends on order or on what nobody checked before: the protocol
between coordinator and agents and the decisions of the fixed load pattern on top of it, the unlocked statistics that an
agent's threads share, the three event loops of the TCP workers with their ring of timestamps, the synthetic server they
run against, and the life of an agent from its command line to its first report. TLC checks each on small instances;
TLAPS proves the central invariants and four refinements for all values of the constants.

In the sources' comments "the code" is the repository at the commit under `src/`; paths below are relative to `src/lancet`.

## 1. Inventory

| component | sources | state | operations | talks to |
|---|---|---|---|---|
| coordinator, management protocol | `coordinator/coordinator.go`, `proto.go` | list of agents with connections, phase | `startLoad`, `startMeasure`, `reportThroughput`, `reportLatency`; the patterns `test`, `step`, `fixed`, `corr` | agents: one TCP connection each, requests broadcast, replies read in order under a deadline |
| coordinator, decisions and statistics | `coordinator.go`, `stats.go` | `state`, `tryCount`, `samples`, `samplingRate` | `fixedSymPattern`'s loop, `computeStats*` | the above |
| coordinator, start | `main.go`, `config.go`, `deploy.go` | flags | copy and start binaries, connect after 5 s | ssh |
| agent, start | `agents/args.c`, `agent.c`, `app_proto.c`, `rand_gen.c` | configuration, generators | `parse_arguments`, `init_rand`, `init_app_proto`, `main`, `set_load` | manager and workers |
| agent, manager | `agents/manager.c` | `agents_should_load`, `agents_should_measure`, start and stop times, the aggregate | `manager_run`: START_LOAD, START_MEASURE, REPORT_REQ | coordinator (messages); workers (shared variables, no locks) |
| agent, statistics | `agents/stats.c` | `all_stats`, `per_thread_samples`, `sampling_rate`, `all_tx` | `clear_all_stats`, `add_*`, `aggregate_*`, percentiles, KS test, inter-arrival and convergence checks | written by workers, cleared and read by the manager |
| agent, TCP workers | `agents/tp_tcp.c` | connections, `pending_reqs`, `avail_reqs`, buffers | four main loops: throughput, latency, symmetric, symmetric with NIC timestamps | servers; `should_load`, `should_measure` |
| agent, timestamps | `agents/timestamping.c` | per connection ring with three cursors | push, blind skip, pop; NIC error queue | the symmetric workers |
| server | `servers/linux-synthetic.c` | per thread a listener, an epoll set, connections | accept, read a request, spin, reply, close | workers |
| scripts | `../scripts`, `../distbenchr`, `../helper_scripts` | processes on other machines | run, watch, kill | everything, over ssh |

What is hard, and what makes each part correct:

- **The management protocol** has no message numbers, discards what it read beyond a reply, and gives up after a
  deadline. It is correct if every read finds the reply to its own request (`NoStaleReply`), if load, measurement and
  report are barriers across all agents (`MeasureBarrier`, `ReportBarrier`), if results are those of all agents
  (`ResultsComplete`), and if an experiment ends even with dead or silent agents (`Terminates`).
- **The fixed pattern** repeats windows and adapts what it asks for. It is correct if each window is one try
  (`RoundsAreTries`), if its adaptations are those its tries call for (`TriesAccounted`), if it gives up when it should
  (`GivesUpAfterMaxTries`), and if what it prints passed its tests, on one window that every agent measured
  (`ResultsGood`).
- **The agent's statistics** are shared without locks between the manager, which clears and copies, and the workers,
  which add. They are correct if a report has every request accounted in its window and none from before it
  (`NothingLost`, `NothingAdded`, together `CleanWindow`), has no old samples (`FreshSamples`), and if no index or divisor
  leaves its range (`DivisorSet`, `SamplesFit`).
- **A worker** has up to 16 requests in flight on every connection and reads responses joined or cut at any byte. It is
  correct if it never loses a byte or a slot (`BytesConserved`, `SlotConservation`), if timestamp and response belong
  together (`RingMatch`; with NIC timestamps `StampsInPlace`, `SampleOfItsPacket`), and if a connection at its limit
  recovers (`LimitLifts`).
- **A latency worker and its server** block on one another, and either process may die. They are correct if a request is
  always in exactly one place (`RequestInOnePlace`), if a blocked worker is always released (`Released`), if the
  server survives its clients but for known cases (`AbortNeedsADeath`), and if it leaks no socket (`NoLeak`).
- **An agent's start** takes its command line apart in several modules none of which sees all of it. It is correct if a
  command line that makes sense leads to an agent that measures, and others end it early (`RunsIfWellFormed`), and if
  what the arrivals are later compared with is what they were drawn from (`ReferenceMatches`).
- **The statistics** are correct if the walk of the Kolmogorov-Smirnov test finds its statistic (`KsStatistic`) and if a
  percentile and its interval are samples (`IntervalsInPlace`).

`PROJECT.json` lists the hazards one by one, with their lines and the properties that cover them.

## 2. Modules

```
FifoRtt   <--implements--  TcpWorker  --EXTENDS-->  TxTimestamps        TcpWorkerProofs
FifoRtt   <--(requests)--  NicWorker  --EXTENDS-->  TcpWorker           NicWorkerProofs
FifoRtt   <--implements--  LatencyWorker  --EXTENDS-->  SynServer       LatencyWorkerProofs
                           AgentManager                                 AgentManagerProofs
Lockstep  <--implements--  Coordinator                                  CoordinatorProofs
                           FixedPattern  --EXTENDS-->  Coordinator      FixedPatternProofs
                           AgentLife  --EXTENDS-->  AgentStart, SampleStats   AgentStartProofs, AgentLifeProofs
```

`MC*.tla` extend a module for TLC; each `.cfg` is one run.

### TxTimestamps and TcpWorker

`TxTimestamps` has `struct pending_tx_timestamps` and its operations under their own names; the cursors wrap at `CtrMod`,
which stands for 2^32. `TcpWorker` is one worker thread with its connections. One turn of the thread's loop is: send at
most one request (`Send`, or `SkipSend`), poll (`Epoll`), and handle the readable connections one at a time (`RecvData`,
`RecvClosed`, `RecvError`). `AgentType`, which never changes, chooses between `throughput_tcp_main`, which carries cut
responses over, and `symmetric_tcp_main`, which takes timestamps. Every assertion and early return is an action that stops
the thread and says why: `SendFull`, `SendError`, `RecvHalf`, `RecvRing`, `RecvSlow`.

The server and the network are external: `Deliver` moves any of `Chunks` bytes of the responses in order, `PeerFin` and
`PeerReset` end a connection, at any step. The kernel's send buffer is `SndBuf`. A transmit timestamp is the number of its
request on the connection, so `sample` shows which request was paired with which response. Two simplifications are
deliberate: `pick_conn`'s ten random draws are "any usable connection, or none"; and time is left out, so a request may or
may not be due and a response may or may not take a second (`Slow`).

`FifoRtt` is what a worker promises: at most `Window` requests in flight on a connection, answered in order, each sample
pairing a response with its request. `ImplementsFifoRtt` maps the history variables to it; two modules implement it, with
windows of `MAX_PENDING_REQS` and of 1, and `NicWorker`, whose samples are not always right, implements it without its samples
(`ImplementsRequests`).

### NicWorker

`symmetric_nic_tcp_main` is the symmetric worker with three differences, and `NicWorker` takes everything else from
`TcpWorker` (with `AgentTypes = {"symmetric"}`): it sends in a loop (`NicSend` stays at `pc = "tx"`), it takes one event per
turn (`NicEpoll`), and its timestamps come from the network card. The kernel packs requests into packets (`Transmit`), and
one timestamp per packet reaches the socket's error queue at any later time (`StampArrives`), also after the response.
The thread reads the queue on an event without data (`NicTimestamp`), or once when a response finds no timestamp in the
ring (`NicMatch`). `get_tx_timestamp` has the code's comparison of identifiers, which here are request numbers instead of
byte counts, and its loop over coalesced requests (`Coalesced`). A timestamp is the number of the last request in its
packet; `Stamp(c, i)` is the one that request `i` should get. `overrun` records that a slot was given to a new request
while its old one still awaited a timestamp: the limit of 16 counts requests without a response, not without a timestamp.

### SynServer and LatencyWorker

`SynServer` is the process of `linux-synthetic.c`: each thread has a listening socket of its own, so `home` says which
thread a connection belongs to, and handles the events of one `epoll_wait` (`todo`, with `hup` for those that had EPOLLHUP)
one after the other while the connections change under them. Each failed assertion is `Abort`: the whole process ends and
the kernel ends its connections, in order or, where something was left unread, by a reset. `LatencyWorker` adds
`latency_tcp_main` in as many agents as one likes: `latency_open_connections` is `Connect` and `SetLinger` for one
connection after the other, because a process that dies between the two ends its connection in order and not by a reset,
which the server takes differently. Then a worker writes one request and blocks in `recv` (`waiting`). `Kill` ends an
agent's process at any step. Requests and responses are one long each and are read whole; `MAX_EVENTS` (64) is taken to
exceed the number of ready events; hosts that crash and networks that part (a peer that is gone and sends neither FIN nor
RST) are left out.

### AgentManager

The manager thread and `N` worker threads of an agent, one access to shared memory per step, with the coordinator reduced
to the order in which it sends. The manager's program counter `mpc` follows `manager_run` through `clear_all_stats`
(`ClearRx`, `ClearLat` per worker), `set_per_thread_samples`, and the aggregation, whose two reads of `size` are the two
steps `AggCopy` and `AggSize`. A worker's `wpc` follows `add_latency_sample` and `add_throughput_rx_sample` through the
load and the store of each counter; `reg` holds what it has loaded. `Kind` is the agent's type, which decides what a
response is accounted as and in which order: `latency_tcp_main` adds the request first, the symmetric loops add the
latency first, `throughput_tcp_main` takes no latencies (`FirstStep`, `AfterRx`, `AfterLat`). A sample is the number of
the window it was taken in. Three history variables count a worker's additions to its requests: `begun` those that began
since the clear of the window, with one that was under way then; `finished` those that ended in the window; `atStop` is
`finished` when measuring was turned off.
Received bytes are left out: they are updated with the requests. The order of accesses inside `add_latency_sample` is the
order of the object code in the repository (`agents/stats.o`).

In a step pattern the coordinator sleeps for seconds between START_LOAD and START_MEASURE. The guard `Quiet` is the effect
of that sleep, that no worker is in the middle of an addition any more; without it `NothingAdded` would fail, as it does
in the fixed pattern, which has no sleep between its windows (see the findings). `NothingLost` needs no sleep: a lost clear
leaves too much in a counter, never too little.

### Coordinator, Lockstep and FixedPattern

`Coordinator` is the message level: a call (`load_th`, `load_lt`, `measure`, `throughput`, `latency`) writes one request
to each of its agents, `Lo(call) .. Hi(call)`, and reads one reply from each. `inq` and `outq` are the two directions of
an agent's connection. Time is counted in half seconds that a read waits (`ReadWait`), up to the deadline of the call
(`ReadTimeout`). A reply carries the request it answers, which the coordinator cannot see: `Answers` compares only what
`proto.go` compares. An agent may die at any time (`Die`), with or without its reply on the way; a write to it may fail
or not (`WriteError`, `WriteLost`), because TCP may not have noticed yet. `Spec` is the `step` and `test` patterns;
`ProtocolSpec` also has the turns of the fixed pattern (`FixedTurn`), with its decisions left open.

`Lockstep` is what this is for: a sequence of phases, in each of which agents act at most once, and which is left only
when all its agents have acted. `ImplementsLockstep` maps a call to a phase, and an agent's serving of the request to its
act. Deadlines, queues and failures disappear.

`FixedPattern` is `fixedSymPattern` over these messages. It adds what decides: the replies' correlation, convergence and
confidence interval, the number of samples, the halvings of the rate. `TryThroughput` and `TryLatency` are the turns of
the loop once the replies of a report are read; `ServeRequest` is an agent that asserts it has room for the samples it is
asked for, and dies otherwise, which the coordinator meets as any other death. `Average` rounds down and `Width` is the
difference as the code takes it, so that an upper bound below the lower one (which an agent may report when there are few
samples) looks narrow.

### AgentStart, SampleStats and AgentLife

`AgentStart` takes a command line through `parse_arguments`, one argument per step in the order in which the coordinator
gives them (`ParseIdist` .. `MakeTransport`), then through `main` and the first START_LOAD, request and START_MEASURE. A
distribution is its name and how many parameters follow it; what the model keeps of a generator is its family and its
average. `init_rand` compares the names of the Facebook distributions as a whole, so that they are unknown with parameters
behind them, and only the beginning of the others (`Known`). `strtok` cuts the string of the inter-arrival distribution when
it is parsed, and the reference is made from the same string (`Parsed`). `end` says how an agent ended. `SampleStats` has the walk of `ks` and `ks_lts` and the indices of
`get_ci_bounds`, in integers: the square root of a rational becomes `CeilSqrt` of an integer, and rounding goes the way
of the code. `AgentLife` composes them: an agent that measures gets a throughput or a latency report, with any number of
samples and timestamps, and computes what its type calls for.

## 3. Runs

| run | instance | shows |
|---|---|---|
| `worker_symmetric` | 2 connections, ring of 2, responses of 1 byte, 3 requests each, peers may close and reset | the ring, the counts and the samples are right, a closed connection stays untouched, nothing but a failed peer stops it, and a connection at its limit gets room again |
| `worker_types` | 1 connection, either type, ring of 3, responses of 2 bytes delivered by 1 to 4 into a buffer of 5, a send buffer of 2, slow responses, cursors modulo 6, 8 requests | the worker implements `FifoRtt`, cut and joined responses lose no byte, and whatever stops it, its timestamps were right until then, also after a cursor has wrapped |
| `nic_late` | NIC worker, 1 connection, ring of 3, responses of 2 bytes cut at will, packets of any size, timestamps at any time, 6 requests, failing peers | however late timestamps come, the cursors stay in step with the responses and the window is kept; samples are right as long as no slot was overrun |
| `manager_step` | latency agent, 2 workers, 3 windows, 2 responses each, 0 or 4 samples asked for | windows are clean with workers at different steps, samples fresh, and the aggregate has at most one zeroed sample per worker |
| `manager_fixed` | fixed pattern, symmetric agent, 2 workers, 2 windows, 2 responses each; worker's arrays of 2 samples, an aggregate of 3; 0, 2 or 5 samples asked for, 0 and 5 being refused | no division by zero, no overrun of a worker's array or, by both workers together, of the aggregate, and nothing accounted in a window is lost |
| `coord_step` | 2 throughput and 2 latency agents, 3 loads | barriers, complete results, `Lockstep`, and that the experiment ends |
| `fixed_experiment` | 2 agents of 1 thread, the code's 20 tries and sample counts, narrow, wide and inverted intervals, agents that die | the tries, the adaptations and the printed results are accounted for, and the experiment ends |
| `latency_server` | 2 agents, one of them with 2 connections, 2 server threads, 2 requests per agent, any process dying at any step | where a request is, who survives whom, that nobody waits for ever and no socket leaks |
| `agent_life` | about 1000 command lines that differ from a good one in one or two arguments, 2 loads, up to 4000 samples, halves of up to 3 samples of 3 values | which command lines run, the reference of the arrivals, the KS statistic, the indices of percentiles |

Three more runs end in a violation and are the findings:

| run | finding |
|---|---|
| `nic_right_request` | `agents/timestamping.c:96` makes "sure we got the timestamp for the right request"; when timestamps lag by more than the ring, a request is sampled with the timestamp of a later packet |
| `manager_lost_clear` | `agents/manager.c:321` clears while `manager.c:348` has left measuring on: a worker between the load and the store of its counter writes the old count back, and the window is reported with a request from before it, which goes into the throughput that `coordinator.go:204` tests |
| `fixed_converged` | `coordinator/coordinator.go:270` checks correlations where "Check convergence" is meant |

Smaller observations have no run of their own:

- A read of less than one response aborts a throughput worker (`agents/tp_tcp.c:316`, the action `RecvHalf`) just after the
  code that carries such a read over (309-312). `agents/timestamping.c:235` asserts `consumed <= head`, which fails in a
  correct state once `head` has wrapped at 2^32 (`RecvRing`). `worker_types` takes both.
- `coordinator/proto.go:53` waits half a second for an ACK where the comment above it says two.
- The retries of a fixed pattern can ask for more samples than `agents/stats.c:64` accepts, with one thread per agent; the
  agents then die, and `fixed_experiment` ends there.
- For fewer than 800 samples the upper bound of the 99th percentile's interval can be past the last sample, where
  `aggregate_latency_samples` left zeroes; `src/README.md:43` shows such a pair, "(856115.894, 0)". The width of this
  interval is negative as an int and passes the fixed pattern's test (`Width`, `TooWide`).
- `ks` and `ks_lts` advance one element of each array at a time over equal values. For arrays of equal length the
  statistic is right; for the inter-arrival test, whose arrays differ in length, it may be too large (`KsStatistic`).
- A distribution of inter-arrival times that needs parameters (`pareto`, `gev`, `bimodal`, `lognorm`) is fatal to
  `parse_arguments`, since its string is parsed twice and cut the first time. The Facebook distributions, compared as a
  whole (`agents/rand_gen.c:314`), are unknown with anything behind their name. For arrivals that ends in the usage message;
  for a service time an assertion of `synthetic` fails, and `ascii-mem-svc` dies at its first request, as with any unknown
  distribution.

**Bounds.** `MaxSends`, `MaxWindows`, `MaxResp`, `MaxHalf` and `Rounds` bound what the code leaves unbounded; the other bounds are
constants of the code made small. Two connections are enough for the counts that connections share (`avail_reqs`, the
poll's set); a ring of two is the smallest with a wrap between distinct slots, and three requests make it wrap; with a
ring of three and cursors modulo 6, eight requests wrap ring and cursors. A NIC worker needs a ring of three before a late
timestamp can reach a wrong request, and four requests to overrun it; six leave room for what follows. Three windows are
what it takes for a sample of the first to be missed by the clear of the second and come up in the third. Two workers
tell the manager's loop over workers apart from its steps, and with three places for their two arrays of two samples they
can overrun the aggregate; two windows are enough for a counter that still grows when it is cleared. Three loads exercise the step pattern's turn twice; two agents
of each kind give each call an agent that is ahead and one that is behind. Two server threads, and two connections of one
agent, give an event list that is stale for one connection while another is served. Halves of three samples out of three
values have every pattern of ties within and between them. What the bounds leave open for safety is closed by the proofs
where there are any.

**Fairness.** `TcpWorker`: weak fairness of the worker, whose loop never blocks (its sockets are nonblocking and the poll
has no timeout), of `StartLoad`, and of `Deliver`, a server that is up and answers; the property excuses failed peers.
`Coordinator` and `FixedPattern`: weak fairness of the coordinator alone, which blocks only in reads with a deadline;
agents may stop, die or be silent. `LatencyWorker`: weak fairness of each server thread (an epoll loop whose spin ends) and
of a `recv` that has something to return; no worker is obliged to send and nobody to die.

**Mutants.** Every property of a passing run has a plausible bug, an operator named `Bug...` beside the definition it
replaces, for which TLC finds the property violated.

## 4. Proofs

| theorem | says | for |
|---|---|---|
| `CountsAgree`, `NoByteLost`, `NoSlotLost` | `CountInv`, with `BytesConserved` and `SlotConservation` | any connections, response and buffer sizes, chunks, failures, either type, any number of requests |
| `ClosedStaysUntouched` | `Spec => ClosedIsFinal` | the same |
| `RingInvariant`, `SamplesArePaired` | `RingInv`, with `RingMatch` and `SampleCorrect` | the same, if the slots line up with the cursors (`RingFits`): fewer than `CtrMod` requests per connection, or a ring that divides `CtrMod` |
| `WorkerImplementsFifoRtt` | `Spec => ImplementsFifoRtt` | the same as `RingInvariant` |
| `WorkerInvariant` | `Spec => []WorkerInv` | fewer than `CtrMod` requests per connection |
| `StopsOnlyForAPeer` | `StopsOnlyOnFailure` | that, and responses that come whole and within a second, and a send buffer for `MAX_PENDING_REQS` requests (`PeersBehave`) |
| `CursorsNeverPass`, `StampsMeetRequests`, `SamplesMeetPackets` | `CursorsKeepCount`, `StampsInPlace`, `SampleOfItsPacket` | any connections, ring, packets and orders of timestamps and responses; fewer than `CtrMod` requests per connection |
| `NicCountsAgree`, `NicImplementsRequests` | `BytesConserved`, `SlotConservation`, `ImplementsRequests` of the NIC worker | the same |
| `TypeCorrect` | the agent's variables keep their types | any number of workers, windows and samples, either pattern |
| `DivisorAlwaysSet` | no division by zero | the same |
| `NothingIsLost` | `NothingLost` | the same |
| `SamplesAlwaysFit`, `AsksThatFit` | `SamplesFit` | the same, if the workers' arrays together are no larger than the manager's, or no count asked for is above 99 % of it |
| `WindowInvariant`, `WindowsAreClean` | `WindowInv`, `CleanWindow` | step pattern; any number of workers, windows and samples |
| `SamplesAreFresh`, `OnePhantomPerWorker` | `FreshSamples`, `PhantomsBounded` | the same |
| `CoordinatorInvariant` | `ProtocolSpec => []CoordInv` | any number of agents, deadlines, loads and tries, any pattern |
| `NoReplyIsStale`, `MeasureTogether`, `ReportTogether`, `ResultsOfAllAgents` | `NoStaleReply`, `MeasureBarrier`, `ReportBarrier`, `ResultsComplete` | the same |
| `CoordinatorIsLockstep` | `ProtocolSpec => ImplementsLockstep` | the same |
| `LoopFollowsProtocol`, `LoopKeepsBarriers`, `LoopIsLockstep` | `FSpec => ProtocolSpec`, and so the barriers and `ImplementsLockstep` | the fixed pattern with any agents, tries, intervals and samples |
| `TriesCountedOnce`, `RoundsCountTries`, `ResultsPassedTests`, `GivesUpInTime` | `TriesAccounted`, `RoundsAreTries`, `ResultsGood`, `GivesUpAfterMaxTries` | the same |
| `RequestsInOnePlace` | `RequestInOnePlace` | any agents, connections and server threads, any deaths |
| `ServerOutlivesClients` | `AbortNeedsADeath` | the same |
| `LatencyImplementsFifoRtt` | `Spec => ImplementsFifoRtt` | the same |
| `StartsIfWellFormed`, `ArrivalsMatchReference` | `RunsIfWellFormed`, `ReferenceMatches` | any set of command lines and loads |
| `WalkFindsStatistic` | `KsStatistic` | arrays of any lengths, any values |
| `IntervalsAreSamples` | `IntervalsInPlace` | any number of samples, the code's percentiles |

**Worker.** There are three layers. `CountInv` needs no hypothesis: bytes are conserved between owed, kernel, buffer and
`pending_reqs` (`BytesConserved`), so a read cannot end more requests than there are, `pending_reqs` is what was sent and not
answered (`PendingInFlight`), and the slots in use, as a set of pairs of a connection and a number up to its `pending_reqs`,
have the cardinality that `avail_reqs` lacks (`SlotConservation`): a send adds one pair, a read takes away the last ones.
That the timestamp popped is that of the request answered (`SampleCorrect`) is not inductive: one must know that the ring
holds the timestamps of all requests in flight (`RingMatch`) and that the cursors are the numbers of requests and responses
modulo `CtrMod` (`CursorsCount`); as at most `MAX_PENDING_REQS` are in flight, no slot is reused too early. This is `RingInv`,
for which slots and cursors must line up: 16 slots divide 2^32, so a wrap leaves a cursor on its slot. (With a ring that
does not divide `CtrMod` a wrap would put two requests in flight into one slot.) Where the assertion `consumed <= head`
passes, the two cursors have not been parted by a wrap, and since they differ by at most the ring's size, what was popped
is there. That the assertion always passes holds up to the first wrap only, and `WorkerInv` adds that. For
`StopsOnlyOnFailure`, `WholeInv` says that no read leaves a part of a response behind: `MAX_PAYLOAD` (4000) either is a
multiple of a response or takes all of those in flight. `ClosedIsFinal` also needs that no event of a poll is left for a
connection closed since (`ClosedNotReady`).

**NIC worker.** What `get_tx_timestamp` does rests on comparisons with the identifiers in the ring, so `NicInv` says of
those: the identifier of a slot is never below that of a request of the slot, and it is exact for the last
`MAX_PENDING_REQS` requests (`IdsInPlace`). With packets in order (`PacketsInOrder`) the next timestamp is above all those
read, and the first of these facts bounds how far `Coalesced` moves the tail: to the end of the packet at most, even after a
slot was reused too early. Until then the tail is no more than a ring behind the head (`TailInRange`), where identifiers are
exact, so the tail moves to the end of the packet exactly and the slots it passes are those of the packet's requests; and as
no more than `MAX_PENDING_REQS` responses are outstanding, none of the slots that wait for their response is overwritten.
The theorems say nothing of samples after a reuse, which `nic_right_request` shows to be wrong; requests and slots do not
depend on the timestamps, and `NicImplementsRequests` holds before and after.

**Agent.** `Control` says which requests may be outstanding at each step of the manager. `LostInv` strengthens `NothingLost`: a worker's
counter, and what it has loaded of it, are never less than the additions that ended in the window (`Covers`), as clears come
before the window only; and what has been aggregated is not less than what ended before the stop. `DivisorInv` strengthens
`DivisorSet`: `Resume` sets `measure` after any report without looking, so one needs that a report only follows a
START_MEASURE. `WindowInv` strengthens `CleanWindow`: from START_LOAD to the second clear nothing is measured and the
sleep has let every addition end, so a worker's counter equals the additions that ended in this window (`Account`), and
what is aggregated lies between those that ended before the stop and those begun since the clear. `FreshInv` is the same argument
for latency samples: the second clear finds no thread in the middle of a sample, so from then on `size` is the number of
samples ended in the window or `per_thread_samples`, whichever is less, and the entries below it are the window's
(`Fresh`), also where the buffer is full and the next slot, a remainder, is an older one. `PhantomInv` is about the two reads of
`size` by the aggregation: measuring is off by then, so a worker stores at most the one size it had loaded, and the second
read is the first or one more; the zeroes up to a worker are no more than the workers before it. `FitInv` bounds
`per_thread_samples`, and with it each worker's samples, by a share of the manager's array, and the aggregate's size by the
shares of the workers whose samples are in it.

**Coordinator and fixed pattern.** `CoordInv` has, for each agent, where its exchange in the call under way is
(`Exchange`: request waiting, reply waiting, dead with nothing, or both queues empty) and what it has done in the round
(`Progress`). The barriers follow because the next call starts only from a state where every queue is empty and everyone
acted. The fixed pattern's steps are steps of this protocol (`LoopFollowsProtocol`), so it has the barriers and the lockstep
too; its own
invariant `LoopInv` is proved relative to `CoordInv`, from which comes that in a latency report every agent has measured
this round, and so has accepted this number of samples.

**Latency worker and server.** `LatencyInv` joins `SocketInv` (who may be dead, for each state of a socket), `EventInv`
(what an event said when `epoll_wait` returned is still so when it is handled), `RequestInv` (what is unread, served or
unanswered of a connection is its last request) and `ClientInv` (an agent waits on at most one connection). `ReadEof` then
can only meet a peer that ended in order, hence one that died without SO_LINGER, and `WriteFails` only one that died while
it waited.

**Agent's start.** `StartInv` says after each argument what the agent has accepted so far (`Generators`, `AppAccepted`);
each step that ends the agent contradicts one conjunct of `WellFormed`, and at the end all of them have been met. The
reports leave this alone, since they only come of an agent that runs.

**Statistics.** `KsInv` says where the walk of `ks` and `ks_lts` is: what it has passed is not above what it has not, so that at
a value which all the rest is above, the positions are the numbers of elements up to that value, and the difference there
was taken. At the end every value is such a value, which bounds the statistic from below. With equal lengths the
differences taken in between, while equal values are passed one of each at a time, do not exceed those at the ends, so it
is met exactly. The existence of a largest difference and of a least root comes from induction over naturals, in the form
that any non-empty set of naturals has a least element (the order is well-founded). `IntervalsInPlace` follows from bounds
on the root: the index is `n * p` rounded, and from 800
samples on the root that gives the width of the interval is less than the number of samples above the index.

Proofs use the assumptions named in the modules (`RingAssumption`, `WorkerAssumption`, `AgentAssumption`,
`CoordinatorAssumption`, `PatternAssumption`, `LatencyAssumption`, `StartAssumption`, `StatsAssumption`, `LifeAssumption`), which
TLC evaluates in the runs. Hypotheses of single theorems (`RingFits`, `PeersBehave`, `Pattern = "step"`,
`MaxSends < CtrMod`) are met by the values of the code and by a run: `worker_symmetric` meets the worker's, `worker_types`
meets `RingFits` by a ring that divides `CtrMod`. `AsksFit` is met by `manager_fixed`; with the code's array sizes it holds
for up to eight threads, whatever is asked for, and for any number of threads while no more than about 99 % of the
aggregate's array is asked for. More than eight threads with a larger count, which a user can give in `test:load:samples`,
do not meet it, and can overrun the array.

**Only model-checked.** Liveness (`LimitLifts`, `Terminates`, `Released`, `NoLeak`), which is beyond the prover, as is anything with
ENABLED. Every invariant and every safety property that a passing run checks is stated by a theorem. The inductive invariants of the
agent (`DivisorInv`, `LostInv`, `WindowInv`, `FreshInv`, `PhantomInv`, `FitInv`) are proved and are not properties of a run.

## 5. Not modelled

- **The `corr` sweep** (`coordinator.go:374-`), which ignores the error of a run and goes on over connections with late
  replies, on which a read takes any message that is not a report for an ACK. It is a third pattern of `Coordinator` for
  which neither `CoordInv` nor `Lockstep` holds. `collectConvergenceResults`, which nothing calls.
- **Floating point**: the correlation of `check_iid`, the thresholds of the KS tests, the densities of `rand_gen.c`.
- **What `AgentLife` does not report**: `compute_convergence` is followed for NIC agents only, whose replies alone carry
  it; the array of transmit times for 16 threads; the lifetime of a thread's statistics after the thread has returned;
  comparators that cut a 64-bit difference to an int, right while latencies are less than 2^31 ns apart.
- **Wraps of NIC identifiers**: `tx_byte_counter` and the cursors of a NIC worker.
- **The start of agents by the coordinator**: ssh, the copying of binaries, the five seconds it waits (`main.go:131`), CPU
  affinity. A slow agent fails the experiment before the protocol begins.
- **R2P2**, of which the repository has the names and no transport; the contents of requests; the scripts' shell commands.

What could follow: the `corr` sweep as a pattern of `Coordinator`, with a property about its printed lines.
