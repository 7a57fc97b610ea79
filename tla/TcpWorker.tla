----------------------------- MODULE TcpWorker -----------------------------
(***************************************************************************)
(* One load-generating thread of a TCP agent: throughput_tcp_main or       *)
(* symmetric_tcp_main (agents/tp_tcp.c), its connections, and the servers  *)
(* at their other ends.                                                    *)
(*                                                                         *)
(* Each turn of the thread's loop sends at most one request (pc = "tx"),   *)
(* polls its sockets (pc = "poll") and handles the readable ones, one      *)
(* after the other (pc = "rx"); the servers and the network act between    *)
(* any two of these steps.  epoll is level-triggered and is given room for *)
(* every connection, so a poll returns every readable socket.              *)
(*                                                                         *)
(* A response is RespLen bytes; owed[c] counts the bytes of c's responses  *)
(* that have not arrived and inbox[c] those that the kernel holds.  The    *)
(* transmit timestamp of a request is its number on the connection, so a   *)
(* sample shows which request's timestamp met which response.              *)
(***************************************************************************)
EXTENDS TxTimestamps, FiniteSets

CONSTANTS
  Conns,       \* the connections of this thread
  AgentTypes,  \* what the agent may be started as: "throughput", "symmetric"
  RespLen,     \* bytes of a response
  MAX_PAYLOAD, \* bytes of a connection's receive buffer
  Chunks,      \* how many bytes the network may deliver at once
  SndBuf,      \* unanswered requests that a socket's send buffer can hold
  Slow,        \* whether a response may take a second or more
  Failures,    \* what may befall a connection: a subset of {"fin", "rst"}
  MaxSends     \* bound: requests per connection

ASSUME WorkerAssumption ==
  /\ IsFiniteSet(Conns)
  /\ AgentTypes \subseteq {"throughput", "symmetric"}
  /\ RespLen \in Nat \ {0}
  /\ MAX_PAYLOAD \in Nat \ {0}
  /\ Chunks \subseteq Nat \ {0}
  /\ SndBuf \in Nat
  /\ Slow \in BOOLEAN
  /\ Failures \subseteq {"fin", "rst"}
  /\ MaxSends \in Nat

VARIABLES
  AgentType,    \* get_agent_type(), given on the command line
  status,       \* "run", or why the thread stopped
  pc,           \* where the thread is in its loop
  ready,        \* events of the last poll not handled yet
  load,         \* should_load()
  pending_reqs, closed, buffer_idx,  \* struct tcp_connection
  avail_reqs,   \* free request slots over all the connections
  ring,         \* per_conn_tx_timestamps
  link,         \* the state of the TCP connection, as the agent's kernel sees it
  owed, inbox,  \* bytes of responses on their way, and arrived
  sent, answered, sample  \* history: see FifoRtt

thread  == <<AgentType, status, pc, ready, load>>
conn    == <<pending_reqs, closed, buffer_idx, avail_reqs, ring>>
net     == <<link, owed, inbox>>
history == <<sent, answered, sample>>
vars    == <<thread, conn, net, history>>

Statuses == {"run", "return", "sigpipe", "assert_write", "assert_half",
             "assert_ring", "assert_latency"}
Links    == {"open", "fin", "rst", "finrst"}

TypeOK ==
  /\ AgentType \in AgentTypes
  /\ status \in Statuses
  /\ pc \in {"tx", "poll", "rx"}
  /\ ready \subseteq Conns
  /\ load \in BOOLEAN
  /\ pending_reqs \in [Conns -> 0 .. MAX_PENDING_REQS]
  /\ closed \in [Conns -> BOOLEAN]
  /\ buffer_idx \in [Conns -> Nat]
  /\ avail_reqs \in Int
  /\ ring \in [Conns -> Rings(Nat)]
  /\ link \in [Conns -> Links]
  /\ owed \in [Conns -> Nat]
  /\ inbox \in [Conns -> Nat]
  /\ sent \in [Conns -> Nat]
  /\ answered \in [Conns -> Nat]
  /\ sample \in [tx : Nat, rx : Nat]

(* throughput_open_connections: every connection is open and idle. *)
Init ==
  /\ AgentType \in AgentTypes
  /\ status = "run"
  /\ pc = "tx"
  /\ ready = {}
  /\ load = FALSE
  /\ pending_reqs = [c \in Conns |-> 0]
  /\ closed = [c \in Conns |-> FALSE]
  /\ buffer_idx = [c \in Conns |-> 0]
  /\ avail_reqs = Cardinality(Conns) * MAX_PENDING_REQS
  /\ ring = [c \in Conns |-> ZeroRing]
  /\ link = [c \in Conns |-> "open"]
  /\ owed = [c \in Conns |-> 0]
  /\ inbox = [c \in Conns |-> 0]
  /\ sent = [c \in Conns |-> 0]
  /\ answered = [c \in Conns |-> 0]
  /\ sample = [tx |-> 0, rx |-> 0]

-----------------------------------------------------------------------------
(* The manager thread starts the load; it never stops it. *)
StartLoad ==
  /\ ~load
  /\ load' = TRUE
  /\ UNCHANGED <<AgentType, status, pc, ready, conn, net, history>>

Stop(why) ==
  /\ status' = why
  /\ UNCHANGED <<AgentType, pc, ready, load, conn, net, history>>

(* pick_conn may return any connection that satisfies this, or none: it     *)
(* draws ten times at random.                                              *)
BugCanSend(c) == ~closed[c]
BugCanSendClosed(c) == pending_reqs[c] < MAX_PENDING_REQS
CanSend(c) == pending_reqs[c] < MAX_PENDING_REQS /\ ~closed[c]

AtSend(c) ==
  /\ status = "run" /\ pc = "tx" /\ load
  /\ sent[c] < MaxSends
  /\ CanSend(c)

(* Requests of c that their server has not answered. *)
Unanswered(c) == owed[c] \div RespLen

BugSend(c) ==
  /\ AtSend(c)
  /\ link[c] \in {"open", "fin"}
  /\ Unanswered(c) < SndBuf
  /\ ring' = IF AgentType = "symmetric"
             THEN [ring EXCEPT ![c] = push_complete_tx_timestamp(@, sent[c] + 1)]
             ELSE ring
  /\ pending_reqs' = [pending_reqs EXCEPT ![c] = @ + 1]
  /\ owed' = [owed EXCEPT ![c] = @ + RespLen]
  /\ sent' = [sent EXCEPT ![c] = @ + 1]
  /\ pc' = "poll"
  /\ UNCHANGED <<AgentType, status, ready, load, avail_reqs, closed, buffer_idx, link, inbox,
                 answered, sample>>

(* The request is written whole: a peer that has only closed its side still *)
(* lets the agent write.                                                   *)
Send(c) ==
  /\ AtSend(c)
  /\ link[c] \in {"open", "fin"}
  /\ Unanswered(c) < SndBuf
  /\ ring' = IF AgentType = "symmetric"
             THEN [ring EXCEPT ![c] = push_complete_tx_timestamp(@, sent[c] + 1)]
             ELSE ring
  /\ pending_reqs' = [pending_reqs EXCEPT ![c] = @ + 1]
  /\ avail_reqs' = avail_reqs - 1
  /\ owed' = [owed EXCEPT ![c] = @ + RespLen]
  /\ sent' = [sent EXCEPT ![c] = @ + 1]
  /\ pc' = "poll"
  /\ UNCHANGED <<AgentType, status, ready, load, closed, buffer_idx, link, inbox,
                 answered, sample>>

(* A full send buffer: EWOULDBLOCK or a short write, and the assertion that *)
(* the request was written whole.                                          *)
SendFull(c) ==
  /\ AtSend(c)
  /\ link[c] \in {"open", "fin"}
  /\ Unanswered(c) >= SndBuf
  /\ Stop("assert_write")

(* A reset connection: the thread returns.  If the peer had closed first,   *)
(* the write raises SIGPIPE, which the agent does not handle.              *)
SendError(c) ==
  /\ AtSend(c)
  /\ \/ link[c] = "rst" /\ Stop("return")
     \/ link[c] = "finrst" /\ Stop("sigpipe")

(* A thread that tries again, instead of going on to the responses.        *)
BugSkipSend == status = "run" /\ pc = "tx" /\ load /\ UNCHANGED vars

(* The next request is not due yet, or pick_conn returned NULL. *)
SkipSend ==
  /\ status = "run" /\ pc = "tx" /\ load
  /\ pc' = "poll"
  /\ UNCHANGED <<AgentType, status, ready, load, conn, net, history>>

-----------------------------------------------------------------------------
Readable(c) == ~closed[c] /\ (inbox[c] > 0 \/ link[c] # "open")

Epoll ==
  /\ status = "run" /\ pc = "poll"
  /\ ready' = {c \in Conns : Readable(c)}
  /\ pc' = IF ready' = {} THEN "tx" ELSE "rx"
  /\ UNCHANGED <<AgentType, status, load, conn, net, history>>

AtEvent(c) == status = "run" /\ pc = "rx" /\ c \in ready

EventDone(c) ==
  /\ ready' = ready \ {c}
  /\ pc' = IF ready' = {} THEN "tx" ELSE "rx"

Space(c)    == MAX_PAYLOAD - buffer_idx[c]
Received(c) == IF inbox[c] < Space(c) THEN inbox[c] ELSE Space(c)
Filled(c)   == buffer_idx[c] + Received(c)

(* process_response: as many whole responses as the buffer holds. *)
RespReqs(c)  == Filled(c) \div RespLen
RespBytes(c) == RespReqs(c) * RespLen

(* A response cut short.  throughput_tcp_main keeps the rest of the bytes   *)
(* for the next turn, but asserts that it got at least one whole response; *)
(* symmetric_tcp_main asserts that there is no rest.                       *)
HalfAssert(c) ==
  \/ AgentType = "symmetric" /\ RespBytes(c) < Filled(c)
  \/ RespReqs(c) = 0

(* The ring once the responses but the last have been skipped. *)
Skipped(c) == blind_skip_tx_timestamps(ring[c], RespReqs(c) - 1)

RecvHalf(c) ==
  /\ AtEvent(c) /\ inbox[c] > 0 /\ Space(c) > 0
  /\ HalfAssert(c)
  /\ Stop("assert_half")

RecvRing(c) ==
  /\ AtEvent(c) /\ inbox[c] > 0 /\ Space(c) > 0
  /\ AgentType = "symmetric" /\ ~HalfAssert(c)
  /\ ~PopAssert(Skipped(c))
  /\ Stop("assert_ring")

RecvSlow(c) ==
  /\ AtEvent(c) /\ inbox[c] > 0 /\ Space(c) > 0
  /\ AgentType = "symmetric" /\ ~HalfAssert(c)
  /\ PopAssert(Skipped(c)) /\ CanPop(Skipped(c))
  /\ Slow
  /\ Stop("assert_latency")

(* Userspace timestamps: the last response is matched with the timestamp    *)
(* popped from the ring.                                                   *)
Match(c) ==
  IF AgentType = "symmetric"
  THEN /\ PopAssert(Skipped(c))
       /\ ring' = [ring EXCEPT ![c] = pop_pending_tx_timestamps(Skipped(c))]
       /\ sample' = IF CanPop(Skipped(c))
                    THEN [tx |-> Popped(Skipped(c)), rx |-> answered[c] + RespReqs(c)]
                    ELSE sample
  ELSE UNCHANGED <<ring, sample>>

(* The carry-over of throughput_tcp_main forgets the bytes it moved. *)
BugRecvData(c) ==
  /\ AtEvent(c) /\ inbox[c] > 0 /\ Space(c) > 0
  /\ ~HalfAssert(c)
  /\ inbox' = [inbox EXCEPT ![c] = @ - Received(c)]
  /\ buffer_idx' = [buffer_idx EXCEPT ![c] = 0]
  /\ pending_reqs' = [pending_reqs EXCEPT ![c] = @ - RespReqs(c)]
  /\ avail_reqs' = avail_reqs + RespReqs(c)
  /\ Match(c)
  /\ answered' = [answered EXCEPT ![c] = @ + RespReqs(c)]
  /\ EventDone(c)
  /\ UNCHANGED <<AgentType, status, load, closed, link, owed, sent>>

RecvData(c) ==
  /\ AtEvent(c) /\ inbox[c] > 0 /\ Space(c) > 0
  /\ ~HalfAssert(c)
  /\ inbox' = [inbox EXCEPT ![c] = @ - Received(c)]
  /\ buffer_idx' = [buffer_idx EXCEPT ![c] = Filled(c) - RespBytes(c)]
  /\ pending_reqs' = [pending_reqs EXCEPT ![c] = @ - RespReqs(c)]
  /\ avail_reqs' = avail_reqs + RespReqs(c)
  /\ Match(c)
  /\ answered' = [answered EXCEPT ![c] = @ + RespReqs(c)]
  /\ EventDone(c)
  /\ UNCHANGED <<AgentType, status, load, closed, link, owed, sent>>

(* recv returns 0 when the peer has closed.  The requests in flight are not *)
(* given back to avail_reqs.  (A full buffer would make recv return 0 too;  *)
(* HalfAssert stops the thread before a buffer stays full, and a state in   *)
(* which it did would be a deadlock here.)                                 *)
RecvClosed(c) ==
  /\ AtEvent(c)
  /\ inbox[c] = 0 /\ link[c] \in {"fin", "finrst"}
  /\ closed' = [closed EXCEPT ![c] = TRUE]
  /\ EventDone(c)
  /\ UNCHANGED <<AgentType, status, load, pending_reqs, buffer_idx, avail_reqs, ring, net, history>>

RecvError(c) ==
  /\ AtEvent(c) /\ inbox[c] = 0 /\ Space(c) > 0 /\ link[c] = "rst"
  /\ Stop("return")

-----------------------------------------------------------------------------
(* The server and the network: responses come in the order of the requests, *)
(* complete and once, n bytes at a time.                                   *)
Deliver(c) ==
  /\ link[c] = "open"
  /\ \E n \in Chunks :
       /\ n <= owed[c]
       /\ owed' = [owed EXCEPT ![c] = @ - n]
       /\ inbox' = [inbox EXCEPT ![c] = @ + n]
  /\ UNCHANGED <<thread, conn, link, history>>

PeerFin(c) ==
  /\ "fin" \in Failures /\ link[c] = "open"
  /\ link' = [link EXCEPT ![c] = "fin"]
  /\ UNCHANGED <<thread, conn, owed, inbox, history>>

PeerReset(c) ==
  /\ "rst" \in Failures /\ ~closed[c]
  /\ \/ link[c] = "open" /\ link' = [link EXCEPT ![c] = "rst"]
     \/ link[c] = "fin"  /\ link' = [link EXCEPT ![c] = "finrst"]
  /\ UNCHANGED <<thread, conn, owed, inbox, history>>

Tx == SkipSend \/ \E c \in Conns : Send(c) \/ SendFull(c) \/ SendError(c)

Event(c) == \/ RecvHalf(c) \/ RecvRing(c) \/ RecvSlow(c)
            \/ RecvData(c) \/ RecvClosed(c) \/ RecvError(c)

Worker == Tx \/ Epoll \/ \E c \in Conns : Event(c)

(* A thread that returned, or whose process was aborted, does nothing more. *)
Stopped == status # "run" /\ UNCHANGED vars

Next == \/ StartLoad
        \/ Worker
        \/ Stopped
        \/ \E c \in Conns : Deliver(c) \/ PeerFin(c) \/ PeerReset(c)

Spec == Init /\ [][Next]_vars

(* The thread never blocks, the manager gets a START_LOAD, and a server     *)
(* that is alive answers what it was asked.                                *)
Fairness ==
  /\ WF_vars(StartLoad)
  /\ WF_vars(Worker)
  /\ \A c \in Conns : WF_vars(Deliver(c))

FairSpec == Spec /\ Fairness

-----------------------------------------------------------------------------
(* pop_pending_tx_timestamps' assertion, consumed <= head.                  *)
CursorsOrdered == status # "assert_ring"

(* Every request slot is either free, or in use by a connection: the two    *)
(* counts that tp_tcp.c keeps agree, whatever was closed or cut short.     *)
SlotsInUse == {slot \in Conns \X (1 .. MAX_PENDING_REQS) : slot[2] <= pending_reqs[slot[1]]}
SlotConservation ==
  avail_reqs + Cardinality(SlotsInUse) = Cardinality(Conns) * MAX_PENDING_REQS

(* No byte of a response is lost or counted twice between the server, the   *)
(* kernel, the connection's buffer and process_response.                   *)
BytesConserved ==
  \A c \in Conns :
    pending_reqs[c] * RespLen = owed[c] + inbox[c] + buffer_idx[c]

(* The ring holds the timestamps of exactly the requests in flight, in      *)
(* order: the next pop finds that of the oldest one, and no push has        *)
(* overwritten a slot that a response still needs.                          *)
RingMatch ==
  AgentType = "symmetric" =>
    \A c \in Conns : \A i \in (answered[c] + 1) .. sent[c] :
      ring[c].time[SlotOf(i - 1)] = i

(* pending_reqs counts the requests in flight, on every connection. *)
PendingInFlight ==
  \A c \in Conns : /\ pending_reqs[c] = sent[c] - answered[c]
                   /\ sent[c] <= MaxSends

(* The cursors count requests and responses, as 32-bit integers do. *)
CursorsCount ==
  AgentType = "symmetric" =>
    \A c \in Conns : /\ ring[c].head = sent[c] % CtrMod
                     /\ ring[c].tail = sent[c] % CtrMod
                     /\ ring[c].consumed = answered[c] % CtrMod

(* A latency sample pairs a response with the request it answers. *)
SampleCorrect == sample.tx = sample.rx

(* The inductive invariant behind RingMatch and SampleCorrect: the bytes on  *)
(* their way bound the responses a read may find, the requests in flight    *)
(* bound the ring's live slots, and the cursors delimit them.  CursorsOrdered *)
(* is left out of RingInv, since it does not outlive a wrap of the cursors.  *)
CountInv == TypeOK /\ BytesConserved /\ PendingInFlight /\ SlotConservation
RingInv  == CountInv /\ CursorsCount /\ RingMatch /\ SampleCorrect
WorkerInv == RingInv /\ CursorsOrdered

(* What the assertions of the loops take for granted: responses arrive whole *)
(* and within a second, the socket takes a request whenever fewer than      *)
(* MAX_PENDING_REQS are in flight, and the cursors have not wrapped.        *)
Whole(n) == n % RespLen = 0
PeersBehave ==
  /\ ~Slow
  /\ SndBuf >= MAX_PENDING_REQS
  /\ \A n \in Chunks : Whole(n)
  /\ Whole(MAX_PAYLOAD) \/ MAX_PAYLOAD >= MAX_PENDING_REQS * RespLen
  /\ MaxSends < CtrMod

(* Then no read leaves a part of a response behind. *)
WholeInv == \A c \in Conns : buffer_idx[c] = 0 /\ Whole(inbox[c])

(* A thread whose peers are all up does not stop.                          *)
StopsOnlyOnFailure == status # "run" => \E c \in Conns : link[c] # "open"

(* The thread is the abstract request/response service of FifoRtt. *)
Rtt == INSTANCE FifoRtt WITH Window <- MAX_PENDING_REQS
ImplementsFifoRtt == Rtt!Spec

(* A connection at its limit does not stay there: some of its requests are  *)
(* answered, unless its peer failed or the thread stopped.                 *)
LimitLifts ==
  \A c \in Conns :
    pending_reqs[c] = MAX_PENDING_REQS ~>
      \/ pending_reqs[c] < MAX_PENDING_REQS
      \/ link[c] # "open"
      \/ status # "run"

(* Once a connection was found closed nothing is sent or counted on it.     *)
ClosedIsFinal ==
  [][\A c \in Conns : closed[c] =>
       /\ closed'[c]
       /\ UNCHANGED <<pending_reqs[c], ring[c], sent[c], answered[c]>>]_vars
=============================================================================
