----------------------------- MODULE NicWorker -----------------------------
(***************************************************************************)
(* A load-generating thread whose transmit timestamps are taken by the     *)
(* network card: symmetric_nic_tcp_main (agents/tp_tcp.c) and the part of  *)
(* agents/timestamping.c that reads a socket's error queue.                *)
(*                                                                         *)
(* The thread is TcpWorker's, with AgentTypes = {"symmetric"}, except that it *)
(* sends as long as requests are due, handles one event per turn, and      *)
(* learns when a request was transmitted only from the error queue, after  *)
(* it was sent and perhaps after it was answered.  The kernel may put      *)
(* several requests into one packet, and the card stamps packets: a        *)
(* timestamp here is the number of the last request in the packet, which   *)
(* is also the byte count by which the kernel identifies it.               *)
(*                                                                         *)
(* Not modelled: the wrap of the cursors and of tx_byte_counter (so the    *)
(* assertion of pop_pending_tx_timestamps holds, or the model deadlocks),  *)
(* timestamps that the kernel drops, and received packets without one.     *)
(***************************************************************************)
EXTENDS TcpWorker, SequencesExt

VARIABLES
  optid,    \* the optid fields of each connection's ring
  packets,  \* history: the packets transmitted, each by its last request
  stamped,  \* how many of them have their timestamp on the error queue
  taken,    \* how many of those the thread has read
  overrun   \* history: a slot was reused before its timestamp was read

nic     == <<optid, packets, stamped, taken, overrun>>
nicVars == <<vars, nic>>

NicInit ==
  /\ Init
  /\ optid = [c \in Conns |-> [s \in Slots |-> 0]]
  /\ packets = [c \in Conns |-> <<>>]
  /\ stamped = [c \in Conns |-> 0]
  /\ taken = [c \in Conns |-> 0]
  /\ overrun = [c \in Conns |-> FALSE]

-----------------------------------------------------------------------------
(* Requests of c that have left the agent. *)
OnWire(c) == IF packets[c] = <<>> THEN 0 ELSE Last(packets[c])

(* The last request that the timestamps read so far cover. *)
LastRead(c) == IF taken[c] = 0 THEN 0 ELSE packets[c][taken[c]]

(* The timestamp that the card gave to request i of c. *)
Stamp(c, i) == packets[c][SelectInSeq(packets[c], LAMBDA k : k >= i)]

(* Several requests in one packet, of which only the last has an entry on   *)
(* the error queue.                                                        *)
BugCoalesced(r, o, key) ==
  [r EXCEPT !.time[SlotOf(r.tail)] = key, !.tail = Wrap(r.tail + 1)]

(* The slot at the tail gets the timestamp, and so do the following ones    *)
(* whose requests the packet covers, up to the head.                       *)
Coalesced(r, o, key) ==
  LET end == Min({t \in (r.tail + 1) .. (r.head + 1) :
                    o[SlotOf(t)] > key \/ t >= r.head})
  IN [r EXCEPT !.time = [s \in Slots |-> IF \E t \in r.tail .. (end - 1) : s = SlotOf(t)
                                         THEN key ELSE @[s]],
               !.tail = end]

(* extract_timestamps: what the identifier of a timestamp tells about it,   *)
(* by comparison with the request at the tail of the ring.                  *)
extract_timestamps(r, o, key) ==
  LET expected == o[SlotOf(r.tail)]
  IN CASE expected < key -> "covers more"
       [] expected = key -> "this one"
       [] expected > key -> "an earlier one"

(* The ring r, whose optid fields are o, once the timestamp identified by   *)
(* key was read.  The slot at the tail is written before the identifiers    *)
(* are compared.                                                           *)
get_tx_timestamp(r, o, key) ==
  LET found   == extract_timestamps(r, o, key)
      written == [r EXCEPT !.time[SlotOf(r.tail)] = key]
  IN CASE found = "covers more"    -> Coalesced(r, o, key)
       [] found = "this one"       -> [written EXCEPT !.tail = Wrap(@ + 1)]
       [] found = "an earlier one" -> written

-----------------------------------------------------------------------------
(* add_pending_tx_timestamp: the slot at the head awaits the timestamp of   *)
(* the last byte sent.  The thread stays in its sending loop.              *)
NicSend(c) ==
  /\ AtSend(c)
  /\ link[c] \in {"open", "fin"}
  /\ Unanswered(c) < SndBuf
  /\ optid' = [optid EXCEPT ![c][SlotOf(ring[c].head)] = sent[c] + 1]
  /\ ring' = [ring EXCEPT ![c].head = Wrap(@ + 1)]
  /\ overrun' = [overrun EXCEPT ![c] = @ \/ ring[c].head - ring[c].tail >= MAX_PENDING_REQS]
  /\ pending_reqs' = [pending_reqs EXCEPT ![c] = @ + 1]
  /\ avail_reqs' = avail_reqs - 1
  /\ owed' = [owed EXCEPT ![c] = @ + RespLen]
  /\ sent' = [sent EXCEPT ![c] = @ + 1]
  /\ UNCHANGED <<thread, closed, buffer_idx, link, inbox, answered, sample,
                 packets, stamped, taken>>

(* A connection at whose socket epoll finds something: data, or only a      *)
(* timestamp.                                                              *)
HasStamp(c) == ~closed[c] /\ taken[c] < stamped[c]

(* epoll_wait is given room for one event. *)
NicEpoll ==
  /\ status = "run" /\ pc = "poll"
  /\ LET events == {c \in Conns : Readable(c) \/ HasStamp(c)}
     IN \/ events = {} /\ pc' = "tx" /\ UNCHANGED ready
        \/ \E c \in events : ready' = {c} /\ pc' = "rx"
  /\ UNCHANGED <<AgentType, status, load, conn, net, history, nic>>

(* EPOLLERR without EPOLLIN. *)
NicTimestamp(c) ==
  /\ AtEvent(c) /\ ~Readable(c) /\ HasStamp(c)
  /\ ring' = [ring EXCEPT ![c] = get_tx_timestamp(@, optid[c], packets[c][taken[c] + 1])]
  /\ taken' = [taken EXCEPT ![c] = @ + 1]
  /\ EventDone(c)
  /\ UNCHANGED <<AgentType, status, load, pending_reqs, closed, buffer_idx, avail_reqs, net, history,
                 optid, packets, stamped, overrun>>

(* The timestamp of the last response is popped from ring r. *)
Sampled(c, r) ==
  /\ ring' = [ring EXCEPT ![c] = pop_pending_tx_timestamps(r)]
  /\ sample' = IF Popped(r) = 0 THEN sample
               ELSE [tx |-> Popped(r), rx |-> Stamp(c, answered[c] + RespReqs(c))]

(* Nothing is done about a response whose timestamp is not there.          *)
BugLate(c, r) ==
  /\ ring' = [ring EXCEPT ![c] = r]
  /\ UNCHANGED sample

(* The response has no sample (timespec_diff is given the address of the    *)
(* first field of a null slot, which is null), but its slot is passed over. *)
Late(c, r) ==
  /\ ring' = [ring EXCEPT ![c] = [r EXCEPT !.consumed = Wrap(@ + 1)]]
  /\ UNCHANGED sample

(* When the timestamp is not in the ring yet, the error queue is read once, *)
(* and the ring tried once more.                                           *)
NicMatch(c) ==
  LET r     == Skipped(c)
      again == IF HasStamp(c)
               THEN get_tx_timestamp(r, optid[c], packets[c][taken[c] + 1]) ELSE r
  IN /\ PopAssert(r)
     /\ \/ CanPop(r) /\ Sampled(c, r) /\ UNCHANGED taken
        \/ /\ ~CanPop(r)
           /\ IF CanPop(again) THEN Sampled(c, again) ELSE Late(c, again)
           /\ taken' = [taken EXCEPT ![c] = IF HasStamp(c) THEN @ + 1 ELSE @]

NicRecvData(c) ==
  /\ AtEvent(c) /\ inbox[c] > 0 /\ Space(c) > 0
  /\ ~HalfAssert(c)
  /\ inbox' = [inbox EXCEPT ![c] = @ - Received(c)]
  /\ buffer_idx' = [buffer_idx EXCEPT ![c] = Filled(c) - RespBytes(c)]
  /\ pending_reqs' = [pending_reqs EXCEPT ![c] = @ - RespReqs(c)]
  /\ avail_reqs' = avail_reqs + RespReqs(c)
  /\ NicMatch(c)
  /\ answered' = [answered EXCEPT ![c] = @ + RespReqs(c)]
  /\ EventDone(c)
  /\ UNCHANGED <<AgentType, status, load, closed, link, owed, sent, optid, packets, stamped, overrun>>

-----------------------------------------------------------------------------
(* A packet leaves with the next requests of c up to number k. *)
Transmit(c) ==
  /\ link[c] \in {"open", "fin"}
  /\ \E k \in (OnWire(c) + 1) .. sent[c] : packets' = [packets EXCEPT ![c] = Append(@, k)]
  /\ UNCHANGED <<vars, optid, stamped, taken, overrun>>

(* Its timestamp is put on the error queue, sooner or later. *)
StampArrives(c) ==
  /\ stamped[c] < Len(packets[c])
  /\ stamped' = [stamped EXCEPT ![c] = @ + 1]
  /\ UNCHANGED <<vars, optid, packets, taken, overrun>>

(* Only requests that were transmitted are answered. *)
NicDeliver(c) ==
  /\ Deliver(c)
  /\ owed'[c] >= RespLen * (sent[c] - OnWire(c))
  /\ UNCHANGED nic

Shared ==
  \/ StartLoad \/ SkipSend \/ Stopped
  \/ \E c \in Conns : \/ SendFull(c) \/ SendError(c)
                      \/ RecvHalf(c) \/ RecvClosed(c) \/ RecvError(c)
                      \/ PeerFin(c) \/ PeerReset(c)

NicNext ==
  \/ Shared /\ UNCHANGED nic
  \/ NicEpoll
  \/ \E c \in Conns : \/ NicSend(c) \/ NicTimestamp(c) \/ NicRecvData(c)
                      \/ Transmit(c) \/ StampArrives(c) \/ NicDeliver(c)

NicSpec == NicInit /\ [][NicNext]_nicVars

-----------------------------------------------------------------------------
(* However late timestamps come, the cursors keep counting requests,        *)
(* timestamps and responses: none runs ahead of what it counts, and a late  *)
(* timestamp does not shift the following ones against the responses.       *)
CursorsKeepCount ==
  \A c \in Conns :
    /\ ring[c].head = sent[c]
    /\ ring[c].consumed = answered[c]
    /\ ring[c].tail <= OnWire(c)

(* While no slot was reused too early, the timestamps read are those of the  *)
(* requests up to the tail, none was passed over, and each is in the slot   *)
(* of its request as long as that is not answered.                          *)
StampsInPlace ==
  \A c \in Conns : ~overrun[c] =>
    /\ ring[c].tail = LastRead(c)
    /\ \A i \in (answered[c] + 1) .. ring[c].tail :
         ring[c].time[SlotOf(i - 1)] = Stamp(c, i)

(* While no slot was reused too early, a sample is taken with the           *)
(* timestamp of the packet that carried the request which was answered.     *)
SampleOfItsPacket == (\A c \in Conns : ~overrun[c]) => SampleCorrect

NicTypeOK ==
  /\ TypeOK
  /\ AgentType = "symmetric"
  /\ optid \in [Conns -> [Slots -> Nat]]
  /\ packets \in [Conns -> Seq(Nat)]
  /\ stamped \in [Conns -> Nat]
  /\ taken \in [Conns -> Nat]
  /\ overrun \in [Conns -> BOOLEAN]

(* Packets carry the requests in order, and are read after they were        *)
(* stamped.                                                                *)
PacketsInOrder ==
  \A c \in Conns :
    /\ taken[c] <= stamped[c] /\ stamped[c] <= Len(packets[c])
    /\ \A j \in 1 .. Len(packets[c]) : packets[c][j] \in 1 .. sent[c]
    /\ \A j, k \in 1 .. Len(packets[c]) : j < k => packets[c][j] < packets[c][k]

(* A slot's identifier is that of its last request: no older than any       *)
(* request of the slot, and exact for the latest MAX_PENDING_REQS requests. *)
IdsInPlace ==
  \A c \in Conns : \A i \in 1 .. sent[c] :
    /\ optid[c][SlotOf(i - 1)] >= i
    /\ sent[c] - i < MAX_PENDING_REQS => optid[c][SlotOf(i - 1)] = i

(* The tail does not pass what was read and, unless a slot was reused too   *)
(* early, is no more than a ring behind the head.                          *)
TailInRange ==
  \A c \in Conns :
    /\ ring[c].tail <= LastRead(c)
    /\ ~overrun[c] => sent[c] - ring[c].tail <= MAX_PENDING_REQS

(* The inductive invariant behind CursorsKeepCount, StampsInPlace and       *)
(* SampleOfItsPacket: what get_tx_timestamp concludes from an identifier    *)
(* rests on the identifiers of the slots between the tail and the head.     *)
NicInv ==
  /\ NicTypeOK
  /\ BytesConserved
  /\ PendingInFlight
  /\ PacketsInOrder
  /\ IdsInPlace
  /\ TailInRange
  /\ CursorsKeepCount
  /\ StampsInPlace
  /\ SampleOfItsPacket

(* Whatever becomes of its samples, the thread keeps to the window of FifoRtt *)
(* and its requests are answered in order.                                 *)
Requests == INSTANCE FifoRtt WITH Window <- MAX_PENDING_REQS, sample <- [tx |-> 0, rx |-> 0]
ImplementsRequests == Requests!Spec

(* "Make sure we got the timestamp for the right request"                   *)
(* (timestamping.c:95-97): without exception.                              *)
RightRequest == SampleCorrect
=============================================================================
