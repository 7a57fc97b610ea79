-------------------------- MODULE NicWorkerProofs --------------------------
(***************************************************************************)
(* What TLC checks of NicWorker on one connection, proved for any set of   *)
(* connections, any ring and any order of packets, timestamps and          *)
(* responses: as long as no connection carries CtrMod requests (in the     *)
(* code 2^32), get_tx_timestamp never runs ahead of the packets on the     *)
(* wire and, until a slot is reused too early, fills exactly the slots of  *)
(* the requests that a packet carried.                                     *)
(***************************************************************************)
EXTENDS NicWorker, TcpWorkerProofs, WellFoundedInduction

(* Every non-empty set of naturals has a least element. *)
LEMMA LeastNat ==
  ASSUME NEW T \in SUBSET Nat, T # {}
  PROVE  Min(T) \in T /\ \A n \in T : Min(T) <= n
<1>1. PICK m \in T : \A n \in T : ~ (<<n, m>> \in OpToRel(<, Nat))
  BY NatLessThanWellFounded, WFMin
<1>2. \A n \in T : n < m => <<n, m>> \in OpToRel(<, Nat)
  BY Zenon DEF OpToRel
<1>3. \A n \in T : ~ (n < m)
  BY <1>1, <1>2, Zenon
<1>4. \A n \in T : m <= n
  BY <1>3
<1> QED
  BY <1>4 DEF Min

(* The packet of request i is the first one that ends with i or later. *)
LEMMA FirstIndex ==
  ASSUME NEW p \in Seq(Nat), NEW j \in 1 .. Len(p), NEW i \in Nat,
         p[j] >= i, \A m \in 1 .. (j - 1) : p[m] < i
  PROVE  SelectInSeq(p, LAMBDA k : k >= i) = j
<1> DEFINE I == {n \in 1 .. Len(p) : p[n] >= i}
<1>1. Len(p) \in Nat /\ \A n \in 1 .. Len(p) : p[n] \in Nat
  OBVIOUS
<1>2. /\ j \in I
      /\ \A n \in I : j <= n /\ n \in Nat
  BY <1>1
<1>3. SelectInSeq(p, LAMBDA k : k >= i) = Min(I)
  BY <1>2 DEF SelectInSeq
<1> HIDE DEF I
<1>4. Min(I) \in I /\ \A n \in I : Min(I) <= n
  BY <1>2 DEF Min
<1> QED
  BY <1>2, <1>3, <1>4

LEMMA LeastIndex ==
  ASSUME NEW p \in Seq(Nat), NEW n \in 1 .. Len(p), NEW i \in Nat, p[n] >= i
  PROVE  \E j \in 1 .. n : p[j] >= i /\ \A m \in 1 .. (j - 1) : p[m] < i
<1> DEFINE I == {j \in 1 .. n : p[j] >= i}
<1>1. I \in SUBSET Nat /\ I # {}
  OBVIOUS
<1>2. PICK j \in I : \A m \in I : j <= m
  BY <1>1, LeastNat
<1>3. \A m \in 1 .. (j - 1) : m \in 1 .. n /\ p[m] \in Nat
  OBVIOUS
<1> QED
  BY <1>2, <1>3

-----------------------------------------------------------------------------
(* The timestamp of a request that has left, which packets that leave later *)
(* do not change.                                                          *)
LEMMA StampOf ==
  ASSUME NicInv, NEW c \in Conns, NEW j \in 1 .. Len(packets[c]),
         NEW i \in Nat, i <= packets[c][j],
         \A m \in 1 .. (j - 1) : packets[c][m] < i
  PROVE  /\ SelectInSeq(packets[c], LAMBDA n : n >= i) = j
         /\ Stamp(c, i) = packets[c][j]
<1>1. packets[c] \in Seq(Nat) /\ packets[c][j] \in Nat
  BY DEF NicInv, NicTypeOK
<1> DEFINE p == packets[c]
<1>2. p \in Seq(Nat) /\ j \in 1 .. Len(p) /\ p[j] >= i /\ \A m \in 1 .. (j - 1) : p[m] < i
  BY <1>1
<1> HIDE DEF p
<1>3. SelectInSeq(p, LAMBDA n : n >= i) = j
  BY <1>2, FirstIndex
<1> QED
  BY <1>3 DEF Stamp, p

LEMMA OnWireIsLast ==
  ASSUME NicInv, NEW c \in Conns
  PROVE  /\ OnWire(c) \in 0 .. sent[c]
         /\ LastRead(c) \in Nat /\ LastRead(c) <= OnWire(c)
         /\ \A j \in 1 .. Len(packets[c]) : packets[c][j] <= OnWire(c)
<1> DEFINE p == packets[c]
           n == Len(p)
           t == taken[c]
<1>1. p \in Seq(Nat) /\ n \in Nat /\ t \in Nat /\ stamped[c] \in Nat /\ sent[c] \in Nat
  BY DEF NicInv, NicTypeOK, TypeOK
<1>2. /\ t <= n
      /\ \A j \in 1 .. n : p[j] \in 1 .. sent[c]
      /\ \A j, k \in 1 .. n : j < k => p[j] < p[k]
  BY <1>1 DEF NicInv, PacketsInOrder
<1>3. OnWire(c) = IF n = 0 THEN 0 ELSE p[n]
  BY <1>1 DEF OnWire, Last
<1>4. LastRead(c) = IF t = 0 THEN 0 ELSE p[t]
  BY DEF LastRead
<1> HIDE DEF p, n, t
<1>5. \A j \in 1 .. n : p[j] <= p[n] /\ p[n] \in 1 .. sent[c] /\ n # 0
  BY <1>1, <1>2
<1> QED
  BY <1>1, <1>2, <1>3, <1>4, <1>5 DEF n, p

LEMMA PacketOf ==
  ASSUME NicInv, NEW c \in Conns, NEW i \in 1 .. OnWire(c)
  PROVE  \E j \in 1 .. Len(packets[c]) : /\ packets[c][j] >= i
                                         /\ \A m \in 1 .. (j - 1) : packets[c][m] < i
<1>1. /\ packets[c] \in Seq(Nat) /\ Len(packets[c]) \in Nat /\ i \in Nat
      /\ OnWire(c) \in Nat
  <2>1. packets[c] \in Seq(Nat) /\ sent[c] \in Nat
    BY DEF NicInv, NicTypeOK, TypeOK
  <2>2. OnWire(c) \in Nat
    BY <2>1, OnWireIsLast
  <2> QED
    BY <2>1, <2>2
<1>2. Len(packets[c]) \in 1 .. Len(packets[c]) /\ packets[c][Len(packets[c])] >= i
  BY <1>1 DEF OnWire, Last
<1> QED
  BY <1>1, <1>2, LeastIndex

LEMMA StampType ==
  ASSUME NicInv, NEW c \in Conns, NEW i \in 1 .. OnWire(c)
  PROVE  Stamp(c, i) \in Nat
<1>1. PICK j \in 1 .. Len(packets[c]) : /\ packets[c][j] >= i
                                       /\ \A m \in 1 .. (j - 1) : packets[c][m] < i
  BY PacketOf
<1>2. packets[c] \in Seq(Nat) /\ OnWire(c) \in Nat
  BY OnWireIsLast DEF NicInv, NicTypeOK
<1>3. i \in Nat /\ packets[c][j] \in Nat
  BY <1>2
<1> QED
  BY <1>1, <1>3, StampOf

LEMMA StampKept ==
  ASSUME NicInv, NEW c \in Conns, NEW k \in Nat, NEW i \in 1 .. LastRead(c),
         packets'[c] = Append(packets[c], k)
  PROVE  Stamp(c, i)' = Stamp(c, i)
<1>1. PICK j \in 1 .. Len(packets[c]) : /\ packets[c][j] >= i
                                       /\ \A m \in 1 .. (j - 1) : packets[c][m] < i
  <2>1. i \in 1 .. OnWire(c)
    BY OnWireIsLast
  <2> QED
    BY <2>1, PacketOf
<1>2. packets[c] \in Seq(Nat) /\ LastRead(c) \in Nat
  BY OnWireIsLast DEF NicInv, NicTypeOK
<1>3. i \in Nat /\ packets[c][j] \in Nat
  BY <1>2
<1>4. Stamp(c, i) = packets[c][j]
  BY <1>1, <1>3, StampOf
<1> DEFINE p == packets'[c]
<1>5. /\ p \in Seq(Nat) /\ j \in 1 .. Len(p)
      /\ \A m \in 1 .. j : p[m] = packets[c][m]
  BY <1>2
<1>6. p[j] >= i /\ \A m \in 1 .. (j - 1) : p[m] < i
  BY <1>1, <1>5
<1> HIDE DEF p
<1>7. SelectInSeq(p, LAMBDA n : n >= i) = j
  BY <1>3, <1>5, <1>6, FirstIndex
<1>8. Stamp(c, i)' = p[SelectInSeq(p, LAMBDA n : n >= i)]
  BY DEF Stamp, SelectInSeq, p
<1> QED
  BY <1>4, <1>5, <1>7, <1>8

-----------------------------------------------------------------------------
LEMMA SlotFacts ==
  /\ \A n \in Nat : SlotOf(n) \in Slots
  /\ \A a, b \in Nat : a < b /\ b - a < MAX_PENDING_REQS => SlotOf(a) # SlotOf(b)
<1>1. MAX_PENDING_REQS \in Nat \ {0}
  BY RingAssumption
<1>2. ASSUME NEW a \in Nat, NEW b \in Nat, a < b, b - a < MAX_PENDING_REQS
      PROVE  SlotOf(a) # SlotOf(b)
  BY <1>1, <1>2, ModDistinct DEF SlotOf
<1>3. \A n \in Nat : SlotOf(n) \in Slots
  BY <1>1 DEF SlotOf, Slots
<1> QED
  BY <1>2, <1>3

(* The next timestamp is of requests that are still before the head, past   *)
(* everything that was read.                                               *)
LEMMA NextKey ==
  ASSUME NicInv, NEW c \in Conns, HasStamp(c),
         NEW key, key = packets[c][taken[c] + 1]
  PROVE  /\ key \in 1 .. sent[c] /\ key <= OnWire(c)
         /\ LastRead(c) \in Nat /\ LastRead(c) < key
         /\ taken[c] + 1 \in 1 .. Len(packets[c])
<1>1. /\ packets[c] \in Seq(Nat) /\ taken[c] \in Nat /\ stamped[c] \in Nat
      /\ sent[c] \in Nat /\ Len(packets[c]) \in Nat
  BY DEF NicInv, NicTypeOK, TypeOK
<1> DEFINE p == packets[c]
           n == Len(p)
           t == taken[c]
<1>2. /\ t <= stamped[c] /\ stamped[c] <= n
      /\ \A j \in 1 .. n : p[j] \in 1 .. sent[c]
      /\ \A j, k \in 1 .. n : j < k => p[j] < p[k]
  BY DEF NicInv, PacketsInOrder
<1>3. t + 1 \in 1 .. n /\ t + 1 <= n
  BY <1>1, <1>2 DEF HasStamp
<1>4. OnWire(c) = p[n]
  BY <1>1, <1>3 DEF OnWire, Last
<1>5. key = p[t + 1]
  OBVIOUS
<1>6. LastRead(c) = IF t = 0 THEN 0 ELSE p[t]
  BY DEF LastRead
<1> HIDE DEF p, n, t
<1>7. key <= p[n]
  BY <1>1, <1>2, <1>3, <1>5 DEF n
<1>8. LastRead(c) \in Nat /\ LastRead(c) < key
  BY <1>1, <1>2, <1>3, <1>5, <1>6 DEF n, t
<1> QED
  BY <1>2, <1>3, <1>4, <1>5, <1>7, <1>8 DEF n, t, p

(* The identifiers between the tail and the head: none is below that of its *)
(* own request, and it is that while no slot was reused too early.          *)
LEMMA IdsAfterTail ==
  ASSUME NicInv, NEW c \in Conns, NEW i \in (ring[c].tail + 1) .. sent[c]
  PROVE  /\ optid[c][SlotOf(i - 1)] \in Nat
         /\ optid[c][SlotOf(i - 1)] >= i
         /\ ~overrun[c] => optid[c][SlotOf(i - 1)] = i
<1>1. /\ ring[c].tail \in Nat /\ sent[c] \in Nat /\ MAX_PENDING_REQS \in Nat
      /\ optid[c] \in [Slots -> Nat]
  BY RingAssumption DEF NicInv, NicTypeOK, TypeOK, Rings, Cursors
<1>2. i \in 1 .. sent[c] /\ i - 1 \in Nat
  BY <1>1
<1>3. ~overrun[c] => sent[c] - i < MAX_PENDING_REQS
  BY <1>1, <1>2 DEF NicInv, TailInRange
<1> QED
  BY <1>1, <1>2, <1>3, SlotFacts DEF NicInv, IdsInPlace

(* Where Coalesced ends. *)
LEMMA CoalescedEnd ==
  ASSUME NicInv, NEW c \in Conns, NEW key \in 1 .. sent[c], ring[c].tail < key,
         NEW r, r.tail = ring[c].tail, r.head = sent[c],
         NEW end,
         end = Min({t \in (r.tail + 1) .. (r.head + 1) :
                      optid[c][SlotOf(t)] > key \/ t >= r.head})
  PROVE  /\ end \in (ring[c].tail + 1) .. key
         /\ ~overrun[c] => end = key
<1>1. /\ ring[c].tail \in Nat /\ sent[c] \in Nat /\ key \in Nat
  BY DEF NicInv, NicTypeOK, TypeOK, Rings, Cursors
<1> DEFINE T == {t \in (r.tail + 1) .. (r.head + 1) :
                   optid[c][SlotOf(t)] > key \/ t >= r.head}
<1>2. key \in T
  <2>1. CASE key < sent[c]
    <3>1. optid[c][SlotOf((key + 1) - 1)] >= key + 1
          /\ optid[c][SlotOf((key + 1) - 1)] \in Nat
      BY <1>1, <2>1, IdsAfterTail
    <3>2. (key + 1) - 1 = key
      BY <1>1
    <3> QED
      BY <1>1, <2>1, <3>1, <3>2
  <2>2. CASE key = sent[c]
    BY <1>1, <2>2
  <2> QED
    BY <1>1, <2>1, <2>2
<1>3. T \in SUBSET Nat /\ end = Min(T)
  BY <1>1
<1>4. ~overrun[c] => \A t \in T : t >= key
  <2> SUFFICES ASSUME ~overrun[c], NEW t \in T, t < key PROVE FALSE
    BY <1>1
  <2>1. t + 1 \in (ring[c].tail + 1) .. sent[c] /\ (t + 1) - 1 = t
    BY <1>1
  <2>2. optid[c][SlotOf((t + 1) - 1)] = t + 1
    BY <2>1, IdsAfterTail
  <2> QED
    BY <1>1, <2>1, <2>2
<1>5. \A t \in T : t >= ring[c].tail + 1 /\ t \in Nat
  BY <1>1
<1> HIDE DEF T
<1>6. end \in T /\ end <= key
  BY <1>2, <1>3, LeastNat
<1> QED
  BY <1>1, <1>4, <1>5, <1>6

(* The requests of a packet have its timestamp, if all those before it were *)
(* read.                                                                   *)
LEMMA StampOfNext ==
  ASSUME NicInv, NEW c \in Conns, HasStamp(c),
         NEW i \in (LastRead(c) + 1) .. packets[c][taken[c] + 1]
  PROVE  Stamp(c, i) = packets[c][taken[c] + 1]
<1> DEFINE p == packets[c]
           t == taken[c]
<1>1. /\ t \in Nat /\ t + 1 \in 1 .. Len(p) /\ LastRead(c) \in Nat
      /\ p[t + 1] \in Nat
  BY NextKey DEF NicInv, NicTypeOK
<1>2. \A j, k \in 1 .. Len(p) : j < k => p[j] < p[k]
  BY DEF NicInv, PacketsInOrder
<1>3. \A m \in 1 .. Len(p) : p[m] \in Nat
  BY DEF NicInv, NicTypeOK
<1>4. LastRead(c) = IF t = 0 THEN 0 ELSE p[t]
  BY DEF LastRead
<1>5. i \in Nat /\ i <= p[t + 1] /\ LastRead(c) < i
  BY <1>1
<1>6. ASSUME NEW m \in 1 .. ((t + 1) - 1) PROVE p[m] < i
  <2> HIDE DEF p, t
  <2>1. /\ m \in 1 .. Len(p) /\ t \in 1 .. Len(p) /\ m <= t
        /\ t # 0 /\ Len(p) \in Nat
    BY <1>1 DEF p
  <2>2. p[m] <= p[t] /\ p[m] \in Nat /\ p[t] \in Nat
    BY <1>2, <1>3, <2>1
  <2> QED
    BY <1>1, <1>4, <1>5, <2>1, <2>2
<1> QED
  BY <1>1, <1>5, <1>6, StampOf

LEMMA RingExcept ==
  ASSUME NEW r \in Rings(Nat), NEW m, NEW e
  PROVE  [r EXCEPT !.time = m, !.tail = e]
           = [head |-> r.head, tail |-> e, consumed |-> r.consumed, time |-> m]
<1>1. PICK h, t, n, x : r = [head |-> h, tail |-> t, consumed |-> n, time |-> x]
  BY DEF Rings
<1> DEFINE w == [head |-> h, tail |-> t, consumed |-> n, time |-> m]
<1>2. [r EXCEPT !.time = m] = w
  BY <1>1
<1>3. [w EXCEPT !.tail = e] = [head |-> h, tail |-> e, consumed |-> n, time |-> m]
  OBVIOUS
<1>4. r.head = h /\ r.consumed = n
  BY <1>1
<1> HIDE DEF w
<1> QED
  BY <1>2, <1>3, <1>4

(* The two ways of reading a timestamp that is not of several requests. *)
Written(r, key)    == [r EXCEPT !.time[SlotOf(r.tail)] = key]
WrittenOne(r, key) == [Written(r, key) EXCEPT !.tail = Wrap(@ + 1)]

LEMMA StampCases ==
  ASSUME NEW r, NEW o, NEW key \in Nat, NEW id \in Nat, id = o[SlotOf(r.tail)]
  PROVE  /\ id < key => get_tx_timestamp(r, o, key) = Coalesced(r, o, key)
         /\ id = key => get_tx_timestamp(r, o, key) = WrittenOne(r, key)
         /\ id > key => get_tx_timestamp(r, o, key) = Written(r, key)
<1> DEFINE found == extract_timestamps(r, o, key)
<1>1. /\ id < key => found = "covers more"
      /\ id = key => found = "this one"
      /\ id > key => found = "an earlier one"
  <2>1. found = CASE id < key -> "covers more"
                  [] id = key -> "this one"
                  [] id > key -> "an earlier one"
    BY Zenon DEF extract_timestamps
  <2> HIDE DEF found
  <2>2. /\ id < key => ~ (id = key) /\ ~ (id > key)
        /\ id = key => ~ (id < key) /\ ~ (id > key)
        /\ id > key => ~ (id < key) /\ ~ (id = key)
    OBVIOUS
  <2> QED
    BY <2>1, <2>2, Zenon
<1>2. /\ found = "covers more" => get_tx_timestamp(r, o, key) = Coalesced(r, o, key)
      /\ found = "this one" => get_tx_timestamp(r, o, key) = WrittenOne(r, key)
      /\ found = "an earlier one" => get_tx_timestamp(r, o, key) = Written(r, key)
  <2> HIDE DEF found
  <2> QED
    BY DEF get_tx_timestamp, found, Written, WrittenOne
<1> QED
  BY <1>1, <1>2

(* What the ring r, which differs from that of c at most in the responses   *)
(* it has matched, is once the next timestamp was read.                    *)
LEMMA ReadStamp ==
  ASSUME NicInv, MaxSends < CtrMod, NEW c \in Conns, HasStamp(c),
         NEW r \in Rings(Nat),
         r.head = sent[c], r.tail = ring[c].tail, r.time = ring[c].time,
         NEW q, q = get_tx_timestamp(r, optid[c], packets[c][taken[c] + 1])
  PROVE  /\ q \in Rings(Nat) /\ q.head = sent[c] /\ q.consumed = r.consumed
         /\ q.tail <= packets[c][taken[c] + 1]
         /\ ring[c].tail <= q.tail
         /\ ~overrun[c] =>
              /\ q.tail = packets[c][taken[c] + 1]
              /\ \A i \in (answered[c] + 1) .. q.tail : q.time[SlotOf(i - 1)] = Stamp(c, i)
<1> DEFINE key == packets[c][taken[c] + 1]
           tail == ring[c].tail
           S == sent[c]
<1>1. /\ key \in 1 .. S /\ LastRead(c) \in Nat /\ LastRead(c) < key
  BY NextKey
<1>2. /\ S \in Nat /\ answered[c] \in Nat /\ CtrMod \in Nat /\ MAX_PENDING_REQS \in Nat
      /\ S < CtrMod /\ tail \in Nat /\ tail <= LastRead(c)
      /\ S - answered[c] <= MAX_PENDING_REQS
  <2>1. CtrMod \in Nat /\ MAX_PENDING_REQS \in Nat /\ MaxSends \in Nat
    BY RingAssumption, WorkerAssumption
  <2>2. /\ S \in Nat /\ answered[c] \in Nat /\ ring[c] \in Rings(Nat)
        /\ pending_reqs[c] \in 0 .. MAX_PENDING_REQS
    BY DEF NicInv, NicTypeOK, TypeOK
  <2>3. ring[c].tail \in Nat
    BY <2>1, <2>2 DEF Rings, Cursors
  <2>4. tail <= LastRead(c) /\ S <= MaxSends /\ pending_reqs[c] = S - answered[c]
    BY DEF NicInv, PendingInFlight, TailInRange
  <2> QED
    BY <2>1, <2>2, <2>3, <2>4
<1>3. ~overrun[c] => tail = LastRead(c)
  BY DEF NicInv, StampsInPlace
<1>4. /\ r = [head |-> S, tail |-> tail, consumed |-> r.consumed, time |-> r.time]
      /\ r.consumed \in Cursors /\ r.time \in [Slots -> Nat]
  BY DEF Rings
<1> HIDE DEF key, tail, S
<1>5. /\ tail < key /\ key <= S /\ key \in Nat
  BY <1>1, <1>2
<1>6. /\ optid[c][SlotOf(tail)] \in Nat /\ optid[c][SlotOf(tail)] >= tail + 1
      /\ ~overrun[c] => optid[c][SlotOf(tail)] = tail + 1
  <2>1. tail + 1 \in (tail + 1) .. S /\ (tail + 1) - 1 = tail
    BY <1>2, <1>5
  <2> QED
    BY <2>1, IdsAfterTail DEF tail, S
<1>7. /\ optid[c][SlotOf(tail)] < key => q = Coalesced(r, optid[c], key)
      /\ optid[c][SlotOf(tail)] = key => q = WrittenOne(r, key)
      /\ optid[c][SlotOf(tail)] > key => q = Written(r, key)
  <2>1. q = get_tx_timestamp(r, optid[c], key) /\ r.tail = tail
    BY DEF key, tail
  <2> QED
    BY <1>5, <1>6, <2>1, StampCases
<1> DEFINE Read(end, tm) ==
             /\ q = [head |-> S, tail |-> end, consumed |-> r.consumed, time |-> tm]
             /\ end \in tail .. key
             /\ tm \in [Slots -> Nat]
             /\ ~overrun[c] =>
                  /\ end = key
                  /\ \A t \in tail .. (key - 1) : tm[SlotOf(t)] = key
                  /\ \A s \in Slots : (\A t \in tail .. (key - 1) : s # SlotOf(t))
                                       => tm[s] = r.time[s]
<1>8. \A n \in Nat : SlotOf(n) \in Slots
  BY SlotFacts
<1> DEFINE written == [r.time EXCEPT ![SlotOf(tail)] = key]
<1>9. /\ written \in [Slots -> Nat] /\ written[SlotOf(tail)] = key
      /\ \A s \in Slots : s # SlotOf(tail) => written[s] = r.time[s]
      /\ Written(r, key) = [head |-> S, tail |-> tail, consumed |-> r.consumed, time |-> written]
  BY <1>2, <1>4, <1>5, <1>8 DEF Written
<1>10. ASSUME optid[c][SlotOf(tail)] < key PROVE \E e, m : Read(e, m)
  <2> DEFINE end == Min({t \in (r.tail + 1) .. (r.head + 1) :
                           optid[c][SlotOf(t)] > key \/ t >= r.head})
             tm == [s \in Slots |-> IF \E t \in r.tail .. (end - 1) : s = SlotOf(t)
                                    THEN key ELSE r.time[s]]
  <2>1. q = Coalesced(r, optid[c], key)
    BY <1>7, <1>10
  <2>2. end \in (tail + 1) .. key /\ (~overrun[c] => end = key)
    BY <1>1, <1>2, <1>5, CoalescedEnd DEF tail, S
  <2>3. q = [r EXCEPT !.time = tm, !.tail = end]
    BY <2>1 DEF Coalesced
  <2> HIDE DEF end
  <2>4. r.tail = tail /\ tm \in [Slots -> Nat]
    BY <1>4, <1>5 DEF tail
  <2>5. q = [head |-> S, tail |-> end, consumed |-> r.consumed, time |-> tm]
    <3> HIDE DEF tm
    <3>1. r.head = S
      BY DEF S
    <3> QED
      BY <2>3, <3>1, RingExcept
  <2>6. \A t \in tail .. (end - 1) : tm[SlotOf(t)] = key
    BY <1>2, <1>8, <2>4
  <2>7. \A s \in Slots : (\A t \in tail .. (end - 1) : s # SlotOf(t)) => tm[s] = r.time[s]
    BY <2>4
  <2> HIDE DEF tm
  <2>8. Read(end, tm)
    BY <1>2, <1>5, <2>2, <2>4, <2>5, <2>6, <2>7
  <2> HIDE DEF Read
  <2> QED
    BY <2>8
<1>11. ASSUME optid[c][SlotOf(tail)] = key PROVE \E e, m : Read(e, m)
  <2>1. q = [Written(r, key) EXCEPT !.tail = Wrap(@ + 1)]
    BY <1>7, <1>11 DEF WrittenOne
  <2>2. Wrap(tail + 1) = tail + 1
    BY <1>2, <1>5 DEF Wrap
  <2>3. q = [head |-> S, tail |-> tail + 1, consumed |-> r.consumed, time |-> written]
    BY <1>4, <1>9, <2>1, <2>2
  <2>4. Read(tail + 1, written)
    BY <1>2, <1>5, <1>6, <1>8, <1>9, <1>11, <2>3
  <2> HIDE DEF Read, written
  <2> QED
    BY <2>4
<1>12. ASSUME optid[c][SlotOf(tail)] > key PROVE \E e, m : Read(e, m)
  <2>1. q = Written(r, key)
    BY <1>7, <1>12
  <2>2. q = [head |-> S, tail |-> tail, consumed |-> r.consumed, time |-> written]
    BY <1>9, <2>1
  <2>3. overrun[c]
    BY <1>2, <1>5, <1>6, <1>12
  <2>4. Read(tail, written)
    BY <1>2, <1>5, <1>9, <2>2, <2>3
  <2> HIDE DEF Read, written
  <2> QED
    BY <2>4
<1>13. PICK end, tm : Read(end, tm)
  <2> HIDE DEF Read
  <2> QED
    BY <1>5, <1>6, <1>10, <1>11, <1>12
<1>14. end \in Nat /\ end \in Cursors /\ S \in Cursors
  BY <1>2, <1>5, <1>13 DEF Cursors
<1>15. q \in Rings(Nat)
  BY <1>4, <1>13, <1>14 DEF Rings
<1>16. ASSUME ~overrun[c], NEW i \in (answered[c] + 1) .. key
       PROVE  tm[SlotOf(i - 1)] = Stamp(c, i)
  <2>1. i - 1 \in Nat /\ i \in Nat
    BY <1>2
  <2>2. CASE i > tail
    <3>1. Stamp(c, i) = key
      BY <1>2, <1>3, <1>5, <1>16, <2>1, <2>2, StampOfNext DEF key
    <3>2. tm[SlotOf(i - 1)] = key
      BY <1>2, <1>5, <1>13, <1>16, <2>1, <2>2
    <3> QED
      BY <3>1, <3>2
  <2>3. CASE i <= tail
    <3>1. \A t \in tail .. (key - 1) : SlotOf(i - 1) # SlotOf(t)
      BY <1>2, <1>5, <2>1, <2>3, SlotFacts
    <3>2. tm[SlotOf(i - 1)] = r.time[SlotOf(i - 1)]
      BY <1>8, <1>13, <1>16, <2>1, <3>1
    <3>3. ring[c].time[SlotOf(i - 1)] = Stamp(c, i)
      BY <1>2, <1>16, <2>1, <2>3 DEF NicInv, StampsInPlace, tail
    <3> QED
      BY <3>2, <3>3
  <2> QED
    BY <1>2, <2>1, <2>2, <2>3
<1>17. q.head = S /\ q.tail = end /\ q.consumed = r.consumed /\ q.time = tm
  BY <1>13
<1>18. ~overrun[c] => end = key
  BY <1>13
<1>19. tail <= end /\ end <= key
  BY <1>2, <1>13
<1> HIDE DEF Read
<1> QED
  BY <1>15, <1>16, <1>17, <1>18, <1>19 DEF key, tail, S

-----------------------------------------------------------------------------
LEMMA NicInitInv == AgentTypes = {"symmetric"} /\ NicInit => NicInv
<1> SUFFICES ASSUME AgentTypes = {"symmetric"}, NicInit PROVE NicInv
  OBVIOUS
<1>1. TypeOK /\ BytesConserved /\ PendingInFlight /\ AgentType = "symmetric"
  BY InitCount DEF NicInit, CountInv, TypeOK
<1>2. /\ ring = [c \in Conns |-> ZeroRing] /\ sent = [c \in Conns |-> 0]
      /\ answered = [c \in Conns |-> 0] /\ sample = [tx |-> 0, rx |-> 0]
  BY DEF NicInit, Init
<1> USE DEF NicInit
<1>3. NicTypeOK
  BY <1>1 DEF NicTypeOK
<1>4. PacketsInOrder
  BY DEF PacketsInOrder
<1>5. IdsInPlace
  BY <1>2 DEF IdsInPlace
<1>6. \A c \in Conns : LastRead(c) = 0 /\ OnWire(c) = 0
  BY DEF LastRead, OnWire
<1>7. TailInRange
  BY <1>2, <1>6, RingAssumption DEF TailInRange, ZeroRing
<1>8. CursorsKeepCount
  BY <1>2, <1>6 DEF CursorsKeepCount, ZeroRing
<1>9. StampsInPlace
  BY <1>2, <1>6 DEF StampsInPlace, ZeroRing
<1>10. SampleOfItsPacket
  BY <1>2 DEF SampleOfItsPacket, SampleCorrect
<1> QED
  BY <1>1, <1>3, <1>4, <1>5, <1>7, <1>8, <1>9, <1>10 DEF NicInv

(* What steps that touch neither a ring nor what it stands for leave alone. *)
LEMMA RingsKept ==
  ASSUME NicInv, UNCHANGED <<ring, sent, answered, nic>>
  PROVE  /\ PacketsInOrder' /\ IdsInPlace' /\ TailInRange'
         /\ CursorsKeepCount' /\ StampsInPlace'
<1> USE DEF nic
<1>1. \A c \in Conns : LastRead(c)' = LastRead(c) /\ OnWire(c)' = OnWire(c)
  BY DEF LastRead, OnWire
<1>2. \A c, i : Stamp(c, i)' = Stamp(c, i)
  BY DEF Stamp, SelectInSeq
<1>3. PacketsInOrder' /\ IdsInPlace'
  BY DEF NicInv, PacketsInOrder, IdsInPlace
<1>4. TailInRange' /\ CursorsKeepCount'
  BY <1>1 DEF NicInv, TailInRange, CursorsKeepCount
<1>5. StampsInPlace'
  BY <1>1, <1>2 DEF NicInv, StampsInPlace
<1> QED
  BY <1>3, <1>4, <1>5

LEMMA NicControlInv ==
  ASSUME NicInv, UNCHANGED <<pending_reqs, buffer_idx, avail_reqs, ring, owed, inbox,
                             sent, answered, sample, AgentType, nic>>,
         status' \in Statuses, pc' \in {"tx", "poll", "rx"},
         ready' \subseteq Conns, load' \in BOOLEAN,
         closed' \in [Conns -> BOOLEAN], link' \in [Conns -> Links]
  PROVE  NicInv'
<1>1. NicTypeOK'
  BY DEF NicInv, NicTypeOK, TypeOK, nic
<1>2. BytesConserved' /\ PendingInFlight' /\ SampleOfItsPacket'
  BY DEF NicInv, BytesConserved, PendingInFlight, SampleOfItsPacket, SampleCorrect, nic
<1> QED
  BY <1>1, <1>2, RingsKept DEF NicInv

LEMMA NicDeliverInv ==
  ASSUME NicInv, NEW c \in Conns, NicDeliver(c)
  PROVE  NicInv'
<1> USE DEF NicDeliver, Deliver, thread, conn, history
<1>1. PICK n \in Chunks : /\ n <= owed[c]
                          /\ owed' = [owed EXCEPT ![c] = @ - n]
                          /\ inbox' = [inbox EXCEPT ![c] = @ + n]
  OBVIOUS
<1>2. TypeOK /\ n \in Nat
  BY WorkerAssumption DEF NicInv, NicTypeOK
<1>3. TypeOK'
  BY <1>1, <1>2 DEF TypeOK
<1>4. BytesConserved'
  BY <1>1, <1>2 DEF NicInv, BytesConserved, TypeOK
<1>5. NicTypeOK' /\ PendingInFlight' /\ SampleOfItsPacket'
  BY <1>3 DEF NicInv, NicTypeOK, PendingInFlight, SampleOfItsPacket, SampleCorrect, nic
<1> QED
  BY <1>4, <1>5, RingsKept DEF NicInv

LEMMA TransmitInv ==
  ASSUME NicInv, NEW c \in Conns, Transmit(c)
  PROVE  NicInv'
<1> USE DEF Transmit, vars, thread, conn, net, history
<1>1. PICK k \in (OnWire(c) + 1) .. sent[c] : packets' = [packets EXCEPT ![c] = Append(@, k)]
  OBVIOUS
<1>2. /\ NicTypeOK /\ OnWire(c) \in Nat /\ k \in Nat
      /\ packets[c] \in Seq(Nat) /\ sent[c] \in Nat /\ k \in 1 .. sent[c]
  <2>1. NicTypeOK /\ packets[c] \in Seq(Nat) /\ sent[c] \in Nat
    BY DEF NicInv, NicTypeOK, TypeOK
  <2>2. OnWire(c) \in Nat
    BY <2>1, OnWireIsLast
  <2> QED
    BY <1>1, <2>1, <2>2
<1> DEFINE n == Len(packets[c])
<1>3. /\ packets'[c] = Append(packets[c], k)
      /\ \A d \in Conns \ {c} : packets'[d] = packets[d]
  BY <1>1 DEF NicInv, NicTypeOK
<1>4. /\ n \in Nat /\ Len(packets'[c]) = n + 1 /\ packets'[c][n + 1] = k
      /\ \A j \in 1 .. n : packets'[c][j] = packets[c][j] /\ packets[c][j] <= OnWire(c)
  BY <1>2, <1>3, OnWireIsLast
<1>5. \A d \in Conns : /\ taken[d] \in Nat /\ stamped[d] \in Nat
                      /\ taken[d] <= Len(packets[d])
  BY DEF NicInv, NicTypeOK, PacketsInOrder
<1>6. NicTypeOK' /\ BytesConserved' /\ PendingInFlight' /\ SampleOfItsPacket'
  <2>1. packets' \in [Conns -> Seq(Nat)]
    BY <1>1, <1>2 DEF NicTypeOK
  <2> QED
    BY <2>1 DEF NicInv, NicTypeOK, TypeOK, BytesConserved, PendingInFlight,
                SampleOfItsPacket, SampleCorrect
<1>7. PacketsInOrder'
  <2> SUFFICES ASSUME NEW d \in Conns
               PROVE  /\ taken[d] <= stamped[d] /\ stamped[d] <= Len(packets'[d])
                      /\ \A j \in 1 .. Len(packets'[d]) : packets'[d][j] \in 1 .. sent[d]
                      /\ \A i, j \in 1 .. Len(packets'[d]) :
                           i < j => packets'[d][i] < packets'[d][j]
    BY DEF PacketsInOrder
  <2>1. CASE d # c
    BY <1>3, <2>1 DEF NicInv, PacketsInOrder
  <2>2. CASE d = c
    <3> DEFINE q == packets'[c]
               p == packets[c]
    <3>1. /\ taken[c] <= stamped[c] /\ stamped[c] <= n
          /\ \A j \in 1 .. n : p[j] \in 1 .. sent[c]
          /\ \A i, j \in 1 .. n : i < j => p[i] < p[j]
      BY DEF NicInv, PacketsInOrder
    <3>2. /\ n \in Nat /\ Len(q) = n + 1 /\ q[n + 1] = k
          /\ \A j \in 1 .. n : q[j] = p[j] /\ p[j] < k
      BY <1>1, <1>2, <1>4, <3>1
    <3> HIDE DEF p, q, n
    <3>3. \A j \in 1 .. Len(q) : j = n + 1 \/ j \in 1 .. n
      BY <3>2
    <3>4. \A j \in 1 .. Len(q) : q[j] \in 1 .. sent[c]
      BY <1>2, <3>1, <3>2, <3>3
    <3>5. \A i, j \in 1 .. Len(q) : i < j => q[i] < q[j]
      <4> SUFFICES ASSUME NEW i \in 1 .. Len(q), NEW j \in 1 .. Len(q), i < j
                   PROVE  q[i] < q[j]
        OBVIOUS
      <4>1. i \in 1 .. n
        BY <3>2
      <4>2. CASE j = n + 1
        BY <3>2, <4>1, <4>2
      <4>3. CASE j \in 1 .. n
        BY <3>1, <3>2, <4>1, <4>3
      <4> QED
        BY <3>3, <4>2, <4>3
    <3>6. stamped[c] <= Len(q)
      BY <1>5, <3>1, <3>2
    <3> QED
      BY <2>2, <3>1, <3>4, <3>5, <3>6 DEF q
  <2> QED
    BY <2>1, <2>2
<1>8. \A d \in Conns : LastRead(d)' = LastRead(d) /\ OnWire(d) <= OnWire(d)'
  <2> SUFFICES ASSUME NEW d \in Conns
               PROVE  LastRead(d)' = LastRead(d) /\ OnWire(d) <= OnWire(d)'
    OBVIOUS
  <2>1. CASE d # c
    <3>1. packets'[d] = packets[d] /\ taken' = taken
      BY <1>3, <2>1
    <3>2. LastRead(d)' = LastRead(d) /\ OnWire(d)' = OnWire(d)
      BY <3>1 DEF LastRead, OnWire
    <3>3. OnWire(d) \in 0 .. sent[d]
      BY OnWireIsLast
    <3> QED
      BY <3>2, <3>3
  <2>2. CASE d = c
    <3>1. LastRead(c)' = LastRead(c)
      BY <1>3, <1>4, <1>5 DEF LastRead
    <3>2. OnWire(c)' = k
      <4>1. packets'[c] # <<>>
        BY <1>2, <1>3
      <4>2. Last(packets'[c]) = k
        BY <1>4 DEF Last
      <4> QED
        BY <4>1, <4>2 DEF OnWire
    <3> QED
      BY <1>1, <1>2, <2>2, <3>1, <3>2
  <2> QED
    BY <2>1, <2>2
<1>9. \A d \in Conns : \A i \in 1 .. LastRead(d) : Stamp(d, i)' = Stamp(d, i)
  <2> SUFFICES ASSUME NEW d \in Conns, NEW i \in 1 .. LastRead(d)
               PROVE  Stamp(d, i)' = Stamp(d, i)
    OBVIOUS
  <2>1. CASE d # c
    <3>1. packets'[d] = packets[d]
      BY <1>3, <2>1
    <3> QED
      BY <3>1 DEF Stamp, SelectInSeq
  <2>2. CASE d = c
    BY <1>2, <1>3, <2>2, StampKept
  <2> QED
    BY <2>1, <2>2
<1>10. IdsInPlace' /\ TailInRange'
  BY <1>8 DEF NicInv, IdsInPlace, TailInRange
<1>11. CursorsKeepCount' /\ StampsInPlace'
  <2>1. ASSUME NEW d \in Conns
        PROVE  /\ OnWire(d) \in Nat /\ OnWire(d)' \in Nat /\ LastRead(d) \in Nat
               /\ ring[d].tail \in Nat /\ answered[d] \in Nat
    <3>1. packets'[d] \in Seq(Nat) /\ answered[d] \in Nat /\ ring[d] \in Rings(Nat)
          /\ sent[d] \in Nat /\ CtrMod \in Nat
      BY <1>6, RingAssumption DEF NicTypeOK, TypeOK
    <3>2. OnWire(d)' \in Nat
      BY <3>1 DEF OnWire, Last
    <3>3. ring[d].tail \in Nat
      BY <3>1 DEF Rings, Cursors
    <3> QED
      BY <3>1, <3>2, <3>3, OnWireIsLast
  <2>2. CursorsKeepCount'
    BY <1>8, <2>1 DEF NicInv, CursorsKeepCount
  <2>3. \A d \in Conns : \A i \in (answered[d] + 1) .. ring[d].tail :
          ~overrun[d] => i \in 1 .. LastRead(d)
    BY <2>1 DEF NicInv, StampsInPlace
  <2>4. StampsInPlace'
    BY <1>8, <1>9, <2>3 DEF NicInv, StampsInPlace
  <2> QED
    BY <2>2, <2>4
<1> QED
  BY <1>6, <1>7, <1>10, <1>11 DEF NicInv

LEMMA StampArrivesInv ==
  ASSUME NicInv, NEW c \in Conns, StampArrives(c)
  PROVE  NicInv'
<1> USE DEF StampArrives, vars, thread, conn, net, history
<1>1. /\ stamped[c] \in Nat /\ taken[c] \in Nat /\ Len(packets[c]) \in Nat
      /\ taken[c] <= stamped[c] /\ stamped[c] < Len(packets[c])
      /\ stamped' = [stamped EXCEPT ![c] = @ + 1]
  BY DEF NicInv, NicTypeOK, PacketsInOrder
<1>2. NicTypeOK' /\ BytesConserved' /\ PendingInFlight' /\ SampleOfItsPacket'
  <2>1. stamped' \in [Conns -> Nat]
    BY <1>1 DEF NicInv, NicTypeOK
  <2> QED
    BY <2>1 DEF NicInv, NicTypeOK, TypeOK, BytesConserved, PendingInFlight,
                SampleOfItsPacket, SampleCorrect
<1>3. PacketsInOrder'
  BY <1>1 DEF NicInv, NicTypeOK, PacketsInOrder
<1>4. \A d \in Conns : LastRead(d)' = LastRead(d) /\ OnWire(d)' = OnWire(d)
  BY DEF LastRead, OnWire
<1>5. \A d, i : Stamp(d, i)' = Stamp(d, i)
  BY DEF Stamp, SelectInSeq
<1>6. IdsInPlace' /\ TailInRange' /\ CursorsKeepCount'
  BY <1>4 DEF NicInv, IdsInPlace, TailInRange, CursorsKeepCount
<1>7. StampsInPlace'
  BY <1>4, <1>5 DEF NicInv, StampsInPlace
<1> QED
  BY <1>2, <1>3, <1>6, <1>7 DEF NicInv

(* The slot of the next request gets its identifier. *)
LEMMA SendIds ==
  ASSUME NicInv, NEW c \in Conns,
         sent' = [sent EXCEPT ![c] = @ + 1],
         optid' = [optid EXCEPT ![c][SlotOf(ring[c].head)] = sent[c] + 1]
  PROVE  IdsInPlace'
<1>1. /\ optid \in [Conns -> [Slots -> Nat]] /\ sent \in [Conns -> Nat]
      /\ ring[c].head = sent[c] /\ MAX_PENDING_REQS \in Nat
  BY RingAssumption DEF NicInv, NicTypeOK, TypeOK, CursorsKeepCount
<1> SUFFICES ASSUME NEW d \in Conns, NEW i \in 1 .. sent'[d]
             PROVE  /\ optid'[d][SlotOf(i - 1)] >= i
                    /\ sent'[d] - i < MAX_PENDING_REQS => optid'[d][SlotOf(i - 1)] = i
  BY DEF IdsInPlace
<1>2. CASE d # c
  BY <1>1, <1>2 DEF NicInv, IdsInPlace
<1>3. CASE d = c
  <2> DEFINE S == sent[c]
  <2>1. /\ S \in Nat /\ sent'[d] = S + 1 /\ i \in 1 .. (S + 1)
        /\ i \in Nat /\ i - 1 \in Nat
    BY <1>1, <1>3
  <2>2. /\ SlotOf(S) \in Slots /\ SlotOf(i - 1) \in Slots
        /\ optid[c] \in [Slots -> Nat]
    BY <1>1, <2>1, SlotFacts
  <2>3. optid'[c] = [optid[c] EXCEPT ![SlotOf(S)] = S + 1]
    BY <1>1
  <2> HIDE DEF S
  <2>4. CASE SlotOf(i - 1) = SlotOf(S)
    <3>1. optid'[d][SlotOf(i - 1)] = S + 1
      BY <1>3, <2>2, <2>3, <2>4
    <3>2. (S + 1) - i < MAX_PENDING_REQS => i = S + 1
      <4> SUFFICES ASSUME (S + 1) - i < MAX_PENDING_REQS, i < S + 1 PROVE FALSE
        BY <2>1
      <4>1. i - 1 < S /\ S - (i - 1) < MAX_PENDING_REQS
        BY <2>1
      <4> QED
        BY <2>1, <2>4, <4>1, SlotFacts
    <3> QED
      BY <2>1, <3>1, <3>2
  <2>5. CASE SlotOf(i - 1) # SlotOf(S)
    <3>1. optid'[d][SlotOf(i - 1)] = optid[c][SlotOf(i - 1)]
      BY <1>3, <2>2, <2>3, <2>5
    <3>2. i # S + 1
      BY <2>1, <2>5
    <3>3. i \in 1 .. S
      BY <2>1, <3>2
    <3>4. /\ optid[c][SlotOf(i - 1)] >= i
          /\ S - i < MAX_PENDING_REQS => optid[c][SlotOf(i - 1)] = i
      BY <3>3 DEF NicInv, IdsInPlace, S
    <3> QED
      BY <1>1, <2>1, <3>1, <3>4
  <2> QED
    BY <2>4, <2>5
<1> QED
  BY <1>2, <1>3

LEMMA NicSendInv ==
  ASSUME NicInv, MaxSends < CtrMod, NEW c \in Conns, NicSend(c)
  PROVE  NicInv'
<1> USE DEF NicSend, thread
<1>1. /\ TypeOK /\ RespLen \in Nat \ {0} /\ MAX_PENDING_REQS \in Nat
      /\ pending_reqs[c] < MAX_PENDING_REQS /\ sent[c] < MaxSends
      /\ MaxSends \in Nat /\ CtrMod \in Nat
  BY WorkerAssumption, RingAssumption DEF NicInv, NicTypeOK, AtSend, CanSend
<1>2. /\ sent[c] \in Nat /\ ring[c] \in Rings(Nat) /\ ring[c].head = sent[c]
      /\ ring[c].tail \in Nat
  BY <1>1 DEF NicInv, TypeOK, CursorsKeepCount, Rings, Cursors
<1>3. Wrap(ring[c].head + 1) = sent[c] + 1 /\ sent[c] + 1 \in Cursors
  BY <1>1, <1>2 DEF Wrap, Cursors
<1> DEFINE r == [ring[c] EXCEPT !.head = sent[c] + 1]
<1>4. ring' = [ring EXCEPT ![c] = r]
  BY <1>1, <1>3 DEF TypeOK
<1>5. /\ r \in Rings(Nat) /\ r.head = sent[c] + 1 /\ r.tail = ring[c].tail
      /\ r.consumed = ring[c].consumed /\ r.time = ring[c].time
  BY <1>2, <1>3 DEF Rings
<1> HIDE DEF r
<1>6. /\ ring' \in [Conns -> Rings(Nat)]
      /\ ring'[c] = r /\ sent'[c] = sent[c] + 1
      /\ \A d \in Conns \ {c} : ring'[d] = ring[d] /\ sent'[d] = sent[d]
  BY <1>1, <1>4, <1>5 DEF TypeOK
<1>7. TypeOK'
  <2>1. ring' \in [Conns -> Rings(Nat)]
    BY <1>6
  <2> QED
    BY <1>1, <2>1 DEF TypeOK
<1>8. optid' \in [Conns -> [Slots -> Nat]]
  <2>1. SlotOf(ring[c].head) \in Slots /\ sent[c] + 1 \in Nat
    BY <1>2, SlotFacts
  <2> QED
    BY <2>1 DEF NicInv, NicTypeOK
<1>9. /\ overrun' \in [Conns -> BOOLEAN]
      /\ \A d \in Conns : overrun[d] => overrun'[d]
      /\ ~overrun'[c] => ring[c].head - ring[c].tail < MAX_PENDING_REQS
  <2>1. /\ overrun \in [Conns -> BOOLEAN]
        /\ overrun' = [overrun EXCEPT ![c] = overrun[c] \/ ring[c].head - ring[c].tail >= MAX_PENDING_REQS]
    BY DEF NicInv, NicTypeOK
  <2>2. ~ (ring[c].head - ring[c].tail >= MAX_PENDING_REQS)
          => ring[c].head - ring[c].tail < MAX_PENDING_REQS
    BY <1>1, <1>2
  <2> QED
    BY <2>1, <2>2, Zenon
<1>10. NicTypeOK'
  BY <1>7, <1>8, <1>9 DEF NicInv, NicTypeOK
<1>11. BytesConserved'
  <2> SUFFICES ASSUME NEW d \in Conns
               PROVE  pending_reqs'[d] * RespLen = owed'[d] + inbox'[d] + buffer_idx'[d]
    BY DEF BytesConserved
  <2>1. pending_reqs[d] * RespLen = owed[d] + inbox[d] + buffer_idx[d]
    BY DEF NicInv, BytesConserved
  <2>2. CASE d # c
    BY <1>1, <2>1, <2>2 DEF TypeOK
  <2>3. CASE d = c
    <3>1. (pending_reqs[c] + 1) * RespLen = pending_reqs[c] * RespLen + RespLen
      BY <1>1 DEF TypeOK
    <3> QED
      BY <1>1, <2>1, <2>3, <3>1 DEF TypeOK
  <2> QED
    BY <2>2, <2>3
<1>12. PendingInFlight'
  BY <1>1 DEF NicInv, PendingInFlight, TypeOK
<1>13. \A d \in Conns : LastRead(d)' = LastRead(d) /\ OnWire(d)' = OnWire(d)
  BY DEF LastRead, OnWire
<1>14. \A d, i : Stamp(d, i)' = Stamp(d, i)
  BY DEF Stamp, SelectInSeq
<1>15. PacketsInOrder'
  <2>1. \A d \in Conns : sent[d] \in Nat /\ sent'[d] \in Nat /\ sent[d] <= sent'[d]
    BY <1>1, <1>2, <1>6 DEF TypeOK
  <2>2. \A d \in Conns : 1 .. sent[d] \subseteq 1 .. sent'[d]
    BY <2>1
  <2> QED
    BY <2>2 DEF NicInv, PacketsInOrder
<1>16. IdsInPlace'
  BY <1>1, SendIds DEF TypeOK
<1>17. CursorsKeepCount'
  <2> SUFFICES ASSUME NEW d \in Conns
               PROVE  /\ ring'[d].head = sent'[d] /\ ring'[d].consumed = answered[d]
                      /\ ring'[d].tail <= OnWire(d)
    BY <1>13 DEF CursorsKeepCount
  <2>1. ring[d].consumed = answered[d] /\ ring[d].tail <= OnWire(d) /\ ring[d].head = sent[d]
    BY DEF NicInv, CursorsKeepCount
  <2> QED
    BY <1>5, <1>6, <2>1
<1>18. TailInRange'
  <2> SUFFICES ASSUME NEW d \in Conns
               PROVE  /\ ring'[d].tail <= LastRead(d)
                      /\ ~overrun'[d] => sent'[d] - ring'[d].tail <= MAX_PENDING_REQS
    BY <1>13 DEF TailInRange
  <2>1. CASE d # c
    BY <1>6, <1>9, <2>1 DEF NicInv, TailInRange
  <2>2. CASE d = c
    BY <1>1, <1>2, <1>5, <1>6, <1>9, <2>2 DEF NicInv, TailInRange
  <2> QED
    BY <2>1, <2>2
<1>19. \A d \in Conns : ring'[d].time = ring[d].time /\ ring'[d].tail = ring[d].tail
  BY <1>5, <1>6
<1>20. StampsInPlace'
  BY <1>9, <1>13, <1>14, <1>19 DEF NicInv, StampsInPlace
<1>21. SampleOfItsPacket'
  BY <1>9 DEF NicInv, SampleOfItsPacket, SampleCorrect
<1> QED
  BY <1>10, <1>11, <1>12, <1>15, <1>16, <1>17, <1>18, <1>20, <1>21 DEF NicInv

-----------------------------------------------------------------------------
(* x is the ring of c, whatever it has matched, once m timestamps were read. *)
RingRead(c, x, m) ==
  LET last == IF m = 0 THEN 0 ELSE packets[c][m]
  IN /\ x \in Rings(Nat) /\ x.head = sent[c]
     /\ m \in Nat /\ m <= stamped[c]
     /\ ring[c].tail <= x.tail /\ x.tail <= last
     /\ ~overrun[c] =>
          /\ x.tail = last
          /\ \A i \in (answered[c] + 1) .. x.tail : x.time[SlotOf(i - 1)] = Stamp(c, i)

LEMMA RingUnread ==
  ASSUME NicInv, NEW c \in Conns, NEW x \in Rings(Nat),
         x.head = sent[c], x.tail = ring[c].tail, x.time = ring[c].time
  PROVE  RingRead(c, x, taken[c])
<1>1. /\ taken[c] \in Nat /\ taken[c] <= stamped[c] /\ ring[c] \in Rings(Nat)
      /\ CtrMod \in Nat
  BY RingAssumption DEF NicInv, NicTypeOK, TypeOK, PacketsInOrder
<1>2. ring[c].tail \in Nat
  BY <1>1 DEF Rings, Cursors
<1>3. ring[c].tail <= LastRead(c)
  BY DEF NicInv, TailInRange
<1>4. ~overrun[c] =>
        /\ ring[c].tail = LastRead(c)
        /\ \A i \in (answered[c] + 1) .. ring[c].tail : ring[c].time[SlotOf(i - 1)] = Stamp(c, i)
  BY DEF NicInv, StampsInPlace
<1> QED
  BY <1>1, <1>2, <1>3, <1>4 DEF RingRead, LastRead

LEMMA RingReadNext ==
  ASSUME NicInv, MaxSends < CtrMod, NEW c \in Conns, HasStamp(c),
         NEW r \in Rings(Nat),
         r.head = sent[c], r.tail = ring[c].tail, r.time = ring[c].time,
         NEW q, q = get_tx_timestamp(r, optid[c], packets[c][taken[c] + 1])
  PROVE  RingRead(c, q, taken[c] + 1) /\ q.consumed = r.consumed
<1>1. /\ taken[c] \in Nat /\ stamped[c] \in Nat
      /\ taken[c] + 1 \in Nat /\ taken[c] + 1 # 0 /\ taken[c] + 1 <= stamped[c]
  BY DEF NicInv, NicTypeOK, HasStamp
<1>2. /\ q \in Rings(Nat) /\ q.head = sent[c] /\ q.consumed = r.consumed
      /\ q.tail <= packets[c][taken[c] + 1]
      /\ ring[c].tail <= q.tail
      /\ ~overrun[c] =>
           /\ q.tail = packets[c][taken[c] + 1]
           /\ \A i \in (answered[c] + 1) .. q.tail : q.time[SlotOf(i - 1)] = Stamp(c, i)
  BY ReadStamp
<1> QED
  BY <1>1, <1>2 DEF RingRead

(* A thread that reads timestamps or matches responses on c keeps the ring  *)
(* in step.                                                                *)
LEMMA RingStep ==
  ASSUME NicInv, NEW c \in Conns, NEW x, NEW m, RingRead(c, x, m),
         NEW n \in Nat, answered[c] <= n, x.consumed = n,
         ring' = [ring EXCEPT ![c] = x], taken' = [taken EXCEPT ![c] = m],
         answered' = [answered EXCEPT ![c] = n],
         UNCHANGED <<sent, optid, packets, stamped, overrun>>
  PROVE  /\ ring' \in [Conns -> Rings(Nat)] /\ taken' \in [Conns -> Nat]
         /\ PacketsInOrder' /\ IdsInPlace' /\ TailInRange'
         /\ CursorsKeepCount' /\ StampsInPlace'
<1>1. /\ ring \in [Conns -> Rings(Nat)] /\ taken \in [Conns -> Nat]
      /\ answered \in [Conns -> Nat] /\ sent \in [Conns -> Nat]
      /\ MAX_PENDING_REQS \in Nat /\ CtrMod \in Nat
  BY RingAssumption DEF NicInv, NicTypeOK, TypeOK
<1> DEFINE last == IF m = 0 THEN 0 ELSE packets[c][m]
<1>2. /\ x \in Rings(Nat) /\ x.head = sent[c]
      /\ m \in Nat /\ m <= stamped[c]
      /\ ring[c].tail <= x.tail /\ x.tail <= last
      /\ ~overrun[c] =>
           /\ x.tail = last
           /\ \A i \in (answered[c] + 1) .. x.tail : x.time[SlotOf(i - 1)] = Stamp(c, i)
  BY DEF RingRead
<1>3. /\ ring'[c] = x /\ taken'[c] = m /\ answered'[c] = n
      /\ \A d \in Conns \ {c} : /\ ring'[d] = ring[d] /\ taken'[d] = taken[d]
                                /\ answered'[d] = answered[d]
  BY <1>1
<1>4. \A d \in Conns \ {c} : LastRead(d)' = LastRead(d)
  BY <1>3 DEF LastRead
<1>5. LastRead(c)' = last
  BY <1>3 DEF LastRead
<1> HIDE DEF last
<1>6. \A d \in Conns : OnWire(d)' = OnWire(d)
  BY DEF OnWire
<1>7. \A d, i : Stamp(d, i)' = Stamp(d, i)
  BY DEF Stamp, SelectInSeq
<1>8. ring[c].tail \in Nat /\ x.tail \in Nat /\ sent[c] \in Nat /\ answered[c] \in Nat
  BY <1>1, <1>2 DEF Rings, Cursors
<1>9. PacketsInOrder'
  <2> SUFFICES ASSUME NEW d \in Conns PROVE taken'[d] <= stamped[d]
    BY DEF NicInv, PacketsInOrder
  <2> QED
    BY <1>2, <1>3 DEF NicInv, PacketsInOrder
<1>10. last \in Nat /\ last <= OnWire(c)
  <2>1. /\ stamped[c] \in Nat /\ packets[c] \in Seq(Nat) /\ stamped[c] <= Len(packets[c])
    BY DEF NicInv, NicTypeOK, PacketsInOrder
  <2>2. CASE m = 0
    BY <2>2, OnWireIsLast DEF last
  <2>3. CASE m # 0
    <3>1. m \in 1 .. Len(packets[c])
      BY <1>2, <2>1, <2>3
    <3> QED
      BY <2>1, <2>3, <3>1, OnWireIsLast DEF last
  <2> QED
    BY <2>2, <2>3
<1>11. IdsInPlace'
  BY DEF NicInv, IdsInPlace
<1>12. TailInRange'
  <2> SUFFICES ASSUME NEW d \in Conns
               PROVE  /\ ring'[d].tail <= LastRead(d)'
                      /\ ~overrun[d] => sent[d] - ring'[d].tail <= MAX_PENDING_REQS
    BY DEF TailInRange
  <2>1. CASE d # c
    BY <1>3, <1>4, <2>1 DEF NicInv, TailInRange
  <2>2. CASE d = c
    BY <1>1, <1>2, <1>3, <1>5, <1>8, <2>2 DEF NicInv, TailInRange
  <2> QED
    BY <2>1, <2>2
<1>13. CursorsKeepCount'
  <2> SUFFICES ASSUME NEW d \in Conns
               PROVE  /\ ring'[d].head = sent[d] /\ ring'[d].consumed = answered'[d]
                      /\ ring'[d].tail <= OnWire(d)
    BY <1>6 DEF CursorsKeepCount
  <2>1. CASE d # c
    BY <1>3, <2>1 DEF NicInv, CursorsKeepCount
  <2>2. CASE d = c
    <3>1. OnWire(c) \in 0 .. sent[c]
      BY OnWireIsLast
    <3> QED
      BY <1>2, <1>3, <1>8, <1>10, <2>2, <3>1
  <2> QED
    BY <2>1, <2>2
<1>14. StampsInPlace'
  <2> SUFFICES ASSUME NEW d \in Conns, ~overrun[d]
               PROVE  /\ ring'[d].tail = LastRead(d)'
                      /\ \A i \in (answered'[d] + 1) .. ring'[d].tail :
                           ring'[d].time[SlotOf(i - 1)] = Stamp(d, i)
    BY <1>7 DEF StampsInPlace
  <2>1. CASE d # c
    BY <1>3, <1>4, <2>1 DEF NicInv, StampsInPlace
  <2>2. CASE d = c
    <3>1. \A i \in (n + 1) .. x.tail : i \in (answered[c] + 1) .. x.tail
      BY <1>8
    <3> QED
      BY <1>2, <1>3, <1>5, <2>2, <3>1
  <2> QED
    BY <2>1, <2>2
<1> QED
  BY <1>1, <1>2, <1>9, <1>11, <1>12, <1>13, <1>14

LEMMA NicTimestampInv ==
  ASSUME NicInv, MaxSends < CtrMod, NEW c \in Conns, NicTimestamp(c)
  PROVE  NicInv'
<1> USE DEF NicTimestamp
<1> DEFINE q == get_tx_timestamp(ring[c], optid[c], packets[c][taken[c] + 1])
<1>1. /\ NicTypeOK /\ ring[c] \in Rings(Nat) /\ ring[c].head = sent[c]
      /\ ring[c].consumed = answered[c] /\ answered[c] \in Nat
  BY DEF NicInv, NicTypeOK, TypeOK, CursorsKeepCount
<1>2. ring' = [ring EXCEPT ![c] = q] /\ taken' = [taken EXCEPT ![c] = taken[c] + 1]
  BY <1>1 DEF NicTypeOK, TypeOK
<1>3. RingRead(c, q, taken[c] + 1) /\ q.consumed = answered[c]
  BY <1>1, RingReadNext
<1>4. /\ UNCHANGED <<sent, answered, sample, owed, inbox, link, optid, packets, stamped, overrun>>
      /\ UNCHANGED <<AgentType, status, load, pending_reqs, closed, buffer_idx, avail_reqs>>
      /\ pc' \in {"tx", "poll", "rx"} /\ ready' \subseteq Conns
  BY <1>1 DEF EventDone, NicTypeOK, TypeOK, net, history
<1> HIDE DEF q, NicTimestamp
<1>5. /\ ring' \in [Conns -> Rings(Nat)] /\ taken' \in [Conns -> Nat]
      /\ PacketsInOrder' /\ IdsInPlace' /\ TailInRange'
      /\ CursorsKeepCount' /\ StampsInPlace'
  <2> DEFINE n == answered[c]
             m == taken[c] + 1
  <2>1. n \in Nat /\ answered[c] <= n /\ answered' = [answered EXCEPT ![c] = n]
    <3>1. answered \in [Conns -> Nat] /\ answered' = answered
      BY <1>1, <1>4 DEF NicTypeOK, TypeOK
    <3> QED
      BY <3>1
  <2>2. RingRead(c, q, m) /\ q.consumed = n /\ taken' = [taken EXCEPT ![c] = m]
    BY <1>2, <1>3
  <2>3. UNCHANGED <<sent, optid, packets, stamped, overrun>>
    BY <1>4
  <2> HIDE DEF n, m
  <2> QED
    BY <1>2, <2>1, <2>2, <2>3, RingStep
<1>6. NicTypeOK'
  BY <1>1, <1>4, <1>5 DEF NicTypeOK, TypeOK
<1>7. BytesConserved' /\ PendingInFlight' /\ SampleOfItsPacket'
  BY <1>4 DEF NicInv, BytesConserved, PendingInFlight, SampleOfItsPacket, SampleCorrect
<1> QED
  BY <1>5, <1>6, <1>7 DEF NicInv

(* The ring that a response is matched on, and what it yields. *)
LEMMA NicMatchRing ==
  ASSUME NicInv, MaxSends < CtrMod, NEW c \in Conns,
         NEW k \in Nat \ {0}, k = RespReqs(c), k <= pending_reqs[c], NicMatch(c)
  PROVE  \E x, m :
           /\ RingRead(c, x, m) /\ x.consumed = answered[c] + (k - 1)
           /\ ring' = [ring EXCEPT ![c] = [x EXCEPT !.consumed = Wrap(@ + 1)]]
           /\ taken' = [taken EXCEPT ![c] = m]
           /\ \/ sample' = sample
              \/ CanPop(x) /\ sample' = [tx |-> Popped(x), rx |-> Stamp(c, answered[c] + k)]
<1> DEFINE r == Skipped(c)
           A == answered[c]
<1>1. /\ ring[c] \in Rings(Nat) /\ sent[c] \in Nat /\ A \in Nat
      /\ CtrMod \in Nat /\ MaxSends \in Nat /\ sent[c] <= MaxSends
      /\ pending_reqs[c] = sent[c] - A /\ pending_reqs[c] \in Nat
      /\ taken \in [Conns -> Nat] /\ ring \in [Conns -> Rings(Nat)]
  BY RingAssumption, WorkerAssumption DEF NicInv, NicTypeOK, TypeOK, PendingInFlight
<1>2. ring[c].head = sent[c] /\ ring[c].consumed = A
  BY DEF NicInv, CursorsKeepCount
<1>3. Wrap(A + (k - 1)) = A + (k - 1) /\ A + (k - 1) \in Cursors
  BY <1>1 DEF Wrap, Cursors
<1>4. r = [ring[c] EXCEPT !.consumed = A + (k - 1)]
  BY <1>2, <1>3 DEF Skipped, blind_skip_tx_timestamps
<1>5. /\ r \in Rings(Nat) /\ r.head = sent[c] /\ r.tail = ring[c].tail
      /\ r.time = ring[c].time /\ r.consumed = A + (k - 1)
  BY <1>1, <1>2, <1>3, <1>4 DEF Rings
<1>6. RingRead(c, r, taken[c])
  BY <1>5, RingUnread
<1>7. taken = [taken EXCEPT ![c] = taken[c]]
  BY <1>1
<1> HIDE DEF r, A
<1> DEFINE q == get_tx_timestamp(r, optid[c], packets[c][taken[c] + 1])
           Outcome(x, m) ==
             /\ RingRead(c, x, m) /\ x.consumed = A + (k - 1)
             /\ ring' = [ring EXCEPT ![c] = [x EXCEPT !.consumed = Wrap(@ + 1)]]
             /\ taken' = [taken EXCEPT ![c] = m]
             /\ \/ sample' = sample
                \/ CanPop(x) /\ sample' = [tx |-> Popped(x), rx |-> Stamp(c, A + k)]
<1>8. HasStamp(c) => RingRead(c, q, taken[c] + 1) /\ q.consumed = A + (k - 1)
  BY <1>5, RingReadNext
<1> HIDE DEF q
<1>9. ASSUME NEW x, CanPop(x), Sampled(c, x)
      PROVE  /\ ring' = [ring EXCEPT ![c] = [x EXCEPT !.consumed = Wrap(@ + 1)]]
             /\ \/ sample' = sample
                \/ sample' = [tx |-> Popped(x), rx |-> Stamp(c, A + k)]
  BY <1>9 DEF Sampled, pop_pending_tx_timestamps, A
<1>10. ASSUME NEW x, Late(c, x)
       PROVE  /\ ring' = [ring EXCEPT ![c] = [x EXCEPT !.consumed = Wrap(@ + 1)]]
              /\ sample' = sample
  BY <1>10 DEF Late
<1>11. \/ CanPop(r) /\ Sampled(c, r) /\ taken' = taken
       \/ HasStamp(c) /\ taken' = [taken EXCEPT ![c] = taken[c] + 1]
            /\ ((CanPop(q) /\ Sampled(c, q)) \/ Late(c, q))
       \/ ~HasStamp(c) /\ taken' = [taken EXCEPT ![c] = taken[c]]
            /\ ((CanPop(r) /\ Sampled(c, r)) \/ Late(c, r))
  BY DEF NicMatch, r, q
<1>12. Outcome(r, taken[c]) \/ Outcome(q, taken[c] + 1)
  BY <1>5, <1>6, <1>7, <1>8, <1>9, <1>10, <1>11
<1> HIDE DEF Outcome
<1>13. \E x, m : Outcome(x, m)
  BY <1>12
<1> QED
  BY <1>13 DEF Outcome, A

LEMMA NicRecvDataInv ==
  ASSUME NicInv, MaxSends < CtrMod, NEW c \in Conns, NicRecvData(c)
  PROVE  NicInv'
<1> USE DEF NicRecvData
<1>1. /\ NicTypeOK /\ TypeOK /\ RespLen \in Nat \ {0} /\ MAX_PENDING_REQS \in Nat
      /\ PendingInFlight /\ BytesConserved /\ MaxSends \in Nat /\ CtrMod \in Nat
  BY WorkerAssumption, RingAssumption DEF NicInv, NicTypeOK
<1> DEFINE k == RespReqs(c)
           n == answered[c] + k
<1>2. /\ Received(c) \in Nat \ {0} /\ Received(c) <= inbox[c]
      /\ Filled(c) \in Nat
      /\ k \in Nat \ {0} /\ k <= pending_reqs[c]
      /\ RespBytes(c) \in Nat /\ RespBytes(c) <= Filled(c)
  BY <1>1, ReadBounds DEF HalfAssert
<1>3. /\ sent[c] \in Nat /\ answered[c] \in Nat /\ sent[c] <= MaxSends
      /\ pending_reqs[c] = sent[c] - answered[c] /\ pending_reqs[c] \in Nat
      /\ n \in Nat /\ n <= sent[c]
  BY <1>1, <1>2 DEF TypeOK, PendingInFlight
<1>4. PICK x, m :
        /\ RingRead(c, x, m) /\ x.consumed = answered[c] + (k - 1)
        /\ ring' = [ring EXCEPT ![c] = [x EXCEPT !.consumed = Wrap(@ + 1)]]
        /\ taken' = [taken EXCEPT ![c] = m]
        /\ \/ sample' = sample
           \/ CanPop(x) /\ sample' = [tx |-> Popped(x), rx |-> Stamp(c, n)]
  BY <1>2, NicMatchRing
<1> HIDE DEF k
<1>5. Wrap((answered[c] + (k - 1)) + 1) = n /\ n \in Cursors
  BY <1>1, <1>2, <1>3 DEF Wrap, Cursors
<1> DEFINE y == [x EXCEPT !.consumed = n]
<1>6. /\ y \in Rings(Nat) /\ y.head = x.head /\ y.tail = x.tail /\ y.time = x.time
      /\ y.consumed = n
  BY <1>4, <1>5 DEF RingRead, Rings
<1>7. ring' = [ring EXCEPT ![c] = y]
  BY <1>4, <1>5
<1> HIDE DEF y
<1>8. RingRead(c, y, m)
  BY <1>4, <1>6 DEF RingRead
<1>9. /\ UNCHANGED <<sent, owed, link, optid, packets, stamped, overrun>>
      /\ UNCHANGED <<AgentType, status, load, closed>>
      /\ answered' = [answered EXCEPT ![c] = n]
      /\ pc' \in {"tx", "poll", "rx"} /\ ready' \subseteq Conns
  BY <1>1 DEF EventDone, TypeOK, k
<1>10. /\ ring' \in [Conns -> Rings(Nat)] /\ taken' \in [Conns -> Nat]
       /\ PacketsInOrder' /\ IdsInPlace' /\ TailInRange'
       /\ CursorsKeepCount' /\ StampsInPlace'
  <2>1. answered[c] <= n /\ n \in Nat
    BY <1>2, <1>3
  <2> HIDE DEF n
  <2> QED
    BY <1>4, <1>6, <1>7, <1>8, <1>9, <2>1, RingStep
(* The timestamp that is found is in the slot of the request which the     *)
(* response answers.                                                       *)
<1>11. ASSUME CanPop(x)
       PROVE  /\ n \in 1 .. OnWire(c) /\ Popped(x) \in Nat
              /\ ~overrun[c] => Popped(x) = Stamp(c, n)
  <2>1. /\ x \in Rings(Nat) /\ x.tail \in Nat /\ x.time \in [Slots -> Nat]
        /\ ~overrun[c] =>
             \A i \in (answered[c] + 1) .. x.tail : x.time[SlotOf(i - 1)] = Stamp(c, i)
    BY <1>1, <1>4 DEF RingRead, Rings, Cursors
  <2>2. n \in (answered[c] + 1) .. x.tail /\ n \in 1 .. x.tail
    BY <1>2, <1>3, <1>4, <1>11, <2>1 DEF CanPop
  <2>3. n - 1 = answered[c] + (k - 1) /\ n - 1 \in Nat
    BY <1>2, <1>3
  <2>4. Popped(x) = x.time[SlotOf(n - 1)]
    BY <1>4, <2>3 DEF Popped
  <2>5. SlotOf(n - 1) \in Slots
    BY <2>3, SlotFacts
  <2>6. x.tail <= OnWire(c)
    <3>1. ring'[c].tail = x.tail /\ OnWire(c)' = OnWire(c)
      BY <1>1, <1>6, <1>7, <1>9 DEF TypeOK, OnWire
    <3> QED
      BY <1>10, <3>1 DEF CursorsKeepCount
  <2>7. n \in 1 .. OnWire(c)
    <3>1. OnWire(c) \in 0 .. sent[c]
      BY OnWireIsLast
    <3> QED
      BY <1>3, <2>1, <2>2, <2>6, <3>1
  <2> HIDE DEF n
  <2> QED
    BY <2>1, <2>2, <2>4, <2>5, <2>7
<1>12. sample' \in [tx : Nat, rx : Nat]
  <2>1. sample \in [tx : Nat, rx : Nat]
    BY <1>1 DEF TypeOK
  <2> HIDE DEF n
  <2>2. CanPop(x) => Stamp(c, n) \in Nat /\ Popped(x) \in Nat
    BY <1>11, StampType
  <2> QED
    BY <1>4, <2>1, <2>2
<1>13. SampleOfItsPacket'
  <2> SUFFICES ASSUME \A d \in Conns : ~overrun[d]
               PROVE  sample'.tx = sample'.rx
    BY <1>9 DEF SampleOfItsPacket, SampleCorrect
  <2>1. sample.tx = sample.rx
    BY DEF NicInv, SampleOfItsPacket, SampleCorrect
  <2> HIDE DEF n
  <2> QED
    BY <1>4, <1>11, <2>1
<1>14. NicTypeOK'
  <2>1. pending_reqs' \in [Conns -> 0 .. MAX_PENDING_REQS]
    BY <1>1, <1>2, <1>3 DEF TypeOK, k
  <2>2. /\ inbox' \in [Conns -> Nat] /\ buffer_idx' \in [Conns -> Nat]
        /\ answered' \in [Conns -> Nat] /\ avail_reqs' \in Int
    BY <1>1, <1>2, <1>3, <1>9 DEF TypeOK, k
  <2> HIDE DEF NicRecvData, n
  <2> QED
    BY <1>1, <1>9, <1>10, <1>12, <2>1, <2>2 DEF NicTypeOK, TypeOK
<1>15. BytesConserved'
  <2> SUFFICES ASSUME NEW d \in Conns
               PROVE  pending_reqs'[d] * RespLen = owed'[d] + inbox'[d] + buffer_idx'[d]
    BY DEF BytesConserved
  <2>1. pending_reqs[d] * RespLen = owed[d] + inbox[d] + buffer_idx[d]
    BY <1>1 DEF BytesConserved
  <2>2. CASE d # c
    BY <1>1, <2>1, <2>2 DEF TypeOK
  <2>3. CASE d = c
    <3>1. (pending_reqs[c] - k) * RespLen = pending_reqs[c] * RespLen - k * RespLen
      BY <1>1, <1>2 DEF TypeOK
    <3>2. Filled(c) = buffer_idx[c] + Received(c) /\ RespBytes(c) = k * RespLen
      BY DEF Filled, RespBytes, k
    <3>3. /\ pending_reqs'[c] = pending_reqs[c] - k
          /\ inbox'[c] = inbox[c] - Received(c)
          /\ buffer_idx'[c] = Filled(c) - RespBytes(c)
          /\ owed'[c] = owed[c]
      BY <1>1 DEF TypeOK, k
    <3> QED
      BY <1>1, <1>2, <2>1, <2>3, <3>1, <3>2, <3>3 DEF TypeOK
  <2> QED
    BY <2>2, <2>3
<1>16. PendingInFlight'
  BY <1>1, <1>2 DEF PendingInFlight, TypeOK, k
<1> QED
  BY <1>10, <1>13, <1>14, <1>15, <1>16 DEF NicInv

LEMMA NicStopInv ==
  ASSUME NicInv, NEW why \in Statuses, Stop(why), UNCHANGED nic
  PROVE  NicInv'
BY NicControlInv DEF Stop, NicInv, NicTypeOK, TypeOK, conn, net, history

LEMMA NicNextInv ==
  ASSUME NicInv, MaxSends < CtrMod, [NicNext]_nicVars
  PROVE  NicInv'
<1> USE DEF Statuses, Links
<1>1. TypeOK
  BY DEF NicInv, NicTypeOK
<1>2. CASE StartLoad /\ UNCHANGED nic
  BY <1>1, <1>2, NicControlInv DEF StartLoad, TypeOK, conn, net, history
<1>3. CASE SkipSend /\ UNCHANGED nic
  BY <1>1, <1>3, NicControlInv DEF SkipSend, TypeOK, conn, net, history
<1>4. CASE NicEpoll
  BY <1>1, <1>4, NicControlInv DEF NicEpoll, TypeOK, conn, net, history
<1>5. ASSUME NEW c \in Conns, UNCHANGED nic,
             \/ SendFull(c) \/ SendError(c) \/ RecvHalf(c) \/ RecvError(c)
      PROVE  NicInv'
  BY <1>5, NicStopInv DEF SendFull, SendError, RecvHalf, RecvError
<1>6. ASSUME NEW c \in Conns, RecvClosed(c), UNCHANGED nic PROVE NicInv'
  BY <1>1, <1>6, NicControlInv DEF RecvClosed, EventDone, TypeOK, net, history
<1>7. ASSUME NEW c \in Conns, PeerFin(c) \/ PeerReset(c), UNCHANGED nic PROVE NicInv'
  BY <1>1, <1>7, NicControlInv DEF PeerFin, PeerReset, TypeOK, thread, conn, history
<1>8. CASE UNCHANGED nicVars
  BY <1>1, <1>8, NicControlInv DEF nicVars, vars, thread, conn, net, history, TypeOK
<1>9. ASSUME NEW c \in Conns,
             \/ NicSend(c) \/ NicTimestamp(c) \/ NicRecvData(c)
             \/ Transmit(c) \/ StampArrives(c) \/ NicDeliver(c)
      PROVE  NicInv'
  BY <1>9, NicSendInv, NicTimestampInv, NicRecvDataInv, TransmitInv, StampArrivesInv,
     NicDeliverInv
<1>10. CASE Stopped /\ UNCHANGED nic
  BY <1>8, <1>10 DEF Stopped, nicVars
<1> QED
  BY <1>2, <1>3, <1>4, <1>5, <1>6, <1>7, <1>8, <1>9, <1>10 DEF NicNext, Shared

-----------------------------------------------------------------------------
(* While fewer than CtrMod requests are sent on a connection, the ring, the *)
(* identifiers of its slots and the packets on the wire stay in step.      *)
THEOREM NicInvariant ==
  ASSUME MaxSends < CtrMod, AgentTypes = {"symmetric"}
  PROVE  NicSpec => []NicInv
<1>1. NicInit => NicInv
  BY NicInitInv
<1>2. NicInv /\ [NicNext]_nicVars => NicInv'
  BY NicNextInv
<1> QED
  BY <1>1, <1>2, PTL DEF NicSpec

(* However late timestamps come, and even after a slot was reused too early, *)
(* get_tx_timestamp never passes a request that has not left, and head and   *)
(* consumed count requests and responses.                                  *)
THEOREM CursorsNeverPass ==
  ASSUME MaxSends < CtrMod, AgentTypes = {"symmetric"}
  PROVE  NicSpec => []CursorsKeepCount
<1>1. NicInv => CursorsKeepCount
  BY DEF NicInv
<1> QED
  BY <1>1, NicInvariant, PTL

(* However packets, timestamps and responses interleave, until a slot is     *)
(* reused before its timestamp was read, the timestamps read are those of    *)
(* the requests up to the tail, each in the slot of its own request.         *)
THEOREM StampsMeetRequests ==
  ASSUME MaxSends < CtrMod, AgentTypes = {"symmetric"}
  PROVE  NicSpec => []StampsInPlace
<1>1. NicInv => StampsInPlace
  BY DEF NicInv
<1> QED
  BY <1>1, NicInvariant, PTL

(* Until then every sample of symmetric_nic_tcp_main is taken with the      *)
(* packet that carried the request which was answered.                     *)
THEOREM SamplesMeetPackets ==
  ASSUME MaxSends < CtrMod, AgentTypes = {"symmetric"}
  PROVE  NicSpec => []SampleOfItsPacket
<1>1. NicInv => SampleOfItsPacket
  BY DEF NicInv
<1> QED
  BY <1>1, NicInvariant, PTL

-----------------------------------------------------------------------------
(* The requests and their slots, which do not depend on the timestamps.    *)

LEMMA NicSlots ==
  ASSUME NicInv, SlotConservation, [NicNext]_nicVars
  PROVE  SlotConservation'
<1>1. /\ TypeOK /\ BytesConserved /\ pending_reqs \in [Conns -> 0 .. MAX_PENDING_REQS]
      /\ MAX_PENDING_REQS \in Nat
  BY RingAssumption DEF NicInv, NicTypeOK, TypeOK
<1>2. ASSUME NEW c \in Conns, NicSend(c) PROVE SlotConservation'
  BY <1>1, <1>2, TakeSlot DEF NicSend, AtSend, CanSend
<1>3. ASSUME NEW c \in Conns, NicRecvData(c) PROVE SlotConservation'
  <2>1. RespReqs(c) \in Nat /\ RespReqs(c) <= pending_reqs[c]
    BY <1>1, <1>3, ReadBounds DEF NicRecvData
  <2> QED
    BY <1>1, <1>3, <2>1, FreeSlots DEF NicRecvData
<1>4. CASE UNCHANGED <<pending_reqs, avail_reqs>>
  BY <1>4 DEF SlotConservation, SlotsInUse
<1>5. ASSUME NEW c \in Conns,
             \/ SendFull(c) \/ SendError(c) \/ RecvHalf(c) \/ RecvError(c) \/ RecvClosed(c)
             \/ PeerFin(c) \/ PeerReset(c) \/ NicTimestamp(c) \/ Transmit(c)
             \/ StampArrives(c) \/ NicDeliver(c)
      PROVE  UNCHANGED <<pending_reqs, avail_reqs>>
  BY <1>5 DEF SendFull, SendError, RecvHalf, RecvError, RecvClosed, PeerFin, PeerReset,
              NicTimestamp, Transmit, StampArrives, NicDeliver, Deliver, Stop, vars, conn
<1>6. CASE StartLoad \/ SkipSend \/ Stopped \/ NicEpoll \/ UNCHANGED nicVars
  BY <1>4, <1>6 DEF StartLoad, SkipSend, Stopped, NicEpoll, nicVars, vars, conn
<1> QED
  BY <1>2, <1>3, <1>4, <1>5, <1>6 DEF NicNext, Shared

(* However late timestamps come, symmetric_nic_tcp_main loses no byte of a  *)
(* response and no request slot.                                           *)
THEOREM NicCountsAgree ==
  ASSUME MaxSends < CtrMod, AgentTypes = {"symmetric"}
  PROVE  NicSpec => [](BytesConserved /\ SlotConservation)
<1>1. NicInit => SlotConservation
  BY InitCount DEF NicInit, CountInv
<1>2. NicInv /\ SlotConservation /\ [NicNext]_nicVars => SlotConservation'
  BY NicSlots
<1>3. NicInv => BytesConserved
  BY DEF NicInv
<1> QED
  BY <1>1, <1>2, <1>3, NicInvariant, PTL DEF NicSpec

(* Every step of the NIC worker is a step or a stutter of FifoRtt's request *)
(* service: the window is kept and answers come in order, whatever happens  *)
(* to the timestamps.                                                      *)
THEOREM NicImplementsRequests ==
  ASSUME MaxSends < CtrMod, AgentTypes = {"symmetric"}
  PROVE  NicSpec => ImplementsRequests
<1> DEFINE abs == <<sent, answered, [tx |-> 0, rx |-> 0]>>
<1>1. NicInit => Requests!Init
  BY DEF NicInit, Init, Requests!Init
<1>2. NicInv /\ [NicNext]_nicVars => [Requests!Next]_abs
  <2> SUFFICES ASSUME NicInv, [NicNext]_nicVars
               PROVE  Requests!Next \/ UNCHANGED <<sent, answered>>
    OBVIOUS
  <2>1. /\ TypeOK /\ BytesConserved /\ PendingInFlight
        /\ pending_reqs \in [Conns -> 0 .. MAX_PENDING_REQS]
        /\ MAX_PENDING_REQS \in Nat
    BY RingAssumption DEF NicInv, NicTypeOK, TypeOK
  <2>2. ASSUME NEW c \in Conns, NicSend(c) PROVE Requests!Next
    <3>1. sent[c] - answered[c] < MAX_PENDING_REQS
      BY <2>1, <2>2 DEF PendingInFlight, NicSend, AtSend, CanSend
    <3>2. Requests!Send(c)
      BY <2>2, <3>1 DEF NicSend, Requests!Send
    <3> QED
      BY <3>2 DEF Requests!Next
  <2>3. ASSUME NEW c \in Conns, NicRecvData(c) PROVE Requests!Next
    <3> DEFINE k == RespReqs(c)
    <3>1. k \in Nat /\ k # 0 /\ k <= pending_reqs[c]
      BY <2>1, <2>3, ReadBounds DEF NicRecvData, HalfAssert
    <3>2. answered' = [answered EXCEPT ![c] = @ + k] /\ sent' = sent
      BY <2>3 DEF NicRecvData
    <3> HIDE DEF k
    <3>3. k \in 1 .. MAX_PENDING_REQS /\ k <= sent[c] - answered[c]
      BY <2>1, <3>1 DEF PendingInFlight
    <3>4. Requests!Answer(c, k)
      BY <3>2, <3>3 DEF Requests!Answer
    <3> QED
      BY <3>3, <3>4 DEF Requests!Next
  <2>4. ASSUME NEW c \in Conns,
               \/ SendFull(c) \/ SendError(c) \/ RecvHalf(c) \/ RecvError(c) \/ RecvClosed(c)
               \/ PeerFin(c) \/ PeerReset(c) \/ NicTimestamp(c) \/ Transmit(c)
               \/ StampArrives(c) \/ NicDeliver(c)
        PROVE  UNCHANGED <<sent, answered>>
    BY <2>4 DEF SendFull, SendError, RecvHalf, RecvError, RecvClosed, PeerFin, PeerReset,
                NicTimestamp, Transmit, StampArrives, NicDeliver, Deliver, Stop, vars, history
  <2>5. CASE StartLoad \/ SkipSend \/ Stopped \/ NicEpoll \/ UNCHANGED nicVars
    BY <2>5 DEF StartLoad, SkipSend, Stopped, NicEpoll, nicVars, vars, history
  <2> QED
    BY <2>2, <2>3, <2>4, <2>5 DEF NicNext, Shared
<1> QED
  BY <1>1, <1>2, NicInvariant, PTL DEF NicSpec, ImplementsRequests, Requests!Spec
=============================================================================
