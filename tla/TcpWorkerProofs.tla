-------------------------- MODULE TcpWorkerProofs --------------------------
(***************************************************************************)
(* What TLC checks of TcpWorker on two connections of two slots, proved    *)
(* for any set of connections, any number of slots, any response size and  *)
(* any fragmentation, in three layers:                                     *)
(*                                                                         *)
(*   CountInv   always: bytes, requests in flight and request slots        *)
(*   RingInv    if the cursors fit the ring (RingFits): the ring's slots   *)
(*              and the samples, past any number of wraps of the cursors,  *)
(*              so that the thread implements FifoRtt                      *)
(*   WorkerInv  while no connection carries CtrMod requests (in the code   *)
(*              2^32): the assertion of pop_pending_tx_timestamps too      *)
(*                                                                         *)
(* and, if responses are never cut short, that only a failing peer stops   *)
(* the thread.                                                             *)
(***************************************************************************)
EXTENDS TcpWorker, FiniteSetTheorems, TLAPS

(* The ring's slots are distinct for any MAX_PENDING_REQS consecutive       *)
(* cursors.                                                                *)
LEMMA ModDistinct ==
  ASSUME NEW M \in Nat \ {0}, NEW a \in Nat, NEW b \in Nat, a < b, b - a < M
  PROVE  a % M # b % M
<1> DEFINE qa == a \div M
           qb == b \div M
<1>1. /\ a = (M * qa) + (a % M)
      /\ b = (M * qb) + (b % M)
      /\ qa \in Int /\ qb \in Int
  OBVIOUS
<1>2. a % M \in 0 .. (M - 1) /\ b % M \in 0 .. (M - 1)
  OBVIOUS
<1> HIDE DEF qa, qb
<1>3. SUFFICES ASSUME a % M = b % M PROVE FALSE
  OBVIOUS
<1>4. M * (qb - qa) = b - a
  BY <1>1, <1>2, <1>3
<1>5. CASE qb - qa <= 0
  <2>1. M * (qb - qa) <= 0
    BY <1>1, <1>5
  <2> QED
    BY <2>1, <1>4
<1>6. CASE qb - qa >= 1
  <2>1. M * (qb - qa) >= M
    BY <1>1, <1>6
  <2> QED
    BY <2>1, <1>4
<1> QED
  BY <1>1, <1>5, <1>6

LEMMA DivFacts ==
  ASSUME NEW R \in Nat \ {0}, NEW x \in Nat
  PROVE  /\ x \div R \in Nat
         /\ (x \div R) * R \in Nat
         /\ (x \div R) * R <= x
<1>1. /\ x = (R * (x \div R)) + (x % R)
      /\ x % R \in 0 .. (R - 1)
      /\ x \div R \in Int
  OBVIOUS
<1>2. x \div R >= 0
  OBVIOUS
<1> QED
  BY <1>1, <1>2

(* A buffer with no more bytes than p responses holds at most p responses. *)
LEMMA DivAtMost ==
  ASSUME NEW R \in Nat \ {0}, NEW x \in Nat, NEW p \in Nat, x <= p * R
  PROVE  x \div R <= p
<1> DEFINE k == x \div R
<1>1. k \in Nat /\ k * R <= x
  BY DivFacts
<1> HIDE DEF k
<1>2. SUFFICES ASSUME k >= p + 1 PROVE FALSE
  BY <1>1 DEF k
<1>3. (k - p) * R >= R
  BY <1>1, <1>2
<1>4. k * R = p * R + (k - p) * R
  BY <1>1
<1> QED
  BY <1>1, <1>3, <1>4

(* A remainder is what is left under the modulus. *)
LEMMA ModUnique ==
  ASSUME NEW M \in Nat \ {0}, NEW q \in Nat, NEW r \in 0 .. (M - 1)
  PROVE  (M * q + r) % M = r
<1> DEFINE n == M * q + r
           p == n \div M
<1>1. M * q \in Nat /\ n \in Nat
  OBVIOUS
<1>2. /\ n = (M * p) + (n % M)
      /\ n % M \in 0 .. (M - 1)
      /\ p \in Int
  BY <1>1
<1>3. M * (q - p) = (n % M) - r
  <2> HIDE DEF p
  <2>1. M * (q - p) = M * q - M * p
    BY <1>2
  <2>2. n - r = M * q
    BY <1>1
  <2> HIDE DEF n
  <2>3. M * p \in Int
    BY <1>2
  <2> QED
    BY <1>1, <1>2, <2>1, <2>2, <2>3
<1> HIDE DEF n, p
<1>4. CASE q - p <= -1
  <2>1. M * (q - p) <= -M
    BY <1>2, <1>4
  <2> QED
    BY <2>1, <1>2, <1>3
<1>5. CASE q - p >= 1
  <2>1. M * (q - p) >= M
    BY <1>2, <1>5
  <2> QED
    BY <2>1, <1>2, <1>3
<1>6. CASE q - p = 0
  BY <1>2, <1>3, <1>6 DEF n
<1> QED
  BY <1>2, <1>4, <1>5, <1>6

LEMMA ModSplit ==
  ASSUME NEW M \in Nat \ {0}, NEW n \in Nat
  PROVE  /\ n % M \in 0 .. (M - 1)
         /\ n \div M \in Nat
         /\ n = M * (n \div M) + (n % M)
<1>1. n \div M \in Int /\ n \div M >= 0
  OBVIOUS
<1> QED
  BY <1>1

LEMMA ModSmall ==
  ASSUME NEW M \in Nat \ {0}, NEW n \in 0 .. (M - 1)
  PROVE  n % M = n
OBVIOUS

(* Adding to a cursor and wrapping once adds to what the cursor counts. *)
LEMMA WrapAdd ==
  ASSUME NEW n \in Nat, NEW k \in 0 .. CtrMod
  PROVE  Wrap((n % CtrMod) + k) = (n + k) % CtrMod
<1>1. CtrMod \in Nat \ {0}
  BY RingAssumption
<1> DEFINE q == n \div CtrMod
           r == n % CtrMod
<1>2. r \in 0 .. (CtrMod - 1) /\ q \in Nat /\ n = CtrMod * q + r
  BY <1>1, ModSplit
<1> HIDE DEF q, r
<1>3. CASE r + k < CtrMod
  <2>1. r + k \in 0 .. (CtrMod - 1)
    BY <1>1, <1>2, <1>3
  <2>2. (CtrMod * q + (r + k)) % CtrMod = r + k
    BY <1>1, <1>2, <2>1, ModUnique
  <2>3. CtrMod * q \in Nat
    BY <1>1, <1>2
  <2>4. n + k = CtrMod * q + (r + k)
    BY <1>2, <2>3
  <2>5. Wrap(r + k) = r + k
    BY <1>1, <1>2, <1>3 DEF Wrap
  <2> QED
    BY <2>2, <2>4, <2>5 DEF r
<1>4. CASE r + k >= CtrMod
  <2>1. r + k - CtrMod \in 0 .. (CtrMod - 1) /\ q + 1 \in Nat
    BY <1>1, <1>2, <1>4
  <2>2. (CtrMod * (q + 1) + (r + k - CtrMod)) % CtrMod = r + k - CtrMod
    BY <1>1, <2>1, ModUnique
  <2>3. CtrMod * q \in Nat /\ CtrMod * (q + 1) = CtrMod * q + CtrMod
    BY <1>1, <1>2
  <2>4. n + k = CtrMod * (q + 1) + (r + k - CtrMod)
    BY <1>1, <1>2, <2>3
  <2>5. Wrap(r + k) = r + k - CtrMod
    BY <1>1, <1>2, <1>4 DEF Wrap
  <2>6. (n + k) % CtrMod = r + k - CtrMod
    BY <2>2, <2>4, Zenon
  <2> QED
    BY <2>5, <2>6, Zenon DEF r
<1> QED
  BY <1>1, <1>2, <1>3, <1>4

(* The slots line up with the cursors: either the cursors never wrap, or    *)
(* the ring divides their range, as 16 slots divide 2^32.                  *)
RingFits == MaxSends < CtrMod \/ CtrMod % MAX_PENDING_REQS = 0

LEMMA SlotWrapped ==
  ASSUME RingFits, NEW n \in 0 .. MaxSends
  PROVE  SlotOf(n % CtrMod) = SlotOf(n)
<1>1. /\ CtrMod \in Nat \ {0} /\ MAX_PENDING_REQS \in Nat \ {0} /\ MaxSends \in Nat
      /\ n \in Nat
  BY RingAssumption, WorkerAssumption
<1>2. CASE MaxSends < CtrMod
  <2>1. n \in 0 .. (CtrMod - 1)
    BY <1>1, <1>2
  <2> QED
    BY <1>1, <2>1, ModSmall
<1>3. CASE CtrMod % MAX_PENDING_REQS = 0
  <2> DEFINE M == MAX_PENDING_REQS
             t == CtrMod \div M
             q == n \div CtrMod
             r == n % CtrMod
             u == r \div M
             s == r % M
  <2>1. t \in Nat /\ CtrMod = M * t + 0
    BY <1>1, <1>3, ModSplit
  <2>2. r \in Nat /\ q \in Nat /\ n = CtrMod * q + r
    BY <1>1, ModSplit
  <2>3. u \in Nat /\ s \in 0 .. (M - 1) /\ r = M * u + s
    BY <1>1, <2>2, ModSplit
  <2>4. t * q + u \in Nat
    BY <2>1, <2>2, <2>3
  <2>5. n = M * (t * q + u) + s
    <3> HIDE DEF M, t, q, r, u, s
    <3>1. M \in Nat
      BY <1>1 DEF M
    <3>2. CtrMod * q = M * (t * q)
      BY <2>1, <2>2, <3>1
    <3>3. t * q \in Nat
      BY <2>1, <2>2
    <3>4. M * (t * q + u) = M * (t * q) + M * u
      BY <2>3, <3>1, <3>3
    <3> QED
      BY <2>2, <2>3, <3>1, <3>2, <3>3, <3>4
  <2>6. (M * (t * q + u) + s) % M = s
    BY <1>1, <2>3, <2>4, ModUnique
  <2> QED
    BY <2>5, <2>6 DEF SlotOf
<1> QED
  BY <1>2, <1>3 DEF RingFits

-----------------------------------------------------------------------------
(* A read in RecvData finds at least one response and no more than are      *)
(* pending, and the bytes that are left still fit in the buffer.           *)
LEMMA ReadBounds ==
  ASSUME TypeOK, BytesConserved, NEW c \in Conns, inbox[c] > 0, Space(c) > 0
  PROVE  /\ Received(c) \in Nat \ {0}
         /\ Received(c) <= inbox[c]
         /\ Filled(c) \in Nat
         /\ RespReqs(c) \in Nat
         /\ RespReqs(c) <= pending_reqs[c]
         /\ RespBytes(c) \in Nat
         /\ RespBytes(c) <= Filled(c)
<1> USE DEF TypeOK
<1>1. /\ RespLen \in Nat \ {0} /\ MAX_PAYLOAD \in Nat /\ MAX_PENDING_REQS \in Nat
      /\ inbox[c] \in Nat /\ owed[c] \in Nat /\ buffer_idx[c] \in Nat
      /\ pending_reqs[c] \in Nat
  BY WorkerAssumption, RingAssumption
<1>2. /\ Received(c) \in Nat \ {0} /\ Received(c) <= inbox[c]
      /\ Filled(c) \in Nat
  BY <1>1 DEF Received, Filled, Space
<1>3. pending_reqs[c] * RespLen = owed[c] + inbox[c] + buffer_idx[c]
  BY DEF BytesConserved
<1>4. Filled(c) <= pending_reqs[c] * RespLen
  BY <1>1, <1>2, <1>3 DEF Filled
<1>5. /\ RespReqs(c) \in Nat /\ RespBytes(c) \in Nat /\ RespBytes(c) <= Filled(c)
  BY <1>1, <1>2, DivFacts DEF RespReqs, RespBytes
<1>6. RespReqs(c) <= pending_reqs[c]
  BY <1>1, <1>2, <1>4, DivAtMost DEF RespReqs
<1> QED
  BY <1>2, <1>5, <1>6

-----------------------------------------------------------------------------
(* The first layer: nothing is lost or counted twice, whatever the ring     *)
(* does.                                                                   *)

(* A ring stays a ring under every operation. *)
LEMMA RingOps ==
  ASSUME NEW r \in Rings(Nat), NEW t \in Nat, NEW k \in 0 .. CtrMod
  PROVE  /\ push_complete_tx_timestamp(r, t) \in Rings(Nat)
         /\ blind_skip_tx_timestamps(r, k) \in Rings(Nat)
         /\ pop_pending_tx_timestamps(r) \in Rings(Nat)
<1>1. MAX_PENDING_REQS \in Nat \ {0} /\ CtrMod \in Nat \ {0}
  BY RingAssumption
<1>2. \A x \in Cursors : \A n \in 0 .. CtrMod : Wrap(x + n) \in Cursors
  BY <1>1 DEF Wrap, Cursors
<1>3. \A n \in Nat : SlotOf(n) \in Slots
  BY <1>1 DEF SlotOf, Slots
<1>4. /\ r.head \in Cursors /\ r.tail \in Cursors /\ r.consumed \in Cursors
      /\ r.time \in [Slots -> Nat] /\ r.tail \in Nat
      /\ 1 \in 0 .. CtrMod
  BY <1>1 DEF Rings, Cursors
<1>5. /\ Wrap(r.head + 1) \in Cursors /\ Wrap(r.tail + 1) \in Cursors
      /\ Wrap(r.consumed + 1) \in Cursors /\ Wrap(r.consumed + k) \in Cursors
  BY <1>2, <1>4
<1>6. push_complete_tx_timestamp(r, t) \in Rings(Nat)
  <2>1. [r.time EXCEPT ![SlotOf(r.tail)] = t] \in [Slots -> Nat]
    BY <1>3, <1>4
  <2> QED
    BY <1>4, <1>5, <2>1 DEF push_complete_tx_timestamp, Rings
<1>7. blind_skip_tx_timestamps(r, k) \in Rings(Nat)
  BY <1>5 DEF blind_skip_tx_timestamps, Rings
<1>8. pop_pending_tx_timestamps(r) \in Rings(Nat)
  BY <1>5 DEF pop_pending_tx_timestamps, Rings
<1> QED
  BY <1>6, <1>7, <1>8

LEMMA SlotsFinite ==
  IsFiniteSet(SlotsInUse)
<1>1. IsFiniteSet(1 .. MAX_PENDING_REQS)
  BY FS_Interval, RingAssumption
<1>2. IsFiniteSet(Conns \X (1 .. MAX_PENDING_REQS))
  BY <1>1, FS_Product, WorkerAssumption
<1> QED
  BY <1>2, FS_Subset DEF SlotsInUse

(* A request takes one slot more of its connection. *)
LEMMA TakeSlot ==
  ASSUME TypeOK, SlotConservation, NEW c \in Conns,
         pending_reqs[c] < MAX_PENDING_REQS,
         pending_reqs' = [pending_reqs EXCEPT ![c] = @ + 1],
         avail_reqs' = avail_reqs - 1
  PROVE  SlotConservation'
<1> DEFINE x == <<c, pending_reqs[c] + 1>>
<1>1. /\ pending_reqs \in [Conns -> 0 .. MAX_PENDING_REQS] /\ avail_reqs \in Int
      /\ MAX_PENDING_REQS \in Nat
  BY RingAssumption DEF TypeOK
<1>2. x \in Conns \X (1 .. MAX_PENDING_REQS) /\ x \notin SlotsInUse
  BY <1>1 DEF SlotsInUse
<1>3. SlotsInUse' = SlotsInUse \cup {x}
  <2>1. ASSUME NEW slot \in Conns \X (1 .. MAX_PENDING_REQS)
        PROVE  slot \in SlotsInUse' <=> slot \in SlotsInUse \cup {x}
    <3>1. PICK d \in Conns, i \in 1 .. MAX_PENDING_REQS : slot = <<d, i>>
      OBVIOUS
    <3>2. CASE d = c
      BY <1>1, <3>1, <3>2 DEF SlotsInUse
    <3>3. CASE d # c
      BY <1>1, <3>1, <3>3 DEF SlotsInUse
    <3> QED
      BY <3>2, <3>3
  <2>2. /\ SlotsInUse \subseteq Conns \X (1 .. MAX_PENDING_REQS)
        /\ SlotsInUse' \subseteq Conns \X (1 .. MAX_PENDING_REQS)
    BY DEF SlotsInUse
  <2> HIDE DEF x
  <2> QED
    BY <1>2, <2>1, <2>2, Zenon
<1> HIDE DEF x
<1>4. Cardinality(SlotsInUse') = Cardinality(SlotsInUse) + 1
  BY <1>2, <1>3, SlotsFinite, FS_AddElement
<1>5. Cardinality(SlotsInUse) \in Nat
  BY SlotsFinite, FS_CardinalityType
<1>6. avail_reqs + Cardinality(SlotsInUse) = Cardinality(Conns) * MAX_PENDING_REQS
  BY DEF SlotConservation
<1>7. avail_reqs' + Cardinality(SlotsInUse') = avail_reqs + Cardinality(SlotsInUse)
  BY <1>1, <1>4, <1>5
<1> QED
  BY <1>6, <1>7 DEF SlotConservation

(* The k responses of a read give back the k last slots. *)
LEMMA FreeSlots ==
  ASSUME TypeOK, SlotConservation, NEW c \in Conns, NEW k \in Nat,
         k <= pending_reqs[c],
         pending_reqs' = [pending_reqs EXCEPT ![c] = @ - k],
         avail_reqs' = avail_reqs + k
  PROVE  SlotConservation'
<1> DEFINE I == (pending_reqs[c] - k + 1) .. pending_reqs[c]
           F == {c} \X I
<1>1. /\ pending_reqs \in [Conns -> 0 .. MAX_PENDING_REQS] /\ avail_reqs \in Int
      /\ MAX_PENDING_REQS \in Nat
  BY RingAssumption DEF TypeOK
<1>2. IsFiniteSet(F) /\ Cardinality(F) = k
  <2>1. pending_reqs[c] \in Nat
    BY <1>1
  <2>2. pending_reqs[c] - k + 1 \in Int
    BY <2>1
  <2>3. IsFiniteSet(I) /\ Cardinality(I) = k
    <3>1. \A a \in Int, b \in Int :
            IsFiniteSet(a .. b) /\ Cardinality(a .. b) = IF a > b THEN 0 ELSE b - a + 1
      BY FS_Interval
    <3> DEFINE a == pending_reqs[c] - k + 1
    <3>2. a \in Int /\ I = a .. pending_reqs[c]
      BY <2>2
    <3>3. (IF a > pending_reqs[c] THEN 0 ELSE pending_reqs[c] - a + 1) = k
      BY <2>1
    <3> HIDE DEF I, a
    <3>4. pending_reqs[c] \in Int
      BY <2>1
    <3>5. /\ IsFiniteSet(a .. pending_reqs[c])
          /\ Cardinality(a .. pending_reqs[c])
               = IF a > pending_reqs[c] THEN 0 ELSE pending_reqs[c] - a + 1
      BY <3>1, <3>2, <3>4, Zenon
    <3> QED
      BY <3>2, <3>3, <3>5, Zenon
  <2>4. IsFiniteSet({c}) /\ Cardinality({c}) = 1
    BY FS_Singleton
  <2> HIDE DEF I
  <2>5. IsFiniteSet(F) /\ Cardinality(F) = 1 * k
    BY <2>3, <2>4, FS_Product
  <2> QED
    BY <2>5
<1>3. F \subseteq SlotsInUse
  BY <1>1 DEF SlotsInUse
<1>4. SlotsInUse' = SlotsInUse \ F
  <2>1. ASSUME NEW slot \in Conns \X (1 .. MAX_PENDING_REQS)
        PROVE  slot \in SlotsInUse' <=> slot \in SlotsInUse \ F
    <3>1. PICK d \in Conns, i \in 1 .. MAX_PENDING_REQS : slot = <<d, i>>
      OBVIOUS
    <3>2. CASE d = c
      BY <1>1, <3>1, <3>2 DEF SlotsInUse
    <3>3. CASE d # c
      BY <1>1, <3>1, <3>3 DEF SlotsInUse
    <3> QED
      BY <3>2, <3>3
  <2>2. /\ SlotsInUse \subseteq Conns \X (1 .. MAX_PENDING_REQS)
        /\ SlotsInUse' \subseteq Conns \X (1 .. MAX_PENDING_REQS)
    BY DEF SlotsInUse
  <2> HIDE DEF F
  <2> QED
    BY <2>1, <2>2, Zenon
<1> HIDE DEF F
<1>5. SlotsInUse \cap F = F
  BY <1>3
<1>6. Cardinality(SlotsInUse') = Cardinality(SlotsInUse) - k
  BY <1>2, <1>4, <1>5, SlotsFinite, FS_Difference
<1>7. Cardinality(SlotsInUse) \in Nat
  BY SlotsFinite, FS_CardinalityType
<1>8. avail_reqs + Cardinality(SlotsInUse) = Cardinality(Conns) * MAX_PENDING_REQS
  BY DEF SlotConservation
<1>9. avail_reqs' + Cardinality(SlotsInUse') = avail_reqs + Cardinality(SlotsInUse)
  BY <1>1, <1>6, <1>7
<1> QED
  BY <1>8, <1>9 DEF SlotConservation

LEMMA InitCount == Init => CountInv
<1> SUFFICES ASSUME Init PROVE CountInv
  OBVIOUS
<1> USE DEF Init
<1>1. TypeOK
  <2>1. avail_reqs \in Int
    <3>1. Cardinality(Conns) \in Nat
      BY WorkerAssumption, FS_CardinalityType
    <3>2. \A m, n \in Nat : m * n \in Int
      OBVIOUS
    <3> QED
      BY <3>1, <3>2, RingAssumption
  <2>2. ZeroRing \in Rings(Nat)
    BY RingAssumption DEF ZeroRing, Rings, Cursors, Slots
  <2>3. ring \in [Conns -> Rings(Nat)]
    BY <2>2
  <2>4. pending_reqs \in [Conns -> 0 .. MAX_PENDING_REQS]
    BY RingAssumption
  <2>5. /\ status \in Statuses /\ link \in [Conns -> Links]
        /\ sample \in [tx : Nat, rx : Nat]
    BY DEF Statuses, Links
  <2>6. /\ buffer_idx \in [Conns -> Nat] /\ owed \in [Conns -> Nat]
        /\ inbox \in [Conns -> Nat] /\ sent \in [Conns -> Nat]
        /\ answered \in [Conns -> Nat] /\ closed \in [Conns -> BOOLEAN]
    OBVIOUS
  <2> QED
    BY <2>1, <2>3, <2>4, <2>5, <2>6 DEF TypeOK
<1>2. BytesConserved
  BY WorkerAssumption DEF BytesConserved
<1>3. PendingInFlight
  BY WorkerAssumption DEF PendingInFlight
<1>4. SlotConservation
  <2>1. SlotsInUse = {}
    BY DEF SlotsInUse
  <2>2. avail_reqs \in Int
    BY <1>1 DEF TypeOK
  <2> QED
    BY <2>1, <2>2, FS_EmptySet DEF SlotConservation
<1> QED
  BY <1>1, <1>2, <1>3, <1>4 DEF CountInv

LEMMA SendCount ==
  ASSUME CountInv, NEW c \in Conns, Send(c)
  PROVE  CountInv'
<1> USE DEF Send
<1>1. /\ TypeOK /\ RespLen \in Nat \ {0} /\ MAX_PENDING_REQS \in Nat \ {0}
      /\ pending_reqs[c] < MAX_PENDING_REQS /\ sent[c] < MaxSends
      /\ MaxSends \in Nat
  BY WorkerAssumption, RingAssumption DEF CountInv, AtSend, CanSend
<1>2. ring' \in [Conns -> Rings(Nat)]
  <2> DEFINE r == push_complete_tx_timestamp(ring[c], sent[c] + 1)
  <2>1. r \in Rings(Nat)
    <3>1. ring[c] \in Rings(Nat) /\ sent[c] + 1 \in Nat /\ 0 \in 0 .. CtrMod
      BY <1>1, RingAssumption DEF TypeOK
    <3> QED
      BY <3>1, RingOps
  <2>2. ring' \in {ring, [ring EXCEPT ![c] = r]}
    OBVIOUS
  <2> HIDE DEF r
  <2> QED
    BY <1>1, <2>1, <2>2 DEF TypeOK
<1>3. TypeOK'
  BY <1>1, <1>2 DEF TypeOK
<1>4. BytesConserved'
  <2> SUFFICES ASSUME NEW d \in Conns
               PROVE  pending_reqs'[d] * RespLen = owed'[d] + inbox'[d] + buffer_idx'[d]
    BY DEF BytesConserved
  <2>1. pending_reqs[d] * RespLen = owed[d] + inbox[d] + buffer_idx[d]
    BY DEF CountInv, BytesConserved
  <2>2. CASE d # c
    BY <1>1, <2>1, <2>2 DEF TypeOK
  <2>3. CASE d = c
    <3>1. (pending_reqs[c] + 1) * RespLen = pending_reqs[c] * RespLen + RespLen
      BY <1>1 DEF TypeOK
    <3> QED
      BY <1>1, <2>1, <2>3, <3>1 DEF TypeOK
  <2> QED
    BY <2>2, <2>3
<1>5. PendingInFlight'
  BY <1>1 DEF CountInv, PendingInFlight, TypeOK
<1>6. SlotConservation'
  BY <1>1, TakeSlot DEF CountInv
<1> QED
  BY <1>3, <1>4, <1>5, <1>6 DEF CountInv

(* A read in RecvData ends between one request and all that are pending. *)
LEMMA RecvReqs ==
  ASSUME TypeOK, BytesConserved, NEW c \in Conns, RecvData(c)
  PROVE  RespReqs(c) \in 1 .. pending_reqs[c]
<1>1. inbox[c] > 0 /\ Space(c) > 0 /\ RespReqs(c) # 0
  BY DEF RecvData, HalfAssert
<1>2. RespReqs(c) \in Nat /\ RespReqs(c) <= pending_reqs[c]
  BY <1>1, ReadBounds
<1>3. pending_reqs[c] \in Nat
  BY RingAssumption DEF TypeOK
<1> QED
  BY <1>1, <1>2, <1>3

LEMMA RecvDataCount ==
  ASSUME CountInv, NEW c \in Conns, RecvData(c)
  PROVE  CountInv'
<1>1. /\ TypeOK /\ BytesConserved /\ RespLen \in Nat \ {0}
      /\ MAX_PENDING_REQS \in Nat \ {0} /\ CtrMod \in Nat
      /\ CtrMod > MAX_PENDING_REQS /\ MaxSends \in Nat
      /\ PendingInFlight /\ SlotConservation
  BY WorkerAssumption, RingAssumption DEF CountInv
<1> DEFINE k == RespReqs(c)
           n == answered[c] + k
<1>2. /\ Received(c) \in Nat \ {0} /\ Received(c) <= inbox[c]
      /\ Filled(c) \in Nat
      /\ RespBytes(c) \in Nat /\ RespBytes(c) <= Filled(c)
  BY <1>1, ReadBounds DEF RecvData
<1>3. k \in 1 .. pending_reqs[c] /\ k \in Nat
  BY <1>1, RecvReqs DEF TypeOK
<1> USE DEF RecvData
<1> DEFINE Matched == ring' \in [Conns -> Rings(Nat)] /\ sample' \in [tx : Nat, rx : Nat]
<1>4. Matched
  <2>1. k - 1 \in 0 .. CtrMod /\ ring[c] \in Rings(Nat) /\ n \in Nat
    BY <1>1, <1>3 DEF TypeOK
  <2> HIDE DEF k, n
  <2> DEFINE s == blind_skip_tx_timestamps(ring[c], k - 1)
  <2>2. s \in Rings(Nat)
    BY <2>1, RingOps
  <2>3. s = Skipped(c)
    BY DEF Skipped, k
  <2> HIDE DEF s
  <2>4. pop_pending_tx_timestamps(s) \in Rings(Nat)
    BY <2>1, <2>2, RingOps
  <2>5. CanPop(s) => Popped(s) \in Nat
    <3>1. s.consumed \in Nat /\ s.time \in [Slots -> Nat]
      BY <1>1, <2>2 DEF Rings, Cursors
    <3>2. SlotOf(s.consumed) \in Slots
      BY <1>1, <3>1 DEF SlotOf, Slots
    <3> QED
      BY <3>1, <3>2 DEF Popped
  <2>6. ring' \in {ring, [ring EXCEPT ![c] = pop_pending_tx_timestamps(s)]}
    BY <2>3 DEF Match
  <2>7. \/ sample' = sample
        \/ CanPop(s) /\ sample' = [tx |-> Popped(s), rx |-> n]
    BY <2>3 DEF Match, n, k
  <2>8. ring' \in [Conns -> Rings(Nat)]
    BY <1>1, <2>4, <2>6 DEF TypeOK
  <2> QED
    BY <1>1, <2>1, <2>5, <2>7, <2>8 DEF TypeOK
<1> HIDE DEF k
<1>5. pc' \in {"tx", "poll", "rx"} /\ ready' \subseteq Conns
  BY <1>1 DEF EventDone, TypeOK
<1>6. TypeOK'
  BY <1>1, <1>2, <1>3, <1>4, <1>5 DEF TypeOK, k
<1>7. BytesConserved'
  <2> SUFFICES ASSUME NEW d \in Conns
               PROVE  pending_reqs'[d] * RespLen = owed'[d] + inbox'[d] + buffer_idx'[d]
    BY DEF BytesConserved
  <2>1. pending_reqs[d] * RespLen = owed[d] + inbox[d] + buffer_idx[d]
    BY <1>1 DEF BytesConserved
  <2>2. CASE d # c
    BY <1>1, <2>1, <2>2 DEF TypeOK
  <2>3. CASE d = c
    <3>1. (pending_reqs[c] - k) * RespLen = pending_reqs[c] * RespLen - k * RespLen
      BY <1>1, <1>3 DEF TypeOK
    <3>2. Filled(c) = buffer_idx[c] + Received(c) /\ RespBytes(c) = k * RespLen
      BY DEF Filled, RespBytes, k
    <3>3. /\ pending_reqs'[c] = pending_reqs[c] - k
          /\ inbox'[c] = inbox[c] - Received(c)
          /\ buffer_idx'[c] = Filled(c) - RespBytes(c)
          /\ owed'[c] = owed[c]
      BY <1>1 DEF TypeOK, k
    <3> QED
      BY <1>1, <1>2, <2>1, <2>3, <3>1, <3>2, <3>3 DEF TypeOK
  <2> QED
    BY <2>2, <2>3
<1>8. PendingInFlight'
  BY <1>1, <1>3 DEF PendingInFlight, TypeOK, k
<1>9. SlotConservation'
  <2>1. k <= pending_reqs[c]
    BY <1>1, <1>3 DEF TypeOK
  <2>2. /\ pending_reqs' = [pending_reqs EXCEPT ![c] = @ - k]
        /\ avail_reqs' = avail_reqs + k
    BY DEF k
  <2> QED
    BY <1>1, <1>3, <2>1, <2>2, FreeSlots
<1> QED
  BY <1>6, <1>7, <1>8, <1>9 DEF CountInv

LEMMA DeliverCount ==
  ASSUME CountInv, NEW c \in Conns, Deliver(c)
  PROVE  CountInv'
<1> USE DEF Deliver, thread, conn, history
<1>1. PICK n \in Chunks : /\ n <= owed[c]
                          /\ owed' = [owed EXCEPT ![c] = @ - n]
                          /\ inbox' = [inbox EXCEPT ![c] = @ + n]
  OBVIOUS
<1>2. TypeOK /\ n \in Nat
  BY WorkerAssumption DEF CountInv
<1>3. TypeOK'
  BY <1>1, <1>2 DEF TypeOK
<1>4. BytesConserved'
  BY <1>1, <1>2 DEF CountInv, BytesConserved, TypeOK
<1> QED
  BY <1>3, <1>4 DEF CountInv, PendingInFlight, SlotConservation, SlotsInUse

(* The other actions change neither the counters nor the ring. *)
Control ==
  /\ UNCHANGED <<pending_reqs, buffer_idx, avail_reqs, ring, owed, inbox, sent, answered,
                 sample, AgentType>>
  /\ status' \in Statuses /\ pc' \in {"tx", "poll", "rx"} /\ ready' \subseteq Conns
  /\ load' \in BOOLEAN /\ closed' \in [Conns -> BOOLEAN] /\ link' \in [Conns -> Links]

LEMMA ControlSteps ==
  ASSUME TypeOK, [Next]_vars
  PROVE  \/ \E c \in Conns : Send(c) \/ RecvData(c) \/ Deliver(c)
         \/ Control
<1> USE DEF TypeOK, Control
<1>1. ASSUME NEW why \in Statuses, Stop(why) PROVE Control
  BY <1>1 DEF Stop, conn, net, history
<1>2. CASE StartLoad \/ SkipSend \/ Epoll
  BY <1>2 DEF StartLoad, SkipSend, Epoll, conn, net, history
<1>3. ASSUME NEW c \in Conns,
             \/ SendFull(c) \/ SendError(c) \/ RecvHalf(c) \/ RecvRing(c) \/ RecvSlow(c)
             \/ RecvError(c)
      PROVE  Control
  <2>1. \E why \in Statuses : Stop(why)
    BY <1>3 DEF SendFull, SendError, RecvHalf, RecvRing, RecvSlow, RecvError, Statuses
  <2> HIDE DEF TypeOK, Control
  <2> QED
    BY <1>1, <2>1
<1>4. ASSUME NEW c \in Conns, RecvClosed(c) PROVE Control
  BY <1>4 DEF RecvClosed, EventDone, net, history
<1>5. ASSUME NEW c \in Conns, PeerFin(c) \/ PeerReset(c) PROVE Control
  <2>1. link' \in [Conns -> Links]
    BY <1>5 DEF PeerFin, PeerReset, Links
  <2> QED
    BY <1>5, <2>1 DEF PeerFin, PeerReset, thread, conn, history
<1>6. CASE UNCHANGED vars
  BY <1>6 DEF vars, thread, conn, net, history
<1> HIDE DEF TypeOK, Control
<1> QED
  BY <1>2, <1>3, <1>4, <1>5, <1>6 DEF Next, Worker, Tx, Event, Stopped

LEMMA ControlCount ==
  ASSUME CountInv, Control
  PROVE  CountInv'
<1>1. TypeOK'
  BY DEF CountInv, TypeOK, Control
<1> QED
  BY <1>1 DEF CountInv, BytesConserved, PendingInFlight, SlotConservation, SlotsInUse, Control

LEMMA NextCount ==
  ASSUME CountInv, [Next]_vars
  PROVE  CountInv'
<1>1. \/ \E c \in Conns : Send(c) \/ RecvData(c) \/ Deliver(c)
      \/ Control
  BY ControlSteps DEF CountInv
<1> QED
  BY <1>1, SendCount, RecvDataCount, DeliverCount, ControlCount

-----------------------------------------------------------------------------
(* Whatever is closed, cut short or wrapped, every byte of a response, every *)
(* request in flight and every request slot is accounted for.              *)
THEOREM CountsAgree == Spec => []CountInv
<1>1. Init => CountInv
  BY InitCount
<1>2. CountInv /\ [Next]_vars => CountInv'
  BY NextCount
<1> QED
  BY <1>1, <1>2, PTL DEF Spec

(* No byte of a response is lost or counted twice between the server, the   *)
(* kernel, the connection's buffer and process_response, however the        *)
(* network cuts the responses.                                             *)
THEOREM NoByteLost == Spec => []BytesConserved
<1>1. CountInv => BytesConserved
  BY DEF CountInv
<1> QED
  BY <1>1, CountsAgree, PTL

(* avail_reqs, which throughput_tcp_main and symmetric_tcp_main keep beside *)
(* the pending_reqs of the connections, never drifts from them.            *)
THEOREM NoSlotLost == Spec => []SlotConservation
<1>1. CountInv => SlotConservation
  BY DEF CountInv
<1> QED
  BY <1>1, CountsAgree, PTL

-----------------------------------------------------------------------------
(* The second layer: the ring, past any number of wraps of its cursors if   *)
(* its slots line up with them.                                            *)

LEMMA InitRing == Init => RingInv
<1> SUFFICES ASSUME Init PROVE RingInv
  OBVIOUS
<1>1. CountInv
  BY InitCount
<1> USE DEF Init
<1>2. CursorsCount
  <2>1. 0 % CtrMod = 0
    BY RingAssumption, ModSmall
  <2> QED
    BY <2>1 DEF CursorsCount, ZeroRing
<1>3. RingMatch
  BY DEF RingMatch
<1> QED
  BY <1>1, <1>2, <1>3 DEF RingInv, SampleCorrect

(* Pushing the timestamp of the next request: the slot it takes belongs to  *)
(* no request in flight.                                                   *)
LEMMA PushedRing ==
  ASSUME RingInv, RingFits, AgentType = "symmetric",
         NEW c \in Conns, pending_reqs[c] < MAX_PENDING_REQS, sent[c] < MaxSends,
         NEW r, r = push_complete_tx_timestamp(ring[c], sent[c] + 1)
  PROVE  /\ r.head = (sent[c] + 1) % CtrMod /\ r.tail = (sent[c] + 1) % CtrMod
         /\ r.consumed = answered[c] % CtrMod
         /\ \A i \in (answered[c] + 1) .. (sent[c] + 1) : r.time[SlotOf(i - 1)] = i
<1>1. /\ ring[c] \in Rings(Nat) /\ sent[c] \in Nat /\ answered[c] \in Nat
      /\ MAX_PENDING_REQS \in Nat \ {0} /\ CtrMod \in Nat /\ CtrMod >= 1
      /\ MaxSends \in Nat /\ pending_reqs[c] \in Nat
  BY RingAssumption, WorkerAssumption DEF RingInv, CountInv, TypeOK
<1>2. /\ ring[c].head = sent[c] % CtrMod /\ ring[c].tail = sent[c] % CtrMod
      /\ ring[c].consumed = answered[c] % CtrMod
  BY DEF RingInv, CursorsCount
<1>3. pending_reqs[c] = sent[c] - answered[c]
  BY DEF RingInv, CountInv, PendingInFlight
<1>4. Wrap((sent[c] % CtrMod) + 1) = (sent[c] + 1) % CtrMod
  BY <1>1, WrapAdd
<1>5. SlotOf(sent[c] % CtrMod) = SlotOf(sent[c])
  BY <1>1, SlotWrapped
<1>6. /\ r.head = Wrap((sent[c] % CtrMod) + 1) /\ r.tail = Wrap((sent[c] % CtrMod) + 1)
      /\ r.consumed = answered[c] % CtrMod
      /\ r.time = [ring[c].time EXCEPT ![SlotOf(sent[c])] = sent[c] + 1]
  BY <1>1, <1>2, <1>5 DEF push_complete_tx_timestamp, Rings
<1>7. ring[c].time \in [Slots -> Nat]
  BY <1>1 DEF Rings
<1>8. \A n \in Nat : SlotOf(n) \in Slots
  BY <1>1 DEF SlotOf, Slots
<1>9. ASSUME NEW i \in (answered[c] + 1) .. (sent[c] + 1)
      PROVE  r.time[SlotOf(i - 1)] = i
  <2>1. i - 1 \in Nat /\ i \in Nat
    BY <1>1
  <2>2. CASE i = sent[c] + 1
    BY <1>1, <1>6, <1>7, <1>8, <2>2
  <2>3. CASE i <= sent[c]
    <3>1. i - 1 < sent[c] /\ sent[c] - (i - 1) < MAX_PENDING_REQS
      BY <1>1, <1>3, <2>1, <2>3
    <3>2. SlotOf(i - 1) # SlotOf(sent[c])
      BY <1>1, <2>1, <3>1, ModDistinct DEF SlotOf
    <3>3. ring[c].time[SlotOf(i - 1)] = i
      BY <1>1, <2>1, <2>3 DEF RingInv, RingMatch
    <3> QED
      BY <1>6, <1>7, <1>8, <2>1, <3>2, <3>3
  <2> QED
    BY <1>1, <2>1, <2>2, <2>3
<1> QED
  BY <1>4, <1>6, <1>9

(* What the blind skip of all responses but the k-th leaves. *)
LEMMA SkippedRing ==
  ASSUME RingInv, AgentType = "symmetric",
         NEW c \in Conns, RespReqs(c) \in 1 .. pending_reqs[c]
  PROVE  /\ Skipped(c).head = sent[c] % CtrMod /\ Skipped(c).tail = sent[c] % CtrMod
         /\ Skipped(c).consumed = ((answered[c] + RespReqs(c)) - 1) % CtrMod
         /\ Skipped(c).time = ring[c].time
<1> DEFINE k == RespReqs(c)
<1>1. /\ ring[c] \in Rings(Nat) /\ answered[c] \in Nat
      /\ pending_reqs[c] \in 0 .. MAX_PENDING_REQS /\ MAX_PENDING_REQS \in Nat
      /\ CtrMod \in Nat /\ CtrMod > MAX_PENDING_REQS
  BY RingAssumption DEF RingInv, CountInv, TypeOK
<1>2. /\ ring[c].head = sent[c] % CtrMod /\ ring[c].tail = sent[c] % CtrMod
      /\ ring[c].consumed = answered[c] % CtrMod
  BY DEF RingInv, CursorsCount
<1>3. k \in Nat /\ k - 1 \in 0 .. CtrMod
  BY <1>1
<1> HIDE DEF k
<1>4. Wrap((answered[c] % CtrMod) + (k - 1)) = (answered[c] + (k - 1)) % CtrMod
  BY <1>1, <1>3, WrapAdd
<1>5. answered[c] + (k - 1) = (answered[c] + k) - 1
  BY <1>1, <1>3
<1>6. Skipped(c) = [ring[c] EXCEPT !.consumed = Wrap((answered[c] % CtrMod) + (k - 1))]
  BY <1>1, <1>2 DEF Skipped, blind_skip_tx_timestamps, k, Rings
<1>7. Skipped(c).consumed = ((answered[c] + k) - 1) % CtrMod
  BY <1>1, <1>4, <1>5, <1>6 DEF Rings
<1> QED
  BY <1>1, <1>2, <1>6, <1>7 DEF k, Rings

(* Popping for the k-th response, once the assertion has passed: there is a *)
(* timestamp, and it is that of the request which the response answers.    *)
LEMMA PoppedRing ==
  ASSUME RingInv, RingFits, AgentType = "symmetric",
         NEW c \in Conns, RespReqs(c) \in 1 .. pending_reqs[c], PopAssert(Skipped(c))
  PROVE  LET r == pop_pending_tx_timestamps(Skipped(c))
             n == answered[c] + RespReqs(c)
         IN  /\ CanPop(Skipped(c))
             /\ Popped(Skipped(c)) = n
             /\ r.head = sent[c] % CtrMod /\ r.tail = sent[c] % CtrMod
             /\ r.consumed = n % CtrMod
             /\ r.time = ring[c].time
<1> DEFINE k == RespReqs(c)
           s == Skipped(c)
           n == answered[c] + k
<1>1. /\ sent[c] \in Nat /\ answered[c] \in Nat
      /\ MAX_PENDING_REQS \in Nat \ {0} /\ CtrMod \in Nat \ {0}
      /\ CtrMod > MAX_PENDING_REQS /\ MaxSends \in Nat
      /\ pending_reqs[c] \in 0 .. MAX_PENDING_REQS
      /\ sent[c] <= MaxSends /\ pending_reqs[c] = sent[c] - answered[c]
  BY RingAssumption, WorkerAssumption DEF RingInv, CountInv, TypeOK, PendingInFlight
<1>2. /\ s.head = sent[c] % CtrMod /\ s.tail = sent[c] % CtrMod
      /\ s.consumed = (n - 1) % CtrMod /\ s.time = ring[c].time
  BY SkippedRing
<1>3. k \in 1 .. pending_reqs[c]
  OBVIOUS
<1>4. s.consumed <= s.head
  BY DEF PopAssert
<1>5. n = answered[c] + k
  OBVIOUS
<1> HIDE DEF k, s, n
<1>6. /\ n - 1 \in Nat /\ n - 1 < sent[c] /\ sent[c] - (n - 1) < CtrMod
      /\ n - 1 \in 0 .. MaxSends /\ n \in (answered[c] + 1) .. sent[c]
  BY <1>1, <1>3, <1>5
<1>7. CanPop(s)
  <2>1. (n - 1) % CtrMod # sent[c] % CtrMod
    BY <1>1, <1>6, ModDistinct
  <2>2. (n - 1) % CtrMod \in Int /\ sent[c] % CtrMod \in Int
    BY <1>1, <1>6
  <2> QED
    BY <1>2, <1>4, <2>1, <2>2 DEF CanPop
<1>8. Popped(s) = n
  <2>1. SlotOf(s.consumed) = SlotOf(n - 1)
    BY <1>2, <1>6, SlotWrapped
  <2>2. ring[c].time[SlotOf(n - 1)] = n
    BY <1>6 DEF RingInv, RingMatch
  <2> QED
    BY <1>2, <2>1, <2>2 DEF Popped
<1>9. Wrap(s.consumed + 1) = n % CtrMod
  <2>1. Wrap(((n - 1) % CtrMod) + 1) = ((n - 1) + 1) % CtrMod
    BY <1>1, <1>6, WrapAdd
  <2>2. (n - 1) + 1 = n
    BY <1>6
  <2> QED
    BY <1>2, <2>1, <2>2
<1>10. pop_pending_tx_timestamps(s) = [s EXCEPT !.consumed = n % CtrMod]
  BY <1>7, <1>9 DEF pop_pending_tx_timestamps
<1>11. s \in Rings(Nat)
  <2>1. ring[c] \in Rings(Nat) /\ k - 1 \in 0 .. CtrMod /\ 0 \in Nat
    BY <1>1, <1>3 DEF RingInv, CountInv, TypeOK
  <2> QED
    BY <2>1, RingOps DEF s, Skipped, k
<1>12. LET r == pop_pending_tx_timestamps(s)
       IN  /\ r.head = s.head /\ r.tail = s.tail /\ r.consumed = n % CtrMod
           /\ r.time = s.time
  BY <1>10, <1>11 DEF Rings
<1> QED
  BY <1>2, <1>7, <1>8, <1>12 DEF k, s, n

LEMMA SendRing ==
  ASSUME RingInv, RingFits, NEW c \in Conns, Send(c)
  PROVE  RingInv'
<1>1. CountInv'
  BY SendCount DEF RingInv
<1> USE DEF Send
<1>2. /\ TypeOK /\ MAX_PENDING_REQS \in Nat
      /\ pending_reqs[c] < MAX_PENDING_REQS /\ sent[c] < MaxSends
      /\ MaxSends \in Nat
  BY WorkerAssumption, RingAssumption DEF RingInv, CountInv, AtSend, CanSend
<1>3. ASSUME AgentType = "symmetric"
      PROVE  CursorsCount' /\ RingMatch'
  <2> DEFINE r == push_complete_tx_timestamp(ring[c], sent[c] + 1)
  <2>1. /\ r.head = (sent[c] + 1) % CtrMod /\ r.tail = (sent[c] + 1) % CtrMod
        /\ r.consumed = answered[c] % CtrMod
        /\ \A i \in (answered[c] + 1) .. (sent[c] + 1) : r.time[SlotOf(i - 1)] = i
    BY <1>2, <1>3, PushedRing
  <2>2. ring' = [ring EXCEPT ![c] = r]
    BY <1>3
  <2> HIDE DEF r
  <2>3. CursorsCount'
    <3> SUFFICES ASSUME NEW d \in Conns
                 PROVE  /\ ring'[d].head = sent'[d] % CtrMod
                        /\ ring'[d].tail = sent'[d] % CtrMod
                        /\ ring'[d].consumed = answered'[d] % CtrMod
      BY DEF CursorsCount
    <3>1. CASE d = c
      <4>1. ring'[d] = r /\ sent'[d] = sent[c] + 1 /\ answered'[d] = answered[c]
        BY <1>2, <2>2, <3>1 DEF TypeOK
      <4> QED
        BY <2>1, <4>1
    <3>2. CASE d # c
      <4>1. ring'[d] = ring[d] /\ sent'[d] = sent[d] /\ answered'[d] = answered[d]
        BY <1>2, <2>2, <3>2 DEF TypeOK
      <4> QED
        BY <1>3, <4>1 DEF RingInv, CursorsCount
    <3> QED
      BY <3>1, <3>2
  <2>4. RingMatch'
    <3> SUFFICES ASSUME NEW d \in Conns,
                        NEW i \in (answered[d] + 1) .. sent'[d]
                 PROVE  ring'[d].time[SlotOf(i - 1)] = i
      BY DEF RingMatch
    <3>1. CASE d = c
      BY <1>2, <2>1, <2>2, <3>1 DEF TypeOK
    <3>2. CASE d # c
      BY <1>2, <1>3, <2>2, <3>2 DEF TypeOK, RingInv, RingMatch
    <3> QED
      BY <3>1, <3>2
  <2> QED
    BY <2>3, <2>4
<1>4. ASSUME AgentType # "symmetric"
      PROVE  CursorsCount' /\ RingMatch'
  BY <1>4 DEF CursorsCount, RingMatch
<1> QED
  BY <1>1, <1>3, <1>4 DEF RingInv, SampleCorrect

LEMMA RecvDataRing ==
  ASSUME RingInv, RingFits, NEW c \in Conns, RecvData(c)
  PROVE  /\ RingInv'
         /\ sample' \in {sample, [tx |-> answered'[c], rx |-> answered'[c]]}
<1> DEFINE k == RespReqs(c)
           n == answered[c] + k
<1>1. TypeOK /\ PendingInFlight /\ BytesConserved /\ CountInv
  BY DEF RingInv, CountInv
<1>2. CountInv'
  BY <1>1, RecvDataCount
<1>3. k \in 1 .. pending_reqs[c] /\ k \in Nat
  BY <1>1, RecvReqs DEF TypeOK
<1> USE DEF RecvData
<1>4. answered'[c] = n
  BY <1>1 DEF TypeOK
<1> DEFINE Matched ==
           /\ CursorsCount' /\ RingMatch' /\ SampleCorrect'
           /\ sample' \in {sample, [tx |-> n, rx |-> n]}
<1>5. ASSUME AgentType = "symmetric" PROVE Matched
  <2> DEFINE r == pop_pending_tx_timestamps(Skipped(c))
  <2>1. /\ CanPop(Skipped(c))
        /\ Popped(Skipped(c)) = n
        /\ r.head = sent[c] % CtrMod /\ r.tail = sent[c] % CtrMod
        /\ r.consumed = n % CtrMod
        /\ r.time = ring[c].time
    <3>1. PopAssert(Skipped(c))
      BY <1>5 DEF Match
    <3> HIDE DEF RecvData
    <3> QED
      BY <1>3, <1>5, <3>1, PoppedRing
  <2>2. ring' = [ring EXCEPT ![c] = r] /\ sample' = [tx |-> n, rx |-> n]
    BY <1>5, <2>1 DEF Match
  <2> HIDE DEF r, k
  <2>3. CursorsCount'
    <3> SUFFICES ASSUME NEW d \in Conns
                 PROVE  /\ ring'[d].head = sent'[d] % CtrMod
                        /\ ring'[d].tail = sent'[d] % CtrMod
                        /\ ring'[d].consumed = answered'[d] % CtrMod
      BY DEF CursorsCount
    <3>1. CASE d = c
      <4>1. ring'[d] = r /\ sent'[d] = sent[c] /\ answered'[d] = n
        BY <1>1, <1>4, <2>2, <3>1 DEF TypeOK
      <4> QED
        BY <2>1, <4>1
    <3>2. CASE d # c
      <4>1. ring'[d] = ring[d] /\ sent'[d] = sent[d] /\ answered'[d] = answered[d]
        BY <1>1, <2>2, <3>2 DEF TypeOK
      <4> QED
        BY <1>5, <4>1 DEF RingInv, CursorsCount
    <3> QED
      BY <3>1, <3>2
  <2>4. RingMatch'
    <3> SUFFICES ASSUME NEW d \in Conns,
                        NEW i \in (answered'[d] + 1) .. sent[d]
                 PROVE  ring'[d].time[SlotOf(i - 1)] = i
      BY DEF RingMatch
    <3>1. answered'[d] \in Nat /\ answered[d] \in Nat /\ answered[d] <= answered'[d]
      BY <1>1, <1>3 DEF TypeOK, k
    <3>2. i \in (answered[d] + 1) .. sent[d]
      BY <1>1, <3>1 DEF TypeOK
    <3>3. ring'[d].time = ring[d].time
      BY <1>1, <2>1, <2>2 DEF TypeOK
    <3> QED
      BY <1>5, <3>2, <3>3 DEF RingInv, RingMatch
  <2> QED
    BY <2>2, <2>3, <2>4 DEF SampleCorrect
<1>6. ASSUME AgentType # "symmetric" PROVE Matched
  <2>1. CursorsCount' /\ RingMatch'
    BY <1>6 DEF CursorsCount, RingMatch
  <2>2. sample' = sample
    BY <1>6 DEF Match
  <2> QED
    BY <2>1, <2>2 DEF RingInv, SampleCorrect
<1>7. Matched
  BY <1>5, <1>6
<1> QED
  BY <1>2, <1>4, <1>7 DEF RingInv

LEMMA KeptRing ==
  ASSUME RingInv, UNCHANGED <<ring, sent, answered, sample, AgentType>>, CountInv'
  PROVE  RingInv'
BY DEF RingInv, CursorsCount, RingMatch, SampleCorrect

LEMMA NextRing ==
  ASSUME RingInv, RingFits, [Next]_vars
  PROVE  RingInv'
<1>1. CountInv /\ CountInv' /\ TypeOK
  BY NextCount DEF RingInv, CountInv
<1>2. \/ \E c \in Conns : Send(c) \/ RecvData(c) \/ Deliver(c)
      \/ Control
  BY <1>1, ControlSteps
<1>3. ASSUME NEW c \in Conns, Deliver(c) PROVE RingInv'
  BY <1>1, <1>3, KeptRing DEF Deliver, thread, conn, history
<1>4. CASE Control
  BY <1>1, <1>4, KeptRing DEF Control
<1> QED
  BY <1>2, <1>3, <1>4, SendRing, RecvDataRing

-----------------------------------------------------------------------------
(* The ring, the cursors and the request counts stay in step, past the wrap *)
(* of the 32-bit cursors too, since 16 slots divide 2^32.                  *)
THEOREM RingInvariant ==
  ASSUME RingFits
  PROVE  Spec => []RingInv
<1>1. Init => RingInv
  BY InitRing
<1>2. RingInv /\ [Next]_vars => RingInv'
  BY NextRing
<1> QED
  BY <1>1, <1>2, PTL DEF Spec

(* A latency sample of symmetric_tcp_main pairs a response with the request *)
(* it answers: push, blind skip and pop never go out of step.              *)
THEOREM SamplesArePaired ==
  ASSUME RingFits
  PROVE  Spec => [](SampleCorrect /\ RingMatch)
<1>1. RingInv => SampleCorrect /\ RingMatch
  BY DEF RingInv
<1> QED
  BY <1>1, RingInvariant, PTL

(* Both loops of tp_tcp.c implement the service of FifoRtt. *)
THEOREM WorkerImplementsFifoRtt ==
  ASSUME RingFits
  PROVE  Spec => ImplementsFifoRtt
<1>1. Init => Rtt!Init
  BY DEF Init, Rtt!Init
<1>2. RingInv /\ RingInv' /\ [Next]_vars => [Rtt!Next]_history
  <2> SUFFICES ASSUME RingInv, [Next]_vars PROVE Rtt!Next \/ UNCHANGED history
    OBVIOUS
  <2>1. ASSUME NEW c \in Conns, Send(c) PROVE Rtt!Next
    <3>1. sent[c] - answered[c] < MAX_PENDING_REQS
      BY <2>1 DEF RingInv, CountInv, PendingInFlight, Send, AtSend, CanSend
    <3>2. Rtt!Send(c)
      BY <2>1, <3>1 DEF Send, Rtt!Send
    <3> QED
      BY <3>2 DEF Rtt!Next
  <2>2. ASSUME NEW c \in Conns, RecvData(c) PROVE Rtt!Next
    <3> DEFINE k == RespReqs(c)
    <3>1. /\ k \in 1 .. pending_reqs[c]
          /\ sample' \in {sample, [tx |-> answered'[c], rx |-> answered'[c]]}
      BY <2>2, RecvDataRing, RecvReqs DEF RingInv, CountInv
    <3>2. /\ pending_reqs[c] \in 0 .. MAX_PENDING_REQS
          /\ pending_reqs[c] = sent[c] - answered[c]
          /\ answered' = [answered EXCEPT ![c] = @ + k]
          /\ answered'[c] = answered[c] + k
          /\ sent' = sent
      BY <2>2 DEF RingInv, CountInv, TypeOK, PendingInFlight, RecvData
    <3> HIDE DEF k
    <3>3. k \in 1 .. MAX_PENDING_REQS /\ k <= sent[c] - answered[c]
      BY <3>1, <3>2, RingAssumption
    <3>4. Rtt!Answer(c, k)
      BY <3>1, <3>2, <3>3 DEF Rtt!Answer
    <3> QED
      BY <3>3, <3>4 DEF Rtt!Next
  <2>3. CASE StartLoad \/ SkipSend \/ Epoll \/ Stopped \/ UNCHANGED vars
    BY <2>3 DEF StartLoad, SkipSend, Epoll, Stopped, vars, history
  <2>4. ASSUME NEW c \in Conns,
               \/ SendFull(c) \/ SendError(c) \/ RecvHalf(c) \/ RecvRing(c)
               \/ RecvSlow(c) \/ RecvClosed(c) \/ RecvError(c)
               \/ Deliver(c) \/ PeerFin(c) \/ PeerReset(c)
        PROVE  UNCHANGED history
    BY <2>4 DEF SendFull, SendError, RecvHalf, RecvRing, RecvSlow, RecvClosed, RecvError,
                Deliver, PeerFin, PeerReset, Stop, history
  <2> QED
    BY <2>1, <2>2, <2>3, <2>4 DEF Next, Worker, Tx, Event
<1>3. Spec => []RingInv
  BY RingInvariant
<1> QED
  BY <1>1, <1>2, <1>3, PTL DEF Spec, ImplementsFifoRtt, Rtt!Spec, history

-----------------------------------------------------------------------------
(* The third layer: before the first wrap, the assertion of                 *)
(* pop_pending_tx_timestamps holds.                                        *)

LEMMA NoRingAssert ==
  ASSUME RingInv, MaxSends < CtrMod, NEW c \in Conns
  PROVE  ~RecvRing(c)
<1>1. SUFFICES ASSUME RecvRing(c) PROVE FALSE
  OBVIOUS
<1> DEFINE k == RespReqs(c)
           n == answered[c] + k
<1>2. /\ TypeOK /\ BytesConserved /\ AgentType = "symmetric"
      /\ inbox[c] > 0 /\ Space(c) > 0 /\ k # 0 /\ ~PopAssert(Skipped(c))
  BY <1>1 DEF RingInv, CountInv, RecvRing, HalfAssert
<1>3. k \in 1 .. pending_reqs[c]
  <2>1. k \in Nat /\ k <= pending_reqs[c] /\ pending_reqs[c] \in Nat
    BY <1>2, ReadBounds DEF TypeOK
  <2> QED
    BY <1>2, <2>1
<1>4. /\ Skipped(c).head = sent[c] % CtrMod
      /\ Skipped(c).consumed = (n - 1) % CtrMod
  BY <1>2, <1>3, SkippedRing
<1>5. n = answered[c] + k
  OBVIOUS
<1> HIDE DEF k, n
<1>6. /\ sent[c] \in 0 .. (CtrMod - 1) /\ n - 1 \in 0 .. (CtrMod - 1) /\ n - 1 <= sent[c]
      /\ CtrMod \in Nat \ {0}
  <2>1. /\ sent[c] \in Nat /\ answered[c] \in Nat /\ sent[c] <= MaxSends
        /\ pending_reqs[c] \in Nat /\ pending_reqs[c] = sent[c] - answered[c]
        /\ CtrMod \in Nat \ {0} /\ MaxSends \in Nat
    BY RingAssumption, WorkerAssumption DEF RingInv, CountInv, TypeOK, PendingInFlight
  <2> QED
    BY <1>3, <1>5, <2>1
<1>7. sent[c] % CtrMod = sent[c] /\ (n - 1) % CtrMod = n - 1
  BY <1>6, ModSmall
<1> QED
  BY <1>2, <1>4, <1>6, <1>7 DEF PopAssert

LEMMA NextInv ==
  ASSUME WorkerInv, MaxSends < CtrMod, [Next]_vars
  PROVE  WorkerInv'
<1>1. RingInv'
  BY NextRing DEF WorkerInv, RingFits
<1>2. ASSUME status' = "assert_ring" PROVE \E c \in Conns : RecvRing(c)
  <2>1. status # "assert_ring"
    BY DEF WorkerInv, CursorsOrdered
  <2>2. \A why : Stop(why) => status' = why
    BY DEF Stop
  <2> QED
    BY <1>2, <2>1, <2>2
    DEF Next, Worker, Tx, Event, Stopped, StartLoad, SkipSend, Epoll, Send, SendFull, SendError,
        RecvHalf, RecvSlow, RecvData, RecvClosed, RecvError, Deliver, PeerFin, PeerReset,
        vars, thread
<1> QED
  BY <1>1, <1>2, NoRingAssert DEF WorkerInv, CursorsOrdered

(* While fewer than CtrMod requests are sent on a connection (in the code    *)
(* 2^32), the assertion of pop_pending_tx_timestamps holds as well: the      *)
(* cursors are in order.                                                   *)
THEOREM WorkerInvariant ==
  ASSUME MaxSends < CtrMod
  PROVE  Spec => []WorkerInv
<1>1. Init => WorkerInv
  BY InitRing DEF Init, WorkerInv, CursorsOrdered
<1>2. WorkerInv /\ [Next]_vars => WorkerInv'
  BY NextInv
<1> QED
  BY <1>1, <1>2, PTL DEF Spec

-----------------------------------------------------------------------------
(* An event of the poll is not handled on a connection closed since: only   *)
(* its own event can close it.                                             *)
ClosedNotReady == \A c \in Conns : closed[c] => c \notin ready

LEMMA NextClosed ==
  ASSUME CountInv, ClosedNotReady, [Next]_vars
  PROVE  /\ ClosedNotReady'
         /\ \A c \in Conns : closed[c] =>
              /\ closed'[c]
              /\ UNCHANGED <<pending_reqs[c], ring[c], sent[c], answered[c]>>
<1> DEFINE Untouched(c) ==
             /\ closed'[c]
             /\ UNCHANGED <<pending_reqs[c], ring[c], sent[c], answered[c]>>
<1>1. /\ closed \in [Conns -> BOOLEAN] /\ pending_reqs \in [Conns -> 0 .. MAX_PENDING_REQS]
      /\ ring \in [Conns -> Rings(Nat)] /\ sent \in [Conns -> Nat]
      /\ answered \in [Conns -> Nat] /\ ready \subseteq Conns
  BY DEF CountInv, TypeOK
<1>2. CASE closed' = closed /\ ready' \subseteq ready
           /\ UNCHANGED <<pending_reqs, ring, sent, answered>>
  BY <1>2 DEF ClosedNotReady
<1>3. CASE Epoll
  BY <1>3 DEF Epoll, Readable, ClosedNotReady, conn, net, history
<1>4. ASSUME NEW d \in Conns, Send(d) PROVE ClosedNotReady' /\ \A c \in Conns : closed[c] => Untouched(c)
  <2>1. ~closed[d] /\ closed' = closed /\ ready' = ready /\ answered' = answered
    BY <1>4 DEF Send, AtSend, CanSend
  <2>2. \A c \in Conns \ {d} : UNCHANGED <<pending_reqs[c], ring[c], sent[c]>>
    BY <1>1, <1>4 DEF Send
  <2> QED
    BY <2>1, <2>2 DEF ClosedNotReady
<1>5. ASSUME NEW d \in Conns, RecvData(d)
      PROVE  ClosedNotReady' /\ \A c \in Conns : closed[c] => Untouched(c)
  <2>1. ~closed[d] /\ closed' = closed /\ ready' \subseteq ready /\ sent' = sent
    BY <1>5 DEF RecvData, AtEvent, EventDone, ClosedNotReady
  <2>2. \A c \in Conns \ {d} : UNCHANGED <<pending_reqs[c], ring[c], answered[c]>>
    BY <1>1, <1>5 DEF RecvData, Match
  <2> QED
    BY <2>1, <2>2 DEF ClosedNotReady
<1>6. ASSUME NEW d \in Conns, RecvClosed(d)
      PROVE  ClosedNotReady' /\ \A c \in Conns : closed[c] => Untouched(c)
  <2>1. /\ closed' = [closed EXCEPT ![d] = TRUE] /\ ready' = ready \ {d}
        /\ UNCHANGED <<pending_reqs, ring, sent, answered>>
    BY <1>6 DEF RecvClosed, EventDone, history
  <2>2. \A c \in Conns : closed'[c] <=> (closed[c] \/ c = d)
    BY <1>1, <2>1
  <2> QED
    BY <2>1, <2>2 DEF ClosedNotReady
<1>7. CASE \/ StartLoad \/ SkipSend \/ Stopped \/ UNCHANGED vars
           \/ \E c \in Conns : \/ SendFull(c) \/ SendError(c) \/ RecvHalf(c) \/ RecvRing(c)
                               \/ RecvSlow(c) \/ RecvError(c) \/ Deliver(c) \/ PeerFin(c)
                               \/ PeerReset(c)
  <2>1. closed' = closed /\ ready' \subseteq ready
        /\ UNCHANGED <<pending_reqs, ring, sent, answered>>
    BY <1>7 DEF StartLoad, SkipSend, Stopped, SendFull, SendError, RecvHalf, RecvRing, RecvSlow,
                RecvError, Deliver, PeerFin, PeerReset, Stop, vars, thread, conn, net, history
  <2> QED
    BY <1>2, <2>1
<1> QED
  BY <1>3, <1>4, <1>5, <1>6, <1>7 DEF Next, Worker, Tx, Event

(* Nothing is sent or counted on a connection found closed, although the    *)
(* events of a poll are handled after it.                                  *)
THEOREM ClosedStaysUntouched == Spec => ClosedIsFinal
<1>1. Init => ClosedNotReady
  BY DEF Init, ClosedNotReady
<1>2. Spec => []CountInv
  BY CountsAgree
<1>3. CountInv /\ ClosedNotReady /\ [Next]_vars =>
        /\ ClosedNotReady'
        /\ [\A c \in Conns : closed[c] =>
              /\ closed'[c]
              /\ UNCHANGED <<pending_reqs[c], ring[c], sent[c], answered[c]>>]_vars
  BY NextClosed
<1> QED
  BY <1>1, <1>2, <1>3, PTL DEF Spec, ClosedIsFinal

-----------------------------------------------------------------------------
(* Why the thread stops.                                                   *)

LEMMA WholeIs ==
  ASSUME NEW n \in Nat
  PROVE  /\ Whole(n) <=> \E m \in Nat : n = RespLen * m
         /\ Whole(n) => (n \div RespLen) * RespLen = n
<1>1. RespLen \in Nat \ {0}
  BY WorkerAssumption
<1>2. ASSUME Whole(n)
      PROVE  n \div RespLen \in Nat /\ n = RespLen * (n \div RespLen)
  <2> DEFINE m == n \div RespLen
  <2>1. m \in Nat /\ n = RespLen * m + 0
    BY <1>1, <1>2, ModSplit DEF Whole
  <2> HIDE DEF m
  <2>2. RespLen * m \in Nat
    BY <1>1, <2>1
  <2> QED
    BY <2>1, <2>2 DEF m
<1>3. ASSUME NEW m \in Nat, n = RespLen * m
      PROVE  Whole(n)
  <2>1. (RespLen * m + 0) % RespLen = 0
    BY <1>1, ModUnique
  <2>2. RespLen * m + 0 = n
    BY <1>3
  <2> QED
    BY <2>1, <2>2 DEF Whole
<1>4. \A m \in Nat : RespLen * m = m * RespLen
  BY <1>1
<1> QED
  BY <1>2, <1>3, <1>4

LEMMA WholeSum ==
  ASSUME NEW a \in Nat, NEW b \in Nat, Whole(a), Whole(b)
  PROVE  /\ Whole(a + b)
         /\ b <= a => Whole(a - b)
<1>1. RespLen \in Nat \ {0}
  BY WorkerAssumption
<1>2. PICK m \in Nat, n \in Nat : a = RespLen * m /\ b = RespLen * n
  BY WholeIs
<1>3. Whole(a + b)
  <2>1. a + b = RespLen * (m + n) /\ m + n \in Nat /\ a + b \in Nat
    BY <1>1, <1>2
  <2> QED
    BY <2>1, WholeIs
<1>4. ASSUME b <= a PROVE Whole(a - b)
  <2>1. a - b = RespLen * (m - n) /\ a - b \in Nat
    BY <1>1, <1>2, <1>4
  <2>2. m - n \in Nat
    <3>1. SUFFICES ASSUME m - n <= -1 PROVE FALSE
      OBVIOUS
    <3>2. RespLen * (m - n) <= -1
      BY <1>1, <3>1
    <3> QED
      BY <2>1, <3>2
  <2> QED
    BY <2>1, <2>2, WholeIs
<1> QED
  BY <1>3, <1>4

(* The inductive invariant behind StopsOnlyOnFailure. *)
StopInv == WorkerInv /\ WholeInv /\ StopsOnlyOnFailure

(* A read brings whole responses only, at least one. *)
LEMMA WholeRead ==
  ASSUME StopInv, PeersBehave, NEW c \in Conns, inbox[c] > 0
  PROVE  /\ Space(c) > 0 /\ ~HalfAssert(c)
         /\ Filled(c) = RespBytes(c)
         /\ Whole(Received(c)) /\ Received(c) \in Nat /\ Received(c) <= inbox[c]
<1>1. /\ TypeOK /\ BytesConserved /\ buffer_idx[c] = 0 /\ Whole(inbox[c])
      /\ inbox[c] \in Nat /\ owed[c] \in Nat /\ buffer_idx[c] \in Nat
      /\ pending_reqs[c] \in 0 .. MAX_PENDING_REQS
  BY DEF StopInv, WholeInv, WorkerInv, RingInv, CountInv, TypeOK
<1>2. RespLen \in Nat \ {0} /\ MAX_PAYLOAD \in Nat \ {0} /\ MAX_PENDING_REQS \in Nat
  BY WorkerAssumption, RingAssumption
<1>3. Space(c) = MAX_PAYLOAD
  BY <1>1, <1>2 DEF Space
<1>4. /\ Received(c) \in Nat \ {0} /\ Received(c) <= inbox[c]
      /\ Filled(c) = Received(c)
  BY <1>1, <1>2, <1>3 DEF Received, Filled
<1>5. Whole(Received(c))
  <2>1. CASE Received(c) = inbox[c]
    BY <1>1, <2>1
  <2>2. CASE Received(c) # inbox[c]
    <3>1. Received(c) = MAX_PAYLOAD /\ inbox[c] > MAX_PAYLOAD
      BY <1>1, <1>2, <1>3, <2>2 DEF Received
    <3>2. pending_reqs[c] * RespLen >= inbox[c]
      BY <1>1 DEF BytesConserved
    <3>3. MAX_PENDING_REQS * RespLen >= pending_reqs[c] * RespLen
      BY <1>1, <1>2
    <3>4. /\ MAX_PENDING_REQS * RespLen \in Nat
          /\ pending_reqs[c] * RespLen \in Nat
      BY <1>1, <1>2
    <3>5. MAX_PENDING_REQS * RespLen > MAX_PAYLOAD
      BY <1>1, <1>2, <3>1, <3>2, <3>3, <3>4
    <3> QED
      BY <1>2, <3>1, <3>4, <3>5 DEF PeersBehave
  <2> QED
    BY <2>1, <2>2
<1>6. RespBytes(c) = Filled(c)
  BY <1>4, <1>5, WholeIs DEF RespBytes, RespReqs
<1>7. RespReqs(c) # 0
  BY <1>2, <1>4, <1>6 DEF RespBytes
<1> QED
  BY <1>2, <1>3, <1>4, <1>5, <1>6, <1>7 DEF HalfAssert

LEMMA WholeStep ==
  ASSUME StopInv, PeersBehave, [Next]_vars
  PROVE  WholeInv'
<1>1. /\ TypeOK /\ buffer_idx \in [Conns -> Nat] /\ inbox \in [Conns -> Nat]
      /\ WholeInv
  BY DEF StopInv, WorkerInv, RingInv, CountInv, TypeOK
<1>2. ASSUME NEW c \in Conns, RecvData(c) PROVE WholeInv'
  <2>1. /\ Filled(c) = RespBytes(c) /\ Whole(Received(c)) /\ Received(c) \in Nat
        /\ Received(c) <= inbox[c]
    BY <1>2, WholeRead DEF RecvData
  <2>2. Whole(inbox[c] - Received(c))
    BY <1>1, <2>1, WholeSum DEF WholeInv
  <2>3. Filled(c) - RespBytes(c) = 0
    <3>1. Filled(c) \in Nat
      BY <1>1, <2>1 DEF Filled
    <3> QED
      BY <2>1, <3>1
  <2>4. /\ inbox' = [inbox EXCEPT ![c] = inbox[c] - Received(c)]
        /\ buffer_idx' = [buffer_idx EXCEPT ![c] = 0]
    BY <1>2, <2>3 DEF RecvData
  <2> QED
    BY <1>1, <2>2, <2>4 DEF WholeInv
<1>3. ASSUME NEW c \in Conns, Deliver(c) PROVE WholeInv'
  <2>1. PICK n \in Chunks : inbox' = [inbox EXCEPT ![c] = @ + n]
    BY <1>3 DEF Deliver
  <2>2. n \in Nat /\ Whole(n)
    BY WorkerAssumption DEF PeersBehave
  <2>3. Whole(inbox[c] + n)
    BY <1>1, <2>2, WholeSum DEF WholeInv
  <2> QED
    BY <1>1, <1>3, <2>1, <2>3 DEF WholeInv, Deliver, conn
<1>4. ASSUME NEW c \in Conns, Send(c) PROVE WholeInv'
  BY <1>1, <1>4 DEF Send, WholeInv
<1>5. CASE Control
  BY <1>1, <1>5 DEF Control, WholeInv
<1> QED
  BY <1>1, <1>2, <1>3, <1>4, <1>5, ControlSteps

(* A peer that failed does not come back, and the thread does not stop      *)
(* before one has.                                                         *)
LEMMA StopStep ==
  ASSUME StopInv, PeersBehave, [Next]_vars
  PROVE  StopsOnlyOnFailure'
<1>1. TypeOK /\ BytesConserved /\ RingInv /\ link \in [Conns -> Links]
  BY DEF StopInv, WorkerInv, RingInv, CountInv, TypeOK
<1>2. SUFFICES ASSUME status' # "run" PROVE \E c \in Conns : link'[c] # "open"
  BY DEF StopsOnlyOnFailure
<1>3. CASE status # "run"
  <2>1. PICK c \in Conns : link[c] # "open"
    BY <1>3 DEF StopInv, StopsOnlyOnFailure
  <2>2. link' = link \/ \E d \in Conns : PeerFin(d) \/ PeerReset(d)
    BY <1>3 DEF Next, StartLoad, Worker, Tx, SkipSend, Epoll, Event, Stopped, Deliver,
                Send, SendFull, SendError, AtSend, RecvHalf, RecvRing, RecvSlow, RecvData,
                RecvClosed, RecvError, AtEvent, vars, net
  <2>3. ASSUME NEW d \in Conns, PeerFin(d) \/ PeerReset(d)
        PROVE  link'[c] # "open"
    BY <1>1, <2>1, <2>3 DEF PeerFin, PeerReset
  <2> QED
    BY <2>1, <2>2, <2>3
<1>4. CASE status = "run"
  <2>1. \E c \in Conns : \/ SendFull(c) \/ SendError(c) \/ RecvHalf(c) \/ RecvRing(c)
                          \/ RecvSlow(c) \/ RecvError(c)
    BY <1>2, <1>4 DEF Next, StartLoad, Worker, Tx, SkipSend, Epoll, Event, Stopped, Deliver,
                      Send, RecvData, RecvClosed, PeerFin, PeerReset, vars, thread
  <2>2. PICK c \in Conns : \/ SendFull(c) \/ SendError(c) \/ RecvHalf(c) \/ RecvRing(c)
                           \/ RecvSlow(c) \/ RecvError(c)
    BY <2>1
  <2>3. ~SendFull(c)
    <3>1. SUFFICES ASSUME AtSend(c), Unanswered(c) >= SndBuf PROVE FALSE
      BY DEF SendFull
    <3>2. /\ pending_reqs[c] \in Nat /\ pending_reqs[c] < MAX_PENDING_REQS
          /\ RespLen \in Nat \ {0} /\ owed[c] \in Nat /\ inbox[c] \in Nat
          /\ buffer_idx[c] \in Nat /\ MAX_PENDING_REQS \in Nat /\ SndBuf \in Nat
      BY <1>1, <3>1, WorkerAssumption, RingAssumption DEF TypeOK, AtSend, CanSend
    <3>3. owed[c] <= pending_reqs[c] * RespLen
      BY <1>1, <3>2 DEF BytesConserved
    <3>4. Unanswered(c) <= pending_reqs[c] /\ Unanswered(c) \in Nat
      BY <3>2, <3>3, DivAtMost, DivFacts DEF Unanswered
    <3> QED
      BY <3>1, <3>2, <3>4 DEF PeersBehave
  <2>4. ~RecvHalf(c)
    BY WholeRead DEF RecvHalf
  <2>5. ~RecvRing(c)
    BY <1>1, NoRingAssert DEF PeersBehave
  <2>6. ~RecvSlow(c)
    BY DEF RecvSlow, PeersBehave
  <2>7. link[c] # "open" /\ link' = link
    BY <2>2, <2>3, <2>4, <2>5, <2>6 DEF SendError, RecvError, Stop, net
  <2> QED
    BY <2>7
<1> QED
  BY <1>3, <1>4

(* None of the loops' assertions fires and no thread returns while every    *)
(* peer is up, if responses arrive whole and in time and the sockets have   *)
(* room for MAX_PENDING_REQS requests.                                     *)
THEOREM StopsOnlyForAPeer ==
  ASSUME PeersBehave
  PROVE  Spec => []StopsOnlyOnFailure
<1>1. Init => StopInv
  <2>1. 0 \in Nat /\ Whole(0)
    BY WorkerAssumption, ModSmall DEF Whole
  <2> QED
    BY <2>1, InitRing
    DEF Init, StopInv, WorkerInv, CursorsOrdered, WholeInv, StopsOnlyOnFailure
<1>2. StopInv /\ [Next]_vars => StopInv'
  BY NextInv, WholeStep, StopStep DEF StopInv, PeersBehave
<1>3. StopInv => StopsOnlyOnFailure
  BY DEF StopInv
<1> QED
  BY <1>1, <1>2, <1>3, PTL DEF Spec
=============================================================================
