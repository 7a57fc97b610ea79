---------------------------- MODULE TxTimestamps ----------------------------
(***************************************************************************)
(* struct pending_tx_timestamps (inc/lancet/timestamping.h) and the        *)
(* operations of agents/timestamping.c on it: the per-connection ring in   *)
(* which an agent keeps the transmit timestamps of the requests it has not *)
(* matched with a response yet.                                            *)
(*                                                                         *)
(*   head      requests written      (waiting for a timestamp)             *)
(*   tail      timestamps received                                         *)
(*   consumed  timestamps matched with a response                          *)
(*                                                                         *)
(* The three cursors are uint32_t and run freely; a slot is a cursor       *)
(* modulo MAX_PENDING_REQS.  CtrMod stands for 2^32.  A timestamp is any   *)
(* value: the modules that use the ring choose what it stands for.         *)
(***************************************************************************)
EXTENDS Integers

CONSTANTS
  MAX_PENDING_REQS, \* slots of the ring, and requests in flight per connection
  CtrMod            \* the cursors are unsigned integers modulo CtrMod

ASSUME RingAssumption ==
  /\ MAX_PENDING_REQS \in Nat \ {0}
  /\ CtrMod \in Nat
  /\ CtrMod > MAX_PENDING_REQS

Slots   == 0 .. (MAX_PENDING_REQS - 1)
Cursors == 0 .. (CtrMod - 1)

(* A ring whose timestamps come from the set Times. *)
Rings(Times) ==
  [head : Cursors, tail : Cursors, consumed : Cursors, time : [Slots -> Times]]

(* calloc: every cursor and every slot is zero. *)
ZeroRing == [head |-> 0, tail |-> 0, consumed |-> 0, time |-> [s \in Slots |-> 0]]

(* Unsigned addition; no operation adds more than CtrMod at once. *)
Wrap(x) == IF x >= CtrMod THEN x - CtrMod ELSE x

SlotOf(cursor) == cursor % MAX_PENDING_REQS

(* The slot after the tail is written. *)
BugPushSlot(r, t) ==
  [r EXCEPT !.time[SlotOf(r.tail + 1)] = t,
            !.head = Wrap(r.head + 1),
            !.tail = Wrap(r.tail + 1)]

(* Userspace timestamping: the timestamp is known when the request is sent. *)
push_complete_tx_timestamp(r, t) ==
  [r EXCEPT !.time[SlotOf(r.tail)] = t,
            !.head = Wrap(r.head + 1),
            !.tail = Wrap(r.tail + 1)]

(* A response that ends several requests keeps only the last timestamp. *)
BugNoSkip(r, to_skip) == r

(* All responses of a read but the last one are skipped. *)
blind_skip_tx_timestamps(r, to_skip) == [r EXCEPT !.consumed = Wrap(r.consumed + to_skip)]

(* pop_pending_tx_timestamps asserts PopAssert, returns a slot if CanPop    *)
(* holds and NULL otherwise; Popped is the timestamp in the returned slot.  *)
PopAssert(r) == r.consumed <= r.head
CanPop(r)    == r.consumed < r.tail
Popped(r)    == r.time[SlotOf(r.consumed)]
pop_pending_tx_timestamps(r) ==
  IF CanPop(r) THEN [r EXCEPT !.consumed = Wrap(r.consumed + 1)] ELSE r
=============================================================================
