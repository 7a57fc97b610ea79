------------------------------ MODULE FifoRtt ------------------------------
(***************************************************************************)
(* What a load-generating thread promises about its connections, whatever  *)
(* rings, buffers and event loops it uses: requests on a connection are    *)
(* answered in the order they were sent, at most Window of them are        *)
(* outstanding, and a latency sample pairs the response it is taken for    *)
(* with the request that this response answers.                            *)
(*                                                                         *)
(* Requests on a connection are numbered 1, 2, 3...; sent and answered are *)
(* the numbers of the last request sent and of the last one answered.      *)
(***************************************************************************)
EXTENDS Integers

CONSTANTS Conns, Window

VARIABLES
  sent,      \* [Conns -> Nat]
  answered,  \* [Conns -> Nat]
  sample     \* the last latency sample: request whose tx time was used,
             \* response whose rx time was used

Init ==
  /\ sent     = [c \in Conns |-> 0]
  /\ answered = [c \in Conns |-> 0]
  /\ sample   = [tx |-> 0, rx |-> 0]

Send(c) ==
  /\ sent[c] - answered[c] < Window
  /\ sent' = [sent EXCEPT ![c] = @ + 1]
  /\ UNCHANGED <<answered, sample>>

(* Responses to the k oldest outstanding requests arrive together; the     *)
(* last of them may be sampled.                                            *)
Answer(c, k) ==
  /\ k <= sent[c] - answered[c]
  /\ answered' = [answered EXCEPT ![c] = @ + k]
  /\ sample' \in {sample, [tx |-> answered[c] + k, rx |-> answered[c] + k]}
  /\ UNCHANGED sent

Next == \E c \in Conns : Send(c) \/ \E k \in 1 .. Window : Answer(c, k)

Spec == Init /\ [][Next]_<<sent, answered, sample>>
=============================================================================
