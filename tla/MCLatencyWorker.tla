-------------------------- MODULE MCLatencyWorker --------------------------
(* The instance of LatencyWorker that TLC checks. *)
EXTENDS LatencyWorker

CONSTANTS a1, a2, c1, c2, c3, t1, t2

MCOwner == [c \in Conns |-> IF c = c3 THEN a2 ELSE a1]
=============================================================================
