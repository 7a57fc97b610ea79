---------------------------- MODULE MCTcpWorker ----------------------------
(* TcpWorker on a few connections; c1 and c2 are model values. *)
EXTENDS TcpWorker

CONSTANTS c1, c2
=============================================================================
