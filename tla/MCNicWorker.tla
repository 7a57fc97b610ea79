---------------------------- MODULE MCNicWorker ----------------------------
(* NicWorker on a few connections; c1 and c2 are model values. *)
EXTENDS NicWorker

CONSTANTS c1, c2
=============================================================================
