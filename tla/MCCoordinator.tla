--------------------------- MODULE MCCoordinator ---------------------------
(* Coordinator with a few agents. *)
EXTENDS Coordinator
=============================================================================
