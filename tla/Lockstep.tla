------------------------------ MODULE Lockstep ------------------------------
(***************************************************************************)
(* What the coordinator promises about an experiment, whatever messages it *)
(* takes: the experiment is a sequence of phases, each with its agents; an *)
(* agent acts in a phase at most once; no agent acts in a phase before     *)
(* every agent of the phase before it has acted; and the experiment can be *)
(* abandoned at any time.                                                  *)
(***************************************************************************)
CONSTANTS First, Members(_), Follow(_)

VARIABLES
  phase, \* the phase the experiment is in
  acted, \* the agents that acted in it
  over   \* no further phase begins

Init == phase = First /\ acted = {} /\ over = FALSE

Act(a) ==
  /\ a \in Members(phase) \ acted
  /\ acted' = acted \cup {a}
  /\ UNCHANGED <<phase, over>>

Advance ==
  /\ ~over /\ acted = Members(phase)
  /\ phase' \in Follow(phase)
  /\ acted' = {}
  /\ UNCHANGED over

Finish == over' = TRUE /\ UNCHANGED <<phase, acted>>

Next == Advance \/ Finish \/ \E a \in Members(phase) : Act(a)

Spec == Init /\ [][Next]_<<phase, acted, over>>
=============================================================================
