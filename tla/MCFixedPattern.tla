--------------------------- MODULE MCFixedPattern ---------------------------
(* FixedPattern with a few agents, which report narrow or wide intervals,   *)
(* or one whose upper bound was read after the last sample.                *)
EXTENDS FixedPattern

NarrowOrWide == {[i |-> 100, k |-> 104], [i |-> 100, k |-> 110], [i |-> 100, k |-> 0]}
Narrow       == {[i |-> 100, k |-> 104]}
=============================================================================
