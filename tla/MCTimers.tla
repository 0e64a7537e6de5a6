------------------------------ MODULE MCTimers ------------------------------
(***************************************************************************)
(* Small clocks for Timers: a fast core of 4 Hz and a slow one that runs   *)
(* from the crystal.                                                       *)
(***************************************************************************)
EXTENDS Timers

MCClocks == {[core |-> 4, perclk |-> 3], [core |-> 1, perclk |-> 1]}
=============================================================================
