------------------------------ MODULE MCTimers ------------------------------
(* Instances of Timers for TLC.                                            *)
EXTENDS Timers, TLC

CONSTANTS e1, e2, e3

MCTimed == {e1, e2, e3}
Symmetry == Permutations(MCTimed)
=============================================================================
