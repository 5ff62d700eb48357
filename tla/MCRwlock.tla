------------------------------ MODULE MCRwlock ------------------------------
(***************************************************************************)
(* Rwlock for TLC.  Workers are model values; a run with a liveness        *)
(* property uses no symmetry.                                              *)
(***************************************************************************)
EXTENDS Rwlock
=============================================================================
