---------------------------- MODULE MCThreadPool ----------------------------
(***************************************************************************)
(* ThreadPool for TLC.  MaxQueue = 1 makes the limit of the queue count,   *)
(* MaxIndex = 2 makes every other notification read the eventfd.           *)
(***************************************************************************)
EXTENDS ThreadPool
=============================================================================
