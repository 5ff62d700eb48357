---------------------------- MODULE MCConnections ----------------------------
(* Instances of Connections for TLC.                                       *)
EXTENDS Connections, TLC

CONSTANTS l, a, b

\* The entries other than the listening one are alike but for the order of
\* the free list at the start, so there is no symmetry to use.
MCEntries == {l, a, b}
=============================================================================
