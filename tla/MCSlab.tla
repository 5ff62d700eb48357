------------------------------- MODULE MCSlab -------------------------------
(***************************************************************************)
(* Instances of Slab for TLC: pages of 16 bytes on a machine with words of *)
(* 4 bits in 2 bytes.  Chunks of 2 bytes are small (8 in a page, 2 of them *)
(* the bitmap), of 4 bytes exact (4 in a page), of 8 bytes big (2).        *)
(***************************************************************************)
EXTENDS Slab

\* A pool where all kinds of chunks compete for two pages, and one where blocks
\* of several pages are split and joined.
MCPools == {[pages |-> 2, sizes |-> {1, 4, 7, 16}], [pages |-> 5, sizes |-> {5, 16, 17, 40}]}
=============================================================================
