----------------------------- MODULE Allocator -----------------------------
(***************************************************************************)
(* What a slab pool promises its callers: memory that is handed out does   *)
(* not overlap memory that others have, and stays theirs until they free   *)
(* it.                                                                     *)
(***************************************************************************)
EXTENDS Integers

VARIABLES
  bytes,   \* the size of the pool
  live     \* the pieces of memory handed out: addr and size

Overlap(r, q) == r.addr < q.addr + q.size /\ q.addr < r.addr + r.size

Init == bytes \in Nat /\ live = {}

Alloc ==
  \E r \in live' \ live :
    /\ live' = live \cup {r}
    /\ r.addr >= 0 /\ r.size > 0 /\ r.addr + r.size <= bytes
    /\ \A q \in live : ~Overlap(r, q)

Free == \E r \in live : live' = live \ {r}

Spec == Init /\ [][(Alloc \/ Free) /\ bytes' = bytes]_<<bytes, live>>
=============================================================================
