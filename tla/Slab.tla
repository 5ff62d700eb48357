-------------------------------- MODULE Slab --------------------------------
(***************************************************************************)
(* The slab allocator of shared memory zones (core/ngx_slab.c): a list of  *)
(* free blocks of pages, and for each chunk size a list of the pages that  *)
(* still have free chunks.  Callers hold the mutex of the pool, so an      *)
(* operation is one step.                                                  *)
(*                                                                         *)
(* The page descriptors and the list heads are the nodes of doubly linked  *)
(* lists, with the type in the low bits of prev.  The machine is small:    *)
(* chunks are smaller than, equal to or bigger than the size for which the *)
(* bitmap of a page is one word.  The counters of requests and failures,   *)
(* which only a status page reads, are left out.                           *)
(***************************************************************************)
EXTENDS Integers, FiniteSets, FiniteSetsExt

CONSTANTS
  PageShift,   \* ngx_pagesize_shift
  MinShift,    \* pool->min_shift
  ByteBits,    \* bits in a byte
  WordSize,    \* sizeof(uintptr_t)
  Pools        \* the pools that are looked at: pages, and sizes asked for

PageSize == 2 ^ PageShift
MaxSize == PageSize \div 2                          \* ngx_slab_max_size
WordBits == ByteBits * WordSize
ExactSize == PageSize \div WordBits                 \* ngx_slab_exact_size
Slots == 0..(PageShift - MinShift - 1)

ASSUME SlabConstants ==
  /\ {PageShift, MinShift, ByteBits, WordSize} \subseteq Nat \ {0}
  /\ \A p \in Pools : p.pages \in Nat \ {0} /\ p.sizes \subseteq 1..(p.pages * PageSize)
  /\ MinShift < PageShift
  /\ \E s \in MinShift..(PageShift - 1) : 2 ^ s = ExactSize

\* Types of pages, and values of slab in pages of type PAGE.
PAGE == 0
BIG == 1
EXACT == 2
SMALL == 3
FREE == 0
START == 100
BUSY == 999

VARIABLES
  pool,    \* all of ngx_slab_pool_t that changes
  given    \* what callers have: the pointers returned, with the size asked for

vars == <<pool, given>>

\* pool->last, and the sizes that callers of this pool ask for.
NPages == pool.last
Sizes == pool.sizes
Pages == 0..(NPages - 1)

\* Nodes of the lists: the pages, pool->free and the slots.
FreeHead == -1
Head(slot) == -2 - slot
Nodes == Pages \cup {FreeHead} \cup {Head(slot) : slot \in Slots}
NULL == -100

Size(shift) == 2 ^ shift
Count(shift) == PageSize \div Size(shift)

\* The chunks that the bitmap of a page of small chunks takes.
MapChunks(shift) ==
  LET n == Count(shift) \div (Size(shift) * ByteBits) IN IF n = 0 THEN 1 ELSE n

Kind(shift) == IF Size(shift) < ExactSize THEN SMALL ELSE IF Size(shift) = ExactSize THEN EXACT ELSE BIG
Reserved(shift) == IF Kind(shift) = SMALL THEN MapChunks(shift) ELSE 0
Full(shift) == 0..(Count(shift) - 1)

\* slab is a number of pages or the shift of the chunks; bits are the busy
\* chunks, in a word or in the page.
TypeOK ==
  /\ pool.slab \in [Nodes -> Int]
  /\ pool.next \in [Nodes -> Nodes \cup {NULL}] /\ pool.prev \in [Nodes -> Nodes \cup {NULL}]
  /\ pool.type \in [Nodes -> {PAGE, BIG, EXACT, SMALL}]
  /\ pool.bits \in [Pages -> SUBSET (0..(PageSize - 1))]
  /\ pool.pfree \in 0..NPages
  /\ pool.used \in [Slots -> Nat] /\ pool.total \in [Slots -> Nat]

\* ngx_slab_init()
Init ==
  /\ given = {}
  /\ \E p \in Pools :
       LET pages == 0..(p.pages - 1)
           nodes == pages \cup {FreeHead} \cup {Head(slot) : slot \in Slots}
       IN  pool =
         [last  |-> p.pages, sizes |-> p.sizes,
          slab  |-> [x \in nodes |-> IF x = 0 THEN p.pages ELSE 0],
          next  |-> [x \in nodes |-> IF x = 0 THEN FreeHead ELSE IF x = FreeHead THEN 0
                                     ELSE IF x \in pages THEN NULL ELSE x],
          prev  |-> [x \in nodes |-> IF x = 0 THEN FreeHead ELSE NULL],
          type  |-> [x \in nodes |-> PAGE],
          bits  |-> [x \in pages |-> {}],
          pfree |-> p.pages,
          used  |-> [s \in Slots |-> 0], total |-> [s \in Slots |-> 0]]

-----------------------------------------------------------------------------
(* Pages.                                                                  *)

Unlink(s, x) ==
  [s EXCEPT !.next[s.prev[x]] = s.next[x], !.prev[s.next[x]] = s.prev[x], !.type[s.next[x]] = s.type[x]]

\* A descriptor on no list.
Reset(s, x, slab, type) ==
  [s EXCEPT !.slab[x] = slab, !.next[x] = NULL, !.prev[x] = NULL, !.type[x] = type]

ResetAll(s, xs, slab) ==
  [s EXCEPT !.slab = [x \in Nodes |-> IF x \in xs THEN slab ELSE s.slab[x]],
            !.next = [x \in Nodes |-> IF x \in xs THEN NULL ELSE s.next[x]],
            !.prev = [x \in Nodes |-> IF x \in xs THEN NULL ELSE s.prev[x]],
            !.type = [x \in Nodes |-> IF x \in xs THEN PAGE ELSE s.type[x]]]

\* The first block of n pages or more on the free list, or the list's head.
FirstFit(s, n) ==
  LET from[x \in Nodes] == IF x = FreeHead \/ s.slab[x] >= n THEN x ELSE from[s.next[x]]
  IN  from[s.next[FreeHead]]

\* Mutant of Split: the new block begins a page too early.
SplitEarly(s, x, n) ==
  LET rest == x + n - 1
      tail == [s EXCEPT !.prev[x + s.slab[x] - 1] = rest, !.type[x + s.slab[x] - 1] = PAGE]
      made == [tail EXCEPT !.slab[rest] = s.slab[x] - n + 1, !.next[rest] = s.next[x],
                           !.prev[rest] = s.prev[x], !.type[rest] = s.type[x]]
  IN  [made EXCEPT !.next[s.prev[x]] = rest, !.prev[s.next[x]] = rest, !.type[s.next[x]] = PAGE]

\* The end of block x becomes a block of its own, in the place of x.
Split(s, x, n) ==
  LET rest == x + n
      tail == [s EXCEPT !.prev[x + s.slab[x] - 1] = rest, !.type[x + s.slab[x] - 1] = PAGE]
      made == [tail EXCEPT !.slab[rest] = s.slab[x] - n, !.next[rest] = s.next[x],
                           !.prev[rest] = s.prev[x], !.type[rest] = s.type[x]]
  IN  [made EXCEPT !.next[s.prev[x]] = rest, !.prev[s.next[x]] = rest, !.type[s.next[x]] = PAGE]

\* ngx_slab_alloc_pages(), given the block it finds
TakePages(s, x, n) ==
  LET off == IF s.slab[x] > n THEN Split(s, x, n) ELSE Unlink(s, x)
      first == [Reset(off, x, START + n, PAGE) EXCEPT !.pfree = @ - n]
  IN  ResetAll(first, (x + 1)..(x + n - 1), BUSY)

Linked(s, x) == s.type[x] = PAGE /\ s.next[x] # NULL

\* The free block behind block x is added to it.
JoinNext(s, x) ==
  LET join == x + s.slab[x] IN
    IF join < NPages /\ Linked(s, join)
    THEN [Reset(Unlink(s, join), join, FREE, PAGE) EXCEPT !.slab[x] = @ + s.slab[join]]
    ELSE s

\* The first page of the block that ends before x; its last page points to it.
BlockBefore(s, x) == IF s.slab[x - 1] = FREE THEN s.prev[x - 1] ELSE x - 1

\* Mutant of FreePages: blocks are joined with the block behind them only.
FreePagesNoJoin(s, x, n) ==
  LET freed == ResetAll([s EXCEPT !.pfree = @ + n, !.slab[x] = n], (x + 1)..(x + n - 1), FREE)
      alone == IF freed.next[x] # NULL THEN Unlink(freed, x) ELSE freed
      right == JoinNext(alone, x)
      last == x + right.slab[x] - 1
      ended == IF last # x THEN [right EXCEPT !.prev[last] = x, !.type[last] = PAGE] ELSE right
      first == ended.next[FreeHead]
  IN  [ended EXCEPT !.prev = [@ EXCEPT ![x] = FreeHead, ![first] = x],
                    !.type = [@ EXCEPT ![x] = PAGE, ![first] = PAGE],
                    !.next = [@ EXCEPT ![x] = first, ![FreeHead] = x]]

\* Mutant of FreePages: the last page of the block does not lead to its first.
FreePagesNoEnd(s, x, n) ==
  LET freed == ResetAll([s EXCEPT !.pfree = @ + n, !.slab[x] = n], (x + 1)..(x + n - 1), FREE)
      alone == IF freed.next[x] # NULL THEN Unlink(freed, x) ELSE freed
      right == JoinNext(alone, x)
      joins == x > 0 /\ right.type[x - 1] = PAGE /\ BlockBefore(right, x) # NULL
                     /\ right.next[BlockBefore(right, x)] # NULL
      b == IF joins THEN BlockBefore(right, x) ELSE x
      both == IF joins THEN [Reset(Unlink(right, b), x, FREE, PAGE) EXCEPT !.slab[b] = @ + right.slab[x]]
                       ELSE right
      first == both.next[FreeHead]
  IN  [both EXCEPT !.prev = [@ EXCEPT ![b] = FreeHead, ![first] = b],
                   !.type = [@ EXCEPT ![b] = PAGE, ![first] = PAGE],
                   !.next = [@ EXCEPT ![b] = first, ![FreeHead] = b]]

\* ngx_slab_free_pages()
FreePages(s, x, n) ==
  LET freed == ResetAll([s EXCEPT !.pfree = @ + n, !.slab[x] = n], (x + 1)..(x + n - 1), FREE)
      alone == IF freed.next[x] # NULL THEN Unlink(freed, x) ELSE freed
      right == JoinNext(alone, x)
      joins == x > 0 /\ right.type[x - 1] = PAGE /\ right.next[BlockBefore(right, x)] # NULL
      b == IF joins THEN BlockBefore(right, x) ELSE x
      both == IF joins THEN [Reset(Unlink(right, b), x, FREE, PAGE) EXCEPT !.slab[b] = @ + right.slab[x]]
                       ELSE right
      last == b + both.slab[b] - 1
      ended == IF last # b THEN [both EXCEPT !.prev[last] = b, !.type[last] = PAGE] ELSE both
      first == ended.next[FreeHead]
  IN  [ended EXCEPT !.prev = [@ EXCEPT ![b] = FreeHead, ![first] = b],
                    !.type = [@ EXCEPT ![b] = PAGE, ![first] = PAGE],
                    !.next = [@ EXCEPT ![b] = first, ![FreeHead] = b]]

-----------------------------------------------------------------------------
(* ngx_slab_alloc_locked()                                                 *)

PagesFor(size) == (size \div PageSize) + (IF size % PageSize # 0 THEN 1 ELSE 0)

\* The smallest shift, from min_shift, of chunks that size fits into.
ShiftFor(size) == Min({shift \in MinShift..PageShift : size <= Size(shift)})

\* The pointer that is returned: chunk i of page x, or its beginning.
Give(x, i, size) ==
  given' = given \cup {[addr |-> x * PageSize + i * (IF size > MaxSize THEN 0 ELSE Size(ShiftFor(size))),
                        size |-> size]}

AllocPages(size) ==
  /\ size > MaxSize
  /\ LET x == FirstFit(pool, PagesFor(size)) IN
       IF x = FreeHead THEN UNCHANGED vars
       ELSE pool' = TakePages(pool, x, PagesFor(size)) /\ Give(x, 0, size)

\* A page with free chunks gives its first one, and leaves the list of its
\* slot when that was the last.
AllocChunk(size) ==
  /\ size <= MaxSize
  /\ LET shift == ShiftFor(size)
         slot == shift - MinShift
         x == pool.next[Head(slot)]
         i == Min(Full(shift) \ pool.bits[x])
         busy == pool.bits[x] \cup {i}
         s == [pool EXCEPT !.bits[x] = busy, !.used[slot] = @ + 1]
     IN  /\ x # Head(slot)
         /\ Give(x, i, size)
         /\ pool' = IF busy = Full(shift) THEN Reset(Unlink(s, x), x, s.slab[x], s.type[x]) ELSE s

\* Mutant of AllocPage: the chunk that is handed out is not marked.
AllocPageUnmarked(size) ==
  /\ size <= MaxSize
  /\ LET shift == ShiftFor(size)
         slot == shift - MinShift
         x == FirstFit(pool, 1)
         s == TakePages(pool, x, 1)
     IN  /\ pool.next[Head(slot)] = Head(slot)
         /\ IF x = FreeHead THEN UNCHANGED vars
            ELSE /\ Give(x, Reserved(shift), size)
                 /\ pool' = [s EXCEPT !.bits[x] = 0..(Reserved(shift) - 1), !.slab[x] = shift,
                                      !.type[x] = Kind(shift), !.next = [@ EXCEPT ![x] = Head(slot), ![Head(slot)] = x],
                                      !.prev[x] = Head(slot), !.used[slot] = @ + 1,
                                      !.total[slot] = @ + Count(shift) - Reserved(shift)]

\* The slot has no such page: a new one is taken, and its first chunk, or the
\* first one behind its bitmap, is handed out.
AllocPage(size) ==
  /\ size <= MaxSize
  /\ LET shift == ShiftFor(size)
         slot == shift - MinShift
         x == FirstFit(pool, 1)
         s == TakePages(pool, x, 1)
     IN  /\ pool.next[Head(slot)] = Head(slot)
         /\ IF x = FreeHead THEN UNCHANGED vars
            ELSE /\ Give(x, Reserved(shift), size)
                 /\ pool' = [s EXCEPT !.bits[x] = 0..Reserved(shift), !.slab[x] = shift,
                                      !.type[x] = Kind(shift), !.next = [@ EXCEPT ![x] = Head(slot), ![Head(slot)] = x],
                                      !.prev[x] = Head(slot), !.used[slot] = @ + 1,
                                      !.total[slot] = @ + Count(shift) - Reserved(shift)]

-----------------------------------------------------------------------------
(* ngx_slab_free_locked()                                                  *)

FreeBlock(p) ==
  LET x == p \div PageSize IN
    /\ pool.type[x] = PAGE
    /\ pool' = FreePages(pool, x, pool.slab[x] - START)

Relink(s, x, slot) ==
  LET first == s.next[Head(slot)] IN
    [s EXCEPT !.next = [@ EXCEPT ![x] = first, ![Head(slot)] = x],
              !.prev = [@ EXCEPT ![x] = Head(slot), ![first] = x],
              !.type[first] = s.type[x]]

\* Mutant of FreeChunk: the page was full before, not after, the chunk is freed.
FreeChunkLost(p) ==
  LET x == p \div PageSize
      shift == pool.slab[x]
      slot == shift - MinShift
      s == [pool EXCEPT !.bits[x] = @ \ {(p % PageSize) \div Size(shift)}, !.used[slot] = @ - 1]
      back == IF s.bits[x] = Full(shift) THEN Relink(s, x, slot) ELSE s
  IN  /\ pool.type[x] # PAGE
      /\ pool' = IF s.bits[x] \subseteq 0..(Reserved(shift) - 1)
                 THEN [FreePages(back, x, 1) EXCEPT !.total[slot] = @ - (Count(shift) - Reserved(shift)),
                                                    !.bits[x] = {}]
                 ELSE back

\* A full page comes back to the list of its slot, an empty one is freed.  A
\* page of exact chunks is known to be full from its word of bits, the others
\* from being on no list.
FreeChunk(p) ==
  LET x == p \div PageSize
      shift == pool.slab[x]
      full == IF pool.type[x] = EXACT THEN pool.bits[x] = Full(shift) ELSE pool.next[x] = NULL
      slot == shift - MinShift
      s == [pool EXCEPT !.bits[x] = @ \ {(p % PageSize) \div Size(shift)}, !.used[slot] = @ - 1]
      back == IF full THEN Relink(s, x, slot) ELSE s
  IN  /\ pool.type[x] # PAGE
      /\ pool' = IF s.bits[x] \subseteq 0..(Reserved(shift) - 1)
                 THEN [FreePages(back, x, 1) EXCEPT !.total[slot] = @ - (Count(shift) - Reserved(shift)),
                                                    !.bits[x] = {}]
                 ELSE back

\* ngx_slab_alloc(), ngx_slab_free(): both under the mutex of the pool.
Alloc(size) == AllocPages(size) \/ AllocChunk(size) \/ AllocPage(size)

Free(r) == (FreeBlock(r.addr) \/ FreeChunk(r.addr)) /\ given' = given \ {r}

Next == (\E size \in Sizes : Alloc(size)) \/ (\E r \in given : Free(r))

Spec == Init /\ [][Next]_vars

-----------------------------------------------------------------------------
(* Properties.                                                             *)

\* The memory handed out, as the bitmaps and the descriptors have it.
ChunksOf(x) ==
  {[addr |-> x * PageSize + i * Size(pool.slab[x]), size |-> Size(pool.slab[x])]
     : i \in pool.bits[x] \ 0..(Reserved(pool.slab[x]) - 1)}

Live ==
  {[addr |-> x * PageSize, size |-> (pool.slab[x] - START) * PageSize]
     : x \in {y \in Pages : pool.type[y] = PAGE /\ pool.slab[y] \in (START + 1)..(START + NPages)}}
  \cup UNION {ChunksOf(x) : x \in {y \in Pages : pool.type[y] # PAGE}}

\* What the bitmaps and descriptors say is handed out is what callers have,
\* and is large enough.
Marked ==
  /\ {r.addr : r \in Live} = {r.addr : r \in given}
  /\ \A r \in Live, q \in given : r.addr = q.addr => q.size <= r.size

\* The pool implements the allocator: the pieces that callers have never
\* overlap or go past the end of the pool, and stay theirs until freed.
Promise == INSTANCE Allocator WITH bytes <- NPages * PageSize, live <- given
Refines == Promise!Spec

\* Blocks on the free list: x begins one, BlockPages(x) are its pages.
FreeStarts == {x \in Pages : Linked(pool, x)}
BlockPages(x) == x..(x + pool.slab[x] - 1)

\* The free list is one ring through the heads of free blocks, the last page
\* of a block leads back to its first if something follows it, blocks are
\* counted in pfree, and no two free blocks lie side by side: freeing leaves
\* nothing that a larger request would miss (ngx_slab_free_pages()).
FreeBlocks ==
  /\ TypeOK
  /\ \A x \in FreeStarts \cup {FreeHead} :
       pool.next[x] \in FreeStarts \cup {FreeHead}
       /\ (pool.next[x] # FreeHead => pool.prev[pool.next[x]] = x)
  /\ \A x \in FreeStarts :
       LET last == x + pool.slab[x] - 1 IN
         /\ last \in Pages
         /\ last # x /\ last + 1 \in Pages => pool.prev[last] = x /\ pool.slab[last] = FREE
         /\ last + 1 \notin FreeStarts
         /\ \A y \in FreeStarts : y # x => BlockPages(x) \cap BlockPages(y) = {}
  /\ pool.pfree = Cardinality(UNION {BlockPages(x) : x \in FreeStarts})

\* Once everything has been freed the pool is one block again.
NoLeak ==
  given = {} => /\ FreeStarts = {0} /\ pool.slab[0] = NPages /\ pool.pfree = NPages
                /\ \A slot \in Slots : pool.total[slot] = 0 /\ pool.used[slot] = 0

\* A page with chunks is on the list of its slot exactly if a chunk is free,
\* so ngx_slab_alloc() never finds "page is busy" and never passes by a free
\* chunk.
SlotLists ==
  \A x \in Pages : pool.type[x] # PAGE =>
    /\ (pool.next[x] # NULL) <=> (pool.bits[x] # Full(pool.slab[x]))
    /\ pool.next[x] # NULL =>
         LET head == Head(pool.slab[x] - MinShift)
             reached[n \in 0..NPages] ==
               IF n = 0 THEN {pool.next[head]} ELSE reached[n - 1] \cup {pool.next[y] : y \in reached[n - 1] \cap Pages}
         IN  x \in reached[NPages] /\ pool.type[x] = Kind(pool.slab[x])
=============================================================================
