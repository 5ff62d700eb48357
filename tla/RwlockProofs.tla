---------------------------- MODULE RwlockProofs ----------------------------
(***************************************************************************)
(* Proofs about the reader-writer lock, for any finite set of workers.     *)
(*                                                                         *)
(* Counted is inductive once it says that there is at most one writer and  *)
(* that a writer excludes readers: the word alone does not tell how many   *)
(* writers there are.                                                      *)
(***************************************************************************)
EXTENDS Rwlock, FiniteSetTheorems, TLAPS

IInv == TypeOK /\ Exclusive /\ Counted

\* The disjuncts of Next, one worker at a time.
LEMMA NextCases ==
  ASSUME Next
  PROVE  \E p \in Workers : \/ WLock(p) \/ RLock(p) \/ WTest(p) \/ WSet(p) \/ RRead(p)
                            \/ RSet(p) \/ Unlock(p) \/ UStore(p) \/ USet(p) \/ URead(p)
  BY DEF Next, Step

\* The readers are finitely many, and counting them is counting in Nat.
LEMMA ReadersFinite == IsFiniteSet(Readers) /\ Cardinality(Readers) \in Nat
  BY WorkersFinite, FS_Subset, FS_CardinalityType DEF Readers

LEMMA InitIInv == ASSUME Init PROVE IInv
  <1>1. TypeOK
    BY DEF Init, TypeOK, WLOCK
  <1>2. Writers = {} /\ Readers = {}
    BY DEF Init, Writers, Readers
  <1>3. Exclusive
    BY <1>2 DEF Exclusive
  <1>4. Counted
    BY <1>2, FS_EmptySet DEF Counted, Init, WLOCK
  <1> QED  BY <1>1, <1>3, <1>4 DEF IInv

\* A step that leaves the word, and who has the lock, as they are.
LEMMA SameHolders ==
  ASSUME IInv, TypeOK', lock' = lock, Writers' = Writers, Readers' = Readers
  PROVE  IInv'
  BY DEF IInv, Exclusive, Counted

\* Steps that neither take nor give back the lock: the first reads, and a
\* compare-and-swap that fails.
LEMMA QuietStep ==
  ASSUME IInv, NEW p \in Workers,
         \/ WLock(p) \/ RLock(p) \/ WTest(p) \/ RRead(p) \/ URead(p)
         \/ WSet(p) /\ lock # 0
         \/ RSet(p) /\ lock # seen[p]
         \/ USet(p) /\ lock # seen[p]
         \/ Unlock(p)
  PROVE  IInv'
  <1> USE DEF goto, see, WLOCK
  <1>1. lock' = lock
    BY DEF WLock, RLock, WTest, RRead, URead, WSet, RSet, USet, Unlock
  <1>2. p \in Readers => lock \in Nat
    <2> SUFFICES ASSUME p \in Readers PROVE lock \in Nat
      OBVIOUS
    <2>1. p \notin Writers
      BY DEF Readers, Writers
    <2>2. Writers = {}
      BY <2>1 DEF IInv, Exclusive, Writers
    <2> QED  BY <2>2 DEF IInv, Counted, TypeOK
  <1>3. lock = WLOCK => p \notin Readers
    BY <1>2
  <1>4. lock # WLOCK => p \notin Writers
    BY DEF IInv, Counted
  <1>5. TypeOK'
    BY <1>1, <1>2 DEF IInv, TypeOK, Readers, WLock, RLock, WTest, RRead, URead, WSet, RSet, USet, Unlock
  <1>6. Writers' = Writers /\ Readers' = Readers
    BY <1>3, <1>4 DEF IInv, TypeOK, Readers, Writers,
                      WLock, RLock, WTest, RRead, URead, WSet, RSet, USet, Unlock
  <1> QED  BY <1>1, <1>5, <1>6, SameHolders

\* A writer takes the lock when the word is 0, so when nobody has it.
LEMMA WSetStep ==
  ASSUME IInv, NEW p \in Workers, WSet(p), lock = 0
  PROVE  IInv'
  <1> USE DEF goto, WLOCK
  <1>1. TypeOK'
    BY DEF IInv, TypeOK, WSet
  <1>2. Writers = {} /\ Readers = {}
    BY ReadersFinite, FS_EmptySet DEF IInv, Counted
  <1>3. Writers' = {p} /\ Readers' = {}
    BY <1>2 DEF IInv, TypeOK, WSet, Writers, Readers
  <1>4. Exclusive'
    BY <1>3 DEF Exclusive
  <1>5. Counted'
    BY <1>3 DEF Counted, WSet
  <1> QED  BY <1>1, <1>4, <1>5 DEF IInv

\* A reader is added to the count.
LEMMA RSetStep ==
  ASSUME IInv, NEW p \in Workers, RSet(p), lock = seen[p]
  PROVE  IInv'
  <1> USE DEF goto, see, WLOCK
  <1>1. TypeOK'
    BY DEF IInv, TypeOK, RSet
  <1>2. lock \in Nat /\ Writers = {}
    BY DEF IInv, TypeOK, Counted
  <1>3. Writers' = {} /\ Readers' = Readers \cup {p} /\ p \notin Readers
    BY <1>2 DEF IInv, TypeOK, RSet, Writers, Readers
  <1>4. Exclusive'
    BY <1>3 DEF Exclusive
  <1>5. lock = Cardinality(Readers)
    BY <1>2 DEF IInv, Counted
  <1>6. Cardinality(Readers') = Cardinality(Readers) + 1
    BY <1>3, ReadersFinite, FS_AddElement
  <1>7. lock' = lock + 1
    BY DEF RSet
  <1>8. Counted'
    BY <1>2, <1>3, <1>5, <1>6, <1>7 DEF Counted
  <1> QED  BY <1>1, <1>4, <1>8 DEF IInv

\* The only writer stores 0.
LEMMA UStoreStep ==
  ASSUME IInv, NEW p \in Workers, UStore(p)
  PROVE  IInv'
  <1> USE DEF goto, WLOCK
  <1>1. TypeOK'
    BY DEF IInv, TypeOK, UStore
  <1>2. Writers = {p} /\ Readers = {}
    BY DEF IInv, Exclusive, UStore, Writers, Readers
  <1>3. Writers' = {} /\ Readers' = {}
    BY <1>2 DEF IInv, TypeOK, UStore, Writers, Readers
  <1>4. Exclusive'
    BY <1>3 DEF Exclusive
  <1>5. Counted'
    BY <1>3, FS_EmptySet DEF Counted, UStore
  <1> QED  BY <1>1, <1>4, <1>5 DEF IInv

\* A reader is taken off the count, which is not 0 because it is counted.
LEMMA USetStep ==
  ASSUME IInv, NEW p \in Workers, USet(p), lock = seen[p]
  PROVE  IInv'
  <1> USE DEF goto, see, WLOCK
  <1>1. lock \in Nat /\ Writers = {}
    BY DEF IInv, TypeOK, Counted
  <1>2. p \in Readers
    BY DEF USet, Readers
  <1>3. Writers' = {} /\ Readers' = Readers \ {p}
    BY <1>1 DEF IInv, TypeOK, USet, Writers, Readers
  <1>4. lock = Cardinality(Readers)
    BY <1>1 DEF IInv, Counted
  <1>5. Cardinality(Readers') = Cardinality(Readers) - 1
    BY <1>2, <1>3, ReadersFinite, FS_RemoveElement
  <1>6. lock # 0
    BY <1>2, <1>4, ReadersFinite, FS_EmptySet
  <1>7. lock' = lock - 1
    BY DEF USet
  <1>8. TypeOK'
    BY <1>1, <1>6, <1>7 DEF IInv, TypeOK, USet
  <1>9. Exclusive'
    BY <1>3 DEF Exclusive
  <1>10. Counted'
    BY <1>1, <1>3, <1>4, <1>5, <1>6, <1>7 DEF Counted
  <1> QED  BY <1>8, <1>9, <1>10 DEF IInv

\* Every step of ngx_rwlock_wlock(), _rlock() and _unlock() keeps the
\* inductive invariant.
LEMMA NextIInv == ASSUME IInv, [Next]_vars PROVE IInv'
  <1>1. CASE Next
    <2>1. PICK p \in Workers : \/ WLock(p) \/ RLock(p) \/ WTest(p) \/ WSet(p) \/ RRead(p)
                               \/ RSet(p) \/ Unlock(p) \/ UStore(p) \/ USet(p) \/ URead(p)
      BY <1>1, NextCases
    <2>2. CASE WSet(p) /\ lock = 0
      BY <2>2, WSetStep
    <2>3. CASE RSet(p) /\ lock = seen[p]
      BY <2>3, RSetStep
    <2>4. CASE UStore(p)
      BY <2>4, UStoreStep
    <2>5. CASE USet(p) /\ lock = seen[p]
      BY <2>5, USetStep
    <2> QED  BY <2>1, <2>2, <2>3, <2>4, <2>5, QuietStep
  <1>2. CASE UNCHANGED vars
    BY <1>2 DEF vars, IInv, TypeOK, Exclusive, Counted, Writers, Readers
  <1> QED  BY <1>1, <1>2

\* The inductive invariant holds in every reachable state.
THEOREM Invariance == Spec => []IInv
  <1>1. Init => IInv
    BY InitIInv
  <1>2. IInv /\ [Next]_vars => IInv'
    BY NextIInv
  <1> QED  BY <1>1, <1>2, PTL DEF Spec

\* A writer of a shared zone is alone in it, for any number of workers.
THEOREM WriterAlone == Spec => []Exclusive
  <1>1. IInv => Exclusive
    BY DEF IInv
  <1> QED  BY <1>1, Invariance, PTL

\* The lock word counts the readers exactly and never goes below zero, for
\* any number of workers.
THEOREM WordCounts == Spec => []Counted
  <1>1. IInv => Counted
    BY DEF IInv
  <1> QED  BY <1>1, Invariance, PTL
=============================================================================
