---------------------------- MODULE ShmtxProofs ----------------------------
(***************************************************************************)
(* Proofs about the shared-memory mutex: mutual exclusion, the accounting  *)
(* of wait and sem, the bound on the semaphore, and the absence of lost    *)
(* wakeups, for any set of workers and any number of crashes.              *)
(***************************************************************************)
EXTENDS Shmtx, FiniteSetTheorems, TLAPS

\* The points that are reached only when the mutex has a semaphore.
SemaphorePoints == {"inc", "retry", "dec", "sleep", "read", "cas", "post"}

\* The master never locks and is never killed: it only wakes.
MasterInv == pc[Master] \in {"idle", "read", "cas", "post"}

\* The owner of the lock word is inside the critical section, or was killed
\* there and has not been reaped.
OwnerInv == lock # Free => lock \in Workers /\ pc[lock] \in {"cs", "dec", "dead"}

SemaphoreInv == \A p \in Procs : pc[p] \in SemaphorePoints => semaphore

\* ngx_shmtx_wakeup() got past its test only with a positive value.
SeenInv == \A p \in Procs : pc[p] = "cas" => seen[p] > 0

\* While no duty to wake was dropped: whenever a process sleeps, the lock is
\* taken, a token is there for it, or a process that carries the duty is on
\* its way.  This is what makes NoLostWakeup inductive.
PendingInv ==
  ~dropped => /\ lostPosts = 0
              /\ (\E p \in Procs : pc[p] = "sleep") =>
                   \/ lock # Free
                   \/ sem > 0
                   \/ \E q \in Procs : pc[q] \in Carrying

IInv ==
  /\ TypeOK
  /\ MutualExclusion
  /\ MasterInv
  /\ OwnerInv
  /\ SemaphoreInv
  /\ SeenInv
  /\ WaitAccounting
  /\ SemBounded
  /\ PendingInv

-----------------------------------------------------------------------------
(* Counting processes.                                                     *)

\* There are finitely many processes, hence finitely many of each kind.
LEMMA ProcsFinite ==
  /\ IsFiniteSet(Procs) /\ IsFiniteSet(Registered) /\ IsFiniteSet(Posting)
  /\ Cardinality(Registered) \in Nat /\ Cardinality(Posting) \in Nat
<1>1. IsFiniteSet(Procs)
  BY WorkersFinite, FS_AddElement DEF Procs
<1>2. Registered \subseteq Procs /\ Posting \subseteq Procs
  BY DEF Registered, Posting
<1>3. IsFiniteSet(Registered) /\ IsFiniteSet(Posting)
  BY <1>1, <1>2, FS_Subset
<1> QED
  BY <1>1, <1>3, FS_CardinalityType

\* Adding an element to a finite set, or removing one, changes its cardinality
\* by one exactly when the set changes.
LEMMA CardStep ==
  ASSUME NEW S, IsFiniteSet(S), NEW x
  PROVE  /\ Cardinality(S \cup {x}) = Cardinality(S) + (IF x \in S THEN 0 ELSE 1)
         /\ Cardinality(S \ {x}) = Cardinality(S) - (IF x \in S THEN 1 ELSE 0)
<1>1. CASE x \in S
  <2>0. S \cup {x} = S
    BY <1>1
  <2>1. Cardinality(S \cup {x}) = Cardinality(S)
    BY <2>0, Zenon
  <2>2. Cardinality(S \ {x}) = Cardinality(S) - 1
    BY <1>1, FS_RemoveElement
  <2>3. Cardinality(S) \in Nat
    BY FS_CardinalityType
  <2> QED
    BY <1>1, <2>1, <2>2, <2>3
<1>2. CASE x \notin S
  <2>0. S \ {x} = S
    BY <1>2
  <2>1. Cardinality(S \ {x}) = Cardinality(S)
    BY <2>0, Zenon
  <2>2. Cardinality(S \cup {x}) = Cardinality(S) + 1
    BY <1>2, FS_AddElement
  <2>3. Cardinality(S) \in Nat
    BY FS_CardinalityType
  <2> QED
    BY <1>2, <2>1, <2>2, <2>3
<1> QED
  BY <1>1, <1>2

\* One process moves: how many are registered, and how many are posting, then.
LEMMA Moves ==
  ASSUME TypeOK, NEW p \in Procs, NEW point, Goto(p, point)
  PROVE  /\ Cardinality(Registered') =
              Cardinality(Registered) - (IF pc[p] \in RegisteredPoints THEN 1 ELSE 0)
                                      + (IF point \in RegisteredPoints THEN 1 ELSE 0)
         /\ Cardinality(Posting') =
              Cardinality(Posting) - (IF pc[p] = "post" THEN 1 ELSE 0)
                                   + (IF point = "post" THEN 1 ELSE 0)
<1>1. Registered' = IF point \in RegisteredPoints THEN Registered \cup {p} ELSE Registered \ {p}
  BY DEF TypeOK, Goto, Registered, RegisteredPoints, Procs
<1>2. Posting' = IF point = "post" THEN Posting \cup {p} ELSE Posting \ {p}
  BY DEF TypeOK, Goto, Posting, Procs
<1>3. p \in Registered <=> pc[p] \in RegisteredPoints
  BY DEF Registered
<1>4. p \in Posting <=> pc[p] = "post"
  BY DEF Posting
<1>5. /\ Cardinality(Registered \cup {p}) = Cardinality(Registered) + (IF p \in Registered THEN 0 ELSE 1)
      /\ Cardinality(Registered \ {p}) = Cardinality(Registered) - (IF p \in Registered THEN 1 ELSE 0)
  BY CardStep, ProcsFinite
<1>6. /\ Cardinality(Posting \cup {p}) = Cardinality(Posting) + (IF p \in Posting THEN 0 ELSE 1)
      /\ Cardinality(Posting \ {p}) = Cardinality(Posting) - (IF p \in Posting THEN 1 ELSE 0)
  BY CardStep, ProcsFinite
<1> QED
  BY <1>1, <1>2, <1>3, <1>4, <1>5, <1>6, ProcsFinite

-----------------------------------------------------------------------------
(* The steps of the next-state relation, one by one.                       *)

\* A step of Next is one of the sixteen actions, by a worker or by the master.
LEMMA NextCases ==
  ASSUME Next
  PROVE  \/ \E p \in Workers :
              \/ TryLock(p) \/ Lock(p) \/ Acquire(p) \/ GiveUpSpinning(p) \/ AnnounceWait(p)
              \/ Retry(p) \/ TakeBackWait(p) \/ SemWait(p) \/ SemWaitError(p) \/ Unlock(p)
              \/ Crash(p) \/ ForceUnlock(p) \/ Respawn(p)
         \/ \E p \in Procs : WakeupRead(p) \/ WakeupCas(p) \/ SemPost(p)
BY DEF Next, WorkerStep, LockStep, MasterStep, Wakeup, Procs

\* The conjuncts of IInv that do not count processes.
PointInv ==
  /\ TypeOK
  /\ MutualExclusion
  /\ MasterInv
  /\ OwnerInv
  /\ SemaphoreInv
  /\ SeenInv

\* Each action preserves who may be where: the lock word names the process
\* inside, and nobody is at a semaphore point without a semaphore.
LEMMA PointStep ==
  ASSUME PointInv, [Next]_vars
  PROVE  PointInv'
<1> USE NamesDistinct, BoundsNat DEF PointInv, TypeOK, MutualExclusion, MasterInv, OwnerInv,
    SemaphoreInv, SeenInv, Procs, Points, Holding, SemaphorePoints, Goto, History
<1>1. ASSUME NEW p \in Workers, TryLock(p) PROVE PointInv'
  BY <1>1 DEF TryLock
<1>2. ASSUME NEW p \in Workers, Lock(p) PROVE PointInv'
  BY <1>2 DEF Lock
<1>3. ASSUME NEW p \in Workers, Acquire(p) PROVE PointInv'
  BY <1>3 DEF Acquire
<1>4. ASSUME NEW p \in Workers, GiveUpSpinning(p) PROVE PointInv'
  BY <1>4 DEF GiveUpSpinning
<1>5. ASSUME NEW p \in Workers, AnnounceWait(p) PROVE PointInv'
  BY <1>5 DEF AnnounceWait
<1>6. ASSUME NEW p \in Workers, Retry(p) PROVE PointInv'
  BY <1>6 DEF Retry
<1>7. ASSUME NEW p \in Workers, TakeBackWait(p) PROVE PointInv'
  BY <1>7 DEF TakeBackWait
<1>8. ASSUME NEW p \in Workers, SemWait(p) PROVE PointInv'
  BY <1>8 DEF SemWait
<1>9. ASSUME NEW p \in Workers, SemWaitError(p) PROVE PointInv'
  BY <1>9 DEF SemWaitError
<1>10. ASSUME NEW p \in Workers, Unlock(p) PROVE PointInv'
  BY <1>10 DEF Unlock, WakeupPoint
<1>11. ASSUME NEW p \in Workers, Crash(p) PROVE PointInv'
  BY <1>11 DEF Crash, Registered, RegisteredPoints, Posting, Carrying
<1>12. ASSUME NEW p \in Workers, ForceUnlock(p) PROVE PointInv'
  BY <1>12 DEF ForceUnlock, WakeupPoint
<1>13. ASSUME NEW p \in Workers, Respawn(p) PROVE PointInv'
  BY <1>13 DEF Respawn
<1>14. ASSUME NEW p \in Procs, WakeupRead(p) PROVE PointInv'
  BY <1>14 DEF WakeupRead
<1>15. ASSUME NEW p \in Procs, WakeupCas(p) PROVE PointInv'
  BY <1>15 DEF WakeupCas
<1>16. ASSUME NEW p \in Procs, SemPost(p) PROVE PointInv'
  BY <1>16 DEF SemPost
<1>17. CASE UNCHANGED vars
  BY <1>17 DEF vars
<1> QED
  BY <1>1, <1>2, <1>3, <1>4, <1>5, <1>6, <1>7, <1>8, <1>9, <1>10, <1>11, <1>12, <1>13, <1>14, <1>15, <1>16, <1>17, NextCases

\* The conjuncts of IInv that count processes.
CountInv == WaitAccounting /\ SemBounded

\* There are never more registered processes than workers: the master never is.
LEMMA RegisteredBound ==
  ASSUME MasterInv
  PROVE  Cardinality(Registered) <= Cardinality(Workers) /\ Cardinality(Workers) \in Nat
<1>1. Registered \subseteq Workers
  BY DEF MasterInv, Registered, RegisteredPoints, Procs
<1> QED
  BY <1>1, WorkersFinite, FS_Subset, FS_CardinalityType

\* Each action keeps wait, sem and the processes under way in balance.
LEMMA CountStep ==
  ASSUME PointInv, CountInv, [Next]_vars
  PROVE  CountInv'
<1> USE ProcsFinite, RegisteredBound DEF CountInv, WaitAccounting, SemBounded
<1>0. TypeOK /\ MasterInv /\ SeenInv
  BY DEF PointInv
<1>t. wait \in Int /\ sem \in Nat /\ orphans \in Nat /\ lostPosts \in Nat
  BY <1>0 DEF TypeOK
<1>1. ASSUME NEW p \in Workers, TryLock(p) PROVE CountInv'
  <2>1. p \in Procs /\ Goto(p, "cs")
    BY <1>1 DEF TryLock, Procs
  <2> QED
    BY <1>1, <2>1, <1>0, <1>t, Moves DEF TryLock, History, RegisteredPoints
<1>2. ASSUME NEW p \in Workers, Lock(p) PROVE CountInv'
  <2>1. p \in Procs /\ Goto(p, "try")
    BY <1>2 DEF Lock, Procs
  <2> QED
    BY <1>2, <2>1, <1>0, <1>t, Moves DEF Lock, History, RegisteredPoints
<1>3. ASSUME NEW p \in Workers, Acquire(p) PROVE CountInv'
  <2>1. p \in Procs /\ Goto(p, "cs")
    BY <1>3 DEF Acquire, Procs
  <2> QED
    BY <1>3, <2>1, <1>0, <1>t, Moves DEF Acquire, History, RegisteredPoints
<1>4. ASSUME NEW p \in Workers, GiveUpSpinning(p) PROVE CountInv'
  <2>1. p \in Procs /\ Goto(p, "inc")
    BY <1>4 DEF GiveUpSpinning, Procs
  <2> QED
    BY <1>4, <2>1, <1>0, <1>t, Moves DEF GiveUpSpinning, History, RegisteredPoints
<1>5. ASSUME NEW p \in Workers, AnnounceWait(p) PROVE CountInv'
  <2>1. p \in Procs /\ Goto(p, "retry")
    BY <1>5 DEF AnnounceWait, Procs
  <2> QED
    BY <1>5, <2>1, <1>0, <1>t, Moves DEF AnnounceWait, History, RegisteredPoints
<1>6. ASSUME NEW p \in Workers, Retry(p) PROVE CountInv'
  <2>1. p \in Procs /\ (Goto(p, "dec") \/ Goto(p, "sleep"))
    BY <1>6 DEF Retry, Procs
  <2>2. CASE Goto(p, "dec")
    BY <1>6, <2>1, <2>2, <1>0, <1>t, Moves DEF Retry, History, RegisteredPoints
  <2>3. CASE Goto(p, "sleep")
    BY <1>6, <2>1, <2>3, <1>0, <1>t, Moves DEF Retry, History, RegisteredPoints
  <2> QED
    BY <2>1, <2>2, <2>3
<1>7. ASSUME NEW p \in Workers, TakeBackWait(p) PROVE CountInv'
  <2>1. p \in Procs /\ Goto(p, "cs")
    BY <1>7 DEF TakeBackWait, Procs
  <2> QED
    BY <1>7, <2>1, <1>0, <1>t, Moves DEF TakeBackWait, History, RegisteredPoints
<1>8. ASSUME NEW p \in Workers, SemWait(p) PROVE CountInv'
  <2>1. p \in Procs /\ Goto(p, "try")
    BY <1>8 DEF SemWait, Procs
  <2> QED
    BY <1>8, <2>1, <1>0, <1>t, Moves DEF SemWait, History, RegisteredPoints
<1>9. ASSUME NEW p \in Workers, SemWaitError(p) PROVE CountInv'
  <2>1. p \in Procs /\ Goto(p, "try")
    BY <1>9 DEF SemWaitError, Procs
  <2> QED
    BY <1>9, <2>1, <1>0, <1>t, Moves DEF SemWaitError, History, RegisteredPoints
<1>10. ASSUME NEW p \in Workers, Unlock(p) PROVE CountInv'
  <2>1. p \in Procs /\ (Goto(p, "read") \/ Goto(p, "idle"))
    BY <1>10 DEF Unlock, Procs, WakeupPoint
  <2>2. CASE Goto(p, "read")
    BY <1>10, <2>1, <2>2, <1>0, <1>t, Moves DEF Unlock, History, RegisteredPoints
  <2>3. CASE Goto(p, "idle")
    BY <1>10, <2>1, <2>3, <1>0, <1>t, Moves DEF Unlock, History, RegisteredPoints
  <2> QED
    BY <2>1, <2>2, <2>3
<1>11. ASSUME NEW p \in Workers, Crash(p) PROVE CountInv'
  <2>1. p \in Procs /\ Goto(p, "dead")
    BY <1>11 DEF Crash, Procs
  <2>2. (p \in Registered <=> pc[p] \in RegisteredPoints) /\ (p \in Posting <=> pc[p] = "post")
    BY <2>1 DEF Registered, Posting
  <2> QED
    BY <1>11, <2>1, <2>2, <1>0, <1>t, Moves DEF Crash, History, RegisteredPoints
<1>12. ASSUME NEW p \in Workers, ForceUnlock(p) PROVE CountInv'
  <2>1. Registered' = Registered /\ Posting' = Posting
    BY <1>12, <1>0, NamesDistinct
    DEF ForceUnlock, WakeupPoint, Goto, Registered, RegisteredPoints, Posting, Procs, TypeOK
  <2> QED
    BY <1>12, <2>1, <1>t DEF ForceUnlock, History
<1>13. ASSUME NEW p \in Workers, Respawn(p) PROVE CountInv'
  <2>1. p \in Procs /\ Goto(p, "idle")
    BY <1>13 DEF Respawn, Procs
  <2> QED
    BY <1>13, <2>1, <1>0, <1>t, Moves DEF Respawn, History, RegisteredPoints
<1>14. ASSUME NEW p \in Procs, WakeupRead(p) PROVE CountInv'
  <2>1. p \in Procs /\ (Goto(p, "idle") \/ Goto(p, "cas"))
    BY <1>14 DEF WakeupRead, Procs
  <2>2. CASE Goto(p, "idle")
    BY <1>14, <2>1, <2>2, <1>0, <1>t, Moves DEF WakeupRead, History, RegisteredPoints
  <2>3. CASE Goto(p, "cas")
    BY <1>14, <2>1, <2>3, <1>0, <1>t, Moves DEF WakeupRead, History, RegisteredPoints
  <2> QED
    BY <2>1, <2>2, <2>3
<1>15. ASSUME NEW p \in Procs, WakeupCas(p) PROVE CountInv'
  <2>1. p \in Procs /\ (Goto(p, "post") \/ Goto(p, "read"))
    BY <1>15 DEF WakeupCas, Procs
  <2>2. CASE Goto(p, "post")
    BY <1>15, <2>1, <2>2, <1>0, <1>t, Moves DEF WakeupCas, History, RegisteredPoints, SeenInv
  <2>3. CASE Goto(p, "read")
    BY <1>15, <2>1, <2>3, <1>0, <1>t, Moves DEF WakeupCas, History, RegisteredPoints, SeenInv
  <2> QED
    BY <2>1, <2>2, <2>3
<1>16. ASSUME NEW p \in Procs, SemPost(p) PROVE CountInv'
  <2>1. p \in Procs /\ Goto(p, "idle")
    BY <1>16 DEF SemPost, Procs
  <2> QED
    BY <1>16, <2>1, <1>0, <1>t, Moves DEF SemPost, History, RegisteredPoints
<1>17. CASE UNCHANGED vars
  <2>1. Registered' = Registered /\ Posting' = Posting
    BY <1>17 DEF vars, Registered, Posting
  <2> QED
    BY <1>17, <2>1 DEF vars
<1> QED
  BY <1>1, <1>2, <1>3, <1>4, <1>5, <1>6, <1>7, <1>8, <1>9, <1>10, <1>11, <1>12, <1>13, <1>14, <1>15, <1>16, <1>17, NextCases

\* Each action hands the duty to wake a sleeper on: to the owner of the lock,
\* to a token in the semaphore, or to a process that carries it.
LEMMA PendingStep ==
  ASSUME PointInv, CountInv, PendingInv, [Next]_vars
  PROVE  PendingInv'
<1> USE NamesDistinct DEF PendingInv, Carrying, Procs, Goto, History
<1>0. TypeOK /\ OwnerInv /\ SemaphoreInv
  BY DEF PointInv
<1>t. /\ pc \in [Procs -> Points] /\ lock \in Procs \cup {Free} /\ dropped \in BOOLEAN
      /\ wait \in Int /\ sem \in Nat /\ orphans \in Nat /\ lostPosts \in Nat
  BY <1>0 DEF TypeOK
<1>1. ASSUME NEW p \in Workers, TryLock(p) PROVE PendingInv'
  BY <1>1, <1>t DEF TryLock
<1>2. ASSUME NEW p \in Workers, Lock(p) PROVE PendingInv'
  BY <1>2, <1>t DEF Lock
<1>3. ASSUME NEW p \in Workers, Acquire(p) PROVE PendingInv'
  BY <1>3, <1>t DEF Acquire
<1>4. ASSUME NEW p \in Workers, GiveUpSpinning(p) PROVE PendingInv'
  BY <1>4, <1>t DEF GiveUpSpinning
<1>5. ASSUME NEW p \in Workers, AnnounceWait(p) PROVE PendingInv'
  BY <1>5, <1>t DEF AnnounceWait
<1>6. ASSUME NEW p \in Workers, Retry(p) PROVE PendingInv'
  BY <1>6, <1>t DEF Retry
<1>7. ASSUME NEW p \in Workers, TakeBackWait(p) PROVE PendingInv'
  BY <1>7, <1>t DEF TakeBackWait
<1>8. ASSUME NEW p \in Workers, SemWait(p) PROVE PendingInv'
  BY <1>8, <1>t DEF SemWait
<1>9. ASSUME NEW p \in Workers, SemWaitError(p) PROVE PendingInv'
  BY <1>9, <1>t DEF SemWaitError
<1>10. ASSUME NEW p \in Workers, Unlock(p) PROVE PendingInv'
  BY <1>10, <1>0, <1>t DEF Unlock, WakeupPoint, SemaphoreInv, SemaphorePoints
<1>11. ASSUME NEW p \in Workers, Crash(p) PROVE PendingInv'
  BY <1>11, <1>0, <1>t DEF Crash, OwnerInv, Posting
<1>12. ASSUME NEW p \in Workers, ForceUnlock(p) PROVE PendingInv'
  BY <1>12, <1>0, <1>t DEF ForceUnlock, WakeupPoint, SemaphoreInv, SemaphorePoints
<1>13. ASSUME NEW p \in Workers, Respawn(p) PROVE PendingInv'
  BY <1>13, <1>t DEF Respawn
<1>14. ASSUME NEW p \in Procs, WakeupRead(p) PROVE PendingInv'
  <2>1. CASE wait > 0
    <3>1. pc'[p] = "cas"
      BY <1>14, <2>1, <1>t DEF WakeupRead
    <3> QED
      BY <1>14, <3>1, <1>t DEF WakeupRead
  <2>2. CASE ~(wait > 0)
    <3>1. SUFFICES ASSUME ~dropped, NEW q \in Procs, pc[q] = "sleep"
                   PROVE  sem > 0 \/ \E r \in Procs : r # p /\ pc[r] \in Carrying
      BY <1>14, <2>2, <1>t DEF WakeupRead
    <3>2. q \in Registered
      BY <3>1 DEF Registered, RegisteredPoints
    <3>3. Cardinality(Registered) > 0
      BY <3>2, ProcsFinite, FS_EmptySet
    <3>4. CASE Posting = {}
      BY <2>2, <3>1, <3>3, <3>4, <1>t, ProcsFinite, FS_EmptySet DEF CountInv, WaitAccounting
    <3>5. CASE Posting # {}
      BY <1>14, <3>5 DEF Posting, WakeupRead
    <3> QED
      BY <3>4, <3>5
  <2> QED
    BY <2>1, <2>2
<1>15. ASSUME NEW p \in Procs, WakeupCas(p) PROVE PendingInv'
  BY <1>15, <1>t DEF WakeupCas
<1>16. ASSUME NEW p \in Procs, SemPost(p) PROVE PendingInv'
  BY <1>16, <1>t DEF SemPost
<1>17. CASE UNCHANGED vars
  BY <1>17 DEF vars
<1> QED
  BY <1>1, <1>2, <1>3, <1>4, <1>5, <1>6, <1>7, <1>8, <1>9, <1>10, <1>11, <1>12, <1>13, <1>14, <1>15, <1>16, <1>17, NextCases

-----------------------------------------------------------------------------
(* The theorems.                                                           *)

\* The inductive invariant holds of every reachable state of the mutex.
THEOREM Invariance == Spec => []IInv
<1>1. Init => IInv
  <2> SUFFICES ASSUME Init PROVE IInv
    OBVIOUS
  <2>1. PointInv
    <3>1. TypeOK
      <4>1. dropped \in BOOLEAN /\ semaphore \in BOOLEAN /\ lock \in Procs \cup {Free}
        BY Zenon DEF Init
      <4>2. pc \in [Procs -> Points] /\ seen \in [Procs -> Nat]
        BY DEF Init, Points
      <4>3. crashes \in 0..MaxCrashes /\ semErrors \in 0..MaxSemErrors
        BY BoundsNat DEF Init
      <4> QED
        BY <4>1, <4>2, <4>3 DEF Init, TypeOK
    <3>2. \A p \in Procs : pc[p] = "idle"
      BY DEF Init
    <3>3. MutualExclusion /\ MasterInv /\ SemaphoreInv /\ SeenInv
      BY <3>2 DEF MutualExclusion, MasterInv, SemaphoreInv, SeenInv, Procs, Holding, SemaphorePoints
    <3>4. OwnerInv
      BY DEF Init, OwnerInv
    <3> QED
      BY <3>1, <3>3, <3>4 DEF PointInv
  <2>2. Cardinality(Registered) = 0 /\ Cardinality(Posting) = 0
    <3>1. Registered = {} /\ Posting = {}
      BY DEF Init, Registered, RegisteredPoints, Posting
    <3> QED
      BY <3>1, FS_EmptySet, Zenon
  <2>3. Cardinality(Workers) \in Nat
    BY WorkersFinite, FS_CardinalityType
  <2>4. CountInv
    BY <2>2, <2>3 DEF Init, CountInv, WaitAccounting, SemBounded
  <2>5. PendingInv
    BY DEF Init, PendingInv
  <2> QED
    BY <2>1, <2>4, <2>5 DEF IInv, PointInv, CountInv
<1>2. IInv /\ [Next]_vars => IInv'
  BY PointStep, CountStep, PendingStep DEF IInv, PointInv, CountInv
<1> QED
  BY <1>1, <1>2, PTL DEF Spec

\* Every variable of the mutex keeps its type.
THEOREM TypeCorrect == Spec => []TypeOK
<1>1. IInv => TypeOK
  BY DEF IInv
<1> QED
  BY <1>1, Invariance, PTL

\* ngx_shmtx_lock(), trylock(), unlock() and force_unlock() let at most one
\* process into the critical section, whatever is killed where.
THEOREM Exclusion == Spec => []MutualExclusion
<1>1. IInv => MutualExclusion
  BY DEF IInv
<1> QED
  BY <1>1, Invariance, PTL

\* The accounting of wait and sem is exact, crashes included.
THEOREM Accounting == Spec => []WaitAccounting
<1>1. IInv => WaitAccounting
  BY DEF IInv
<1> QED
  BY <1>1, Invariance, PTL

\* The semaphore never holds more tokens than there are workers, plus one for
\* each increment of wait that its process did not live to take back.
THEOREM SemaphoreBound == Spec => []SemBounded
<1>1. IInv => SemBounded
  BY DEF IInv
<1> QED
  BY <1>1, Invariance, PTL

\* Sleepers are left behind only by the death of a process that carried a
\* wakeup.
THEOREM WakeupsKept == Spec => []NoLostWakeup
<1>1. IInv => NoLostWakeup
  BY DEF IInv, PendingInv, NoLostWakeup, Stranded, Carrying, TypeOK, Procs
<1> QED
  BY <1>1, Invariance, PTL

\* A process that is inside owns the lock word, so nobody else is inside; and
\* when the word names a dead process, or none, nobody is.
LEMMA InsideAlone ==
  ASSUME IInv
  PROVE  /\ \A p \in Holding : Holding = {p}
         /\ lock = Free => Holding = {}
         /\ \A p \in Workers : lock = p /\ pc[p] = "dead" => Holding = {}
BY NamesDistinct DEF IInv, MutualExclusion, Holding, Procs

\* The lock word changes hands only by the step of the process that takes it,
\* by the step of the process inside that gives it back, or by the master's on
\* behalf of a dead owner, and never while another process is inside.
THEOREM FreedByOwner == Spec => OwnerFrees
<1>1. IInv /\ [Next]_vars =>
        [lock' # lock => \E p \in Workers : Takes(p) \/ Gives(p) \/ TakenFromDead(p)]_vars
  <2> SUFFICES ASSUME IInv, Next, lock' # lock
               PROVE  \E p \in Workers : Takes(p) \/ Gives(p) \/ TakenFromDead(p)
    BY DEF vars
  <2>t. pc \in [Procs -> Points]
    BY DEF IInv, TypeOK
  <2>1. ASSUME NEW p \in Workers, TryLock(p) \/ Acquire(p) \/ Retry(p) PROVE Takes(p)
    <3>1. lock = Free /\ lock' = p /\ (Goto(p, "cs") \/ Goto(p, "dec"))
      BY <2>1 DEF TryLock, Acquire, Retry
    <3>2. Holding = {}
      BY <3>1, InsideAlone
    <3> QED
      BY <3>1, <3>2, <2>t DEF Takes, Goto, OnlyMove, Holding, Procs
  <2>2. ASSUME NEW p \in Workers, Unlock(p) PROVE Gives(p)
    <3>1. lock = p /\ lock' = Free /\ pc[p] = "cs" /\ (Goto(p, "read") \/ Goto(p, "idle"))
      BY <2>2 DEF Unlock, WakeupPoint
    <3>2. Holding = {p}
      BY <3>1, InsideAlone DEF Holding, Procs
    <3> QED
      BY <3>1, <3>2, <2>t DEF Gives, Goto, OnlyMove, Holding, Procs
  <2>3. ASSUME NEW p \in Workers, ForceUnlock(p) PROVE TakenFromDead(p)
    <3>1. /\ lock = p /\ lock' = Free /\ pc[p] = "dead"
          /\ \E point \in {"read", "idle"} : pc' = [pc EXCEPT ![p] = "reaped", ![Master] = point]
      BY <2>3 DEF ForceUnlock, WakeupPoint
    <3>2. Holding = {}
      BY <3>1, InsideAlone
    <3> QED
      BY <3>1, <3>2, <2>t, NamesDistinct DEF TakenFromDead, OnlyMove, Holding, Procs
  <2> QED
    BY <2>1, <2>2, <2>3, NextCases DEF Lock, GiveUpSpinning, AnnounceWait, TakeBackWait, SemWait,
       SemWaitError, Crash, Respawn, WakeupRead, WakeupCas, SemPost
<1> QED
  BY <1>1, Invariance, PTL DEF Spec, OwnerFrees
=============================================================================
