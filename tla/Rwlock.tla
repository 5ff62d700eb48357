------------------------------- MODULE Rwlock -------------------------------
(***************************************************************************)
(* The reader-writer lock of shared memory zones (core/ngx_rwlock.c): one  *)
(* word that is 0, the number of readers, or NGX_RWLOCK_WLOCK.  A read of  *)
(* the word and the compare-and-swap that depends on it are two steps.     *)
(***************************************************************************)
EXTENDS Integers, FiniteSets

CONSTANT Workers

ASSUME WorkersFinite == IsFiniteSet(Workers)

\* (ngx_atomic_uint_t) -1, which is no number of readers
WLOCK == -1

VARIABLES
  lock,
  pc,     \* where each worker is
  seen    \* the local variable readers

vars == <<lock, pc, seen>>

TypeOK ==
  /\ lock \in Nat \cup {WLOCK}
  /\ pc \in [Workers -> {"idle", "wtest", "wset", "writing", "store",
                         "rread", "rset", "reading", "uread", "uset"}]
  /\ seen \in [Workers -> Nat]

Init ==
  /\ lock = 0
  /\ pc = [p \in Workers |-> "idle"]
  /\ seen = [p \in Workers |-> 0]

goto(p, where) == pc' = [pc EXCEPT ![p] = where]
see(p, n) == seen' = [seen EXCEPT ![p] = n]

-----------------------------------------------------------------------------
(* ngx_rwlock_wlock()                                                      *)

WLock(p) ==
  /\ pc[p] = "idle" /\ goto(p, "wtest")
  /\ UNCHANGED <<lock, seen>>

WTest(p) ==
  /\ pc[p] = "wtest" /\ lock = 0
  /\ goto(p, "wset")
  /\ UNCHANGED <<lock, seen>>

\* Mutant of WSet: a plain store after the test.
WSetStore(p) ==
  /\ pc[p] = "wset"
  /\ lock' = WLOCK /\ goto(p, "writing")
  /\ UNCHANGED seen

\* Mutant of WSet: the swap is never made.
WSetNever(p) ==
  /\ pc[p] = "wset" /\ goto(p, "wtest")
  /\ UNCHANGED <<lock, seen>>

WSet(p) ==
  /\ pc[p] = "wset"
  /\ IF lock = 0 THEN lock' = WLOCK /\ goto(p, "writing")
                 ELSE UNCHANGED lock /\ goto(p, "wtest")
  /\ UNCHANGED seen

-----------------------------------------------------------------------------
(* ngx_rwlock_rlock()                                                      *)

RLock(p) ==
  /\ pc[p] = "idle" /\ goto(p, "rread")
  /\ UNCHANGED <<lock, seen>>

RRead(p) ==
  /\ pc[p] = "rread" /\ lock # WLOCK
  /\ see(p, lock) /\ goto(p, "rset")
  /\ UNCHANGED lock

RSet(p) ==
  /\ pc[p] = "rset"
  /\ IF lock = seen[p] THEN lock' = lock + 1 /\ goto(p, "reading")
                       ELSE UNCHANGED lock /\ goto(p, "rread")
  /\ see(p, 0)

-----------------------------------------------------------------------------
(* ngx_rwlock_unlock()                                                     *)

Unlock(p) ==
  /\ pc[p] \in {"reading", "writing"}
  /\ IF lock = WLOCK THEN goto(p, "store") /\ UNCHANGED seen
                     ELSE see(p, lock) /\ goto(p, "uset")
  /\ UNCHANGED lock

UStore(p) ==
  /\ pc[p] = "store"
  /\ lock' = 0 /\ goto(p, "idle")
  /\ UNCHANGED seen

\* Mutant of USet: the word is not read again.
USetGiveUp(p) ==
  /\ pc[p] = "uset"
  /\ IF lock = seen[p] THEN lock' = lock - 1 ELSE UNCHANGED lock
  /\ goto(p, "idle")
  /\ see(p, 0)

USet(p) ==
  /\ pc[p] = "uset"
  /\ IF lock = seen[p] THEN lock' = lock - 1 /\ goto(p, "idle")
                       ELSE UNCHANGED lock /\ goto(p, "uread")
  /\ see(p, 0)

URead(p) ==
  /\ pc[p] = "uread"
  /\ see(p, lock) /\ goto(p, "uset")
  /\ UNCHANGED lock

Step(p) ==
  \/ WTest(p) \/ WSet(p) \/ RRead(p) \/ RSet(p)
  \/ Unlock(p) \/ UStore(p) \/ USet(p) \/ URead(p)

Next == \E p \in Workers : WLock(p) \/ RLock(p) \/ Step(p)

Spec == Init /\ [][Next]_vars

\* A worker that spins or holds the lock runs.
FairSpec == Spec /\ \A p \in Workers : WF_vars(Step(p))

-----------------------------------------------------------------------------
(* Properties.                                                             *)

Writers == {p \in Workers : pc[p] \in {"writing", "store"}}
Readers == {p \in Workers : pc[p] \in {"reading", "uread", "uset"}}

\* A writer is alone: no other worker is between lock and unlock.
Exclusive == \A p, q \in Workers : p \in Writers /\ q \in Writers \cup Readers => p = q

\* The word says who has the lock: WLOCK with a writer, otherwise the number
\* of readers, those included that are still in ngx_rwlock_unlock().
Counted ==
  /\ lock = WLOCK <=> Writers # {}
  /\ lock # WLOCK => lock = Cardinality(Readers)

\* When nobody has the lock and somebody wants it, somebody gets it: the
\* failure of one compare-and-swap is the success of another.
SomeoneGetsIt ==
  (lock = 0 /\ \E p \in Workers : pc[p] # "idle") ~> (lock # 0)
=============================================================================
