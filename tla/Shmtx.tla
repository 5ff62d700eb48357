------------------------------- MODULE Shmtx -------------------------------
(***************************************************************************)
(* The shared-memory mutex of core/ngx_shmtx.c, in the build with atomic   *)
(* operations and POSIX semaphores.  Worker processes lock and unlock it;  *)
(* a worker may be killed at any instruction, and the master, which reaps  *)
(* it, force-unlocks the mutex on its behalf (os/unix/ngx_process.c).      *)
(*                                                                         *)
(* One step of the model is one atomic access to shared memory, or one     *)
(* semaphore call.  The test "*lock == 0 && cmp_set(lock, 0, pid)" is one  *)
(* step: a failed test and a failed cmp_set have the same effect, none.    *)
(***************************************************************************)
EXTENDS Integers, FiniteSets

CONSTANTS
  Workers,      \* the worker processes, named by their slot
  Master,       \* the master process
  Free,         \* the value 0 of the lock word
  MaxCrashes,   \* bound: how many times a worker is killed
  MaxSemErrors  \* bound: how many sem_wait() calls fail with other than EINTR

ASSUME WorkersFinite == IsFiniteSet(Workers)
ASSUME NamesDistinct == Master \notin Workers /\ Free \notin Workers \cup {Master}
ASSUME BoundsNat == MaxCrashes \in Nat /\ MaxSemErrors \in Nat

VARIABLES
  lock,       \* *mtx->lock: Free, or the pid of the owner
  wait,       \* *mtx->wait, as the signed number ngx_shmtx_wakeup() tests
  sem,        \* the value of the semaphore mtx->sem
  semaphore,  \* mtx->semaphore: is there a semaphore to sleep on
  pc,         \* where each process is
  seen,       \* the local "wait" of ngx_shmtx_wakeup(), per process, 0 outside it
  crashes,    \* how many workers were killed so far
  semErrors,  \* how many sem_wait() calls failed so far
  orphans,    \* history: increments of wait whose owner will never take them back
  lostPosts,  \* history: decrements of wait whose owner will never post for them
  dropped     \* history: was a worker killed while it was to pass a wakeup on

vars == <<lock, wait, sem, semaphore, pc, seen,
          crashes, semErrors, orphans, lostPosts, dropped>>

Procs == Workers \cup {Master}

\* Program points.  "try" is the head of the loop of ngx_shmtx_lock(), spinning
\* included; "inc" .. "sleep" its semaphore part; "cs" the critical section;
\* "read", "cas" and "post" are ngx_shmtx_wakeup(); a killed worker is "dead"
\* until the master reaps it, and "reaped" until its slot is respawned.
Points == {"idle", "try", "inc", "retry", "dec", "sleep", "cs",
           "read", "cas", "post", "dead", "reaped"}

\* The points at which a process has added 1 to wait and has neither taken it
\* back nor been woken for it.
RegisteredPoints == {"retry", "dec", "sleep"}

Registered == {p \in Procs : pc[p] \in RegisteredPoints}

\* The processes that took 1 from wait and have not posted the semaphore yet.
Posting == {p \in Procs : pc[p] = "post"}

Holding == {p \in Procs : pc[p] \in {"cs", "dec"}}

\* The points at which a process that a sleeper may be relying on is under way:
\* it will take the lock and unlock it later, or it is about to post.
Carrying == {"try", "inc", "retry", "read", "cas", "post"}

\* wait may go below 0, but ngx_shmtx_wakeup() never works with such a value:
\* its unsigned local is compared as a signed number.
TypeOK ==
  /\ lock \in Procs \cup {Free}
  /\ wait \in Int
  /\ sem \in Nat
  /\ semaphore \in BOOLEAN
  /\ pc \in [Procs -> Points]
  /\ seen \in [Procs -> Nat]
  /\ crashes \in 0..MaxCrashes
  /\ semErrors \in 0..MaxSemErrors
  /\ orphans \in Nat
  /\ lostPosts \in Nat
  /\ dropped \in BOOLEAN

\* ngx_shmtx_create(): sem_init() may fail, and spin = -1 asks for no semaphore.
Init ==
  /\ lock = Free
  /\ wait = 0
  /\ sem = 0
  /\ semaphore \in BOOLEAN
  /\ pc = [p \in Procs |-> "idle"]
  /\ seen = [p \in Procs |-> 0]
  /\ crashes = 0
  /\ semErrors = 0
  /\ orphans = 0
  /\ lostPosts = 0
  /\ dropped = FALSE

Goto(p, point) == pc' = [pc EXCEPT ![p] = point]

History == <<crashes, semErrors, orphans, lostPosts, dropped>>

-----------------------------------------------------------------------------
(* Locking.                                                                *)

\* Mutant of TryLock: the lock word is stored without the cmp_set.
TryLockByStore(p) ==
  /\ pc[p] = "idle"
  /\ lock' = p
  /\ Goto(p, "cs")
  /\ UNCHANGED <<wait, sem, semaphore, seen, History>>

\* ngx_shmtx_trylock(): one attempt, no waiting.
TryLock(p) ==
  /\ pc[p] = "idle"
  /\ lock = Free
  /\ lock' = p
  /\ Goto(p, "cs")
  /\ UNCHANGED <<wait, sem, semaphore, seen, History>>

\* ngx_shmtx_lock() is called.
Lock(p) ==
  /\ pc[p] = "idle"
  /\ Goto(p, "try")
  /\ UNCHANGED <<lock, wait, sem, semaphore, seen, History>>

\* The attempt at the head of the loop, or one of the spinning ones, succeeds.
Acquire(p) ==
  /\ pc[p] = "try"
  /\ lock = Free
  /\ lock' = p
  /\ Goto(p, "cs")
  /\ UNCHANGED <<wait, sem, semaphore, seen, History>>

\* All attempts failed.  Without a semaphore the process yields and stays at
\* the head of the loop.
GiveUpSpinning(p) ==
  /\ pc[p] = "try"
  /\ lock # Free
  /\ semaphore
  /\ Goto(p, "inc")
  /\ UNCHANGED <<lock, wait, sem, semaphore, seen, History>>

\* Mutant of AnnounceWait: no attempt between the announcement and sem_wait().
AnnounceAndSleep(p) ==
  /\ pc[p] = "inc"
  /\ wait' = wait + 1
  /\ Goto(p, "sleep")
  /\ UNCHANGED <<lock, sem, semaphore, seen, History>>

\* ngx_atomic_fetch_add(mtx->wait, 1)
AnnounceWait(p) ==
  /\ pc[p] = "inc"
  /\ wait' = wait + 1
  /\ Goto(p, "retry")
  /\ UNCHANGED <<lock, sem, semaphore, seen, History>>

\* The attempt made once the process is counted in wait.
Retry(p) ==
  /\ pc[p] = "retry"
  /\ IF lock = Free
     THEN lock' = p /\ Goto(p, "dec")
     ELSE Goto(p, "sleep") /\ UNCHANGED lock
  /\ UNCHANGED <<wait, sem, semaphore, seen, History>>

\* ngx_atomic_fetch_add(mtx->wait, -1), already as the owner.
TakeBackWait(p) ==
  /\ pc[p] = "dec"
  /\ wait' = wait - 1
  /\ Goto(p, "cs")
  /\ UNCHANGED <<lock, sem, semaphore, seen, History>>

\* sem_wait() returns 0; EINTR only repeats the call.
SemWait(p) ==
  /\ pc[p] = "sleep"
  /\ sem > 0
  /\ sem' = sem - 1
  /\ Goto(p, "try")
  /\ UNCHANGED <<lock, wait, semaphore, seen, History>>

\* sem_wait() fails with another error: the loop goes on without a wakeup,
\* and wait keeps the 1 this process added.
SemWaitError(p) ==
  /\ pc[p] = "sleep"
  /\ semErrors < MaxSemErrors
  /\ semErrors' = semErrors + 1
  /\ orphans' = orphans + 1
  /\ Goto(p, "try")
  /\ UNCHANGED <<lock, wait, sem, semaphore, seen, crashes, lostPosts, dropped>>

-----------------------------------------------------------------------------
(* Unlocking.                                                              *)

\* What the successful cmp_set(lock, pid, 0) of ngx_shmtx_unlock() and
\* ngx_shmtx_force_unlock() is followed by, in process p.
WakeupPoint == IF semaphore THEN "read" ELSE "idle"

\* Mutant of Unlock: the call of ngx_shmtx_wakeup() is missing.
UnlockNoWakeup(p) ==
  /\ pc[p] = "cs"
  /\ lock' = IF lock = p THEN Free ELSE lock
  /\ Goto(p, "idle")
  /\ UNCHANGED <<wait, sem, semaphore, seen, History>>

\* ngx_shmtx_unlock(): only the owner's cmp_set succeeds.
Unlock(p) ==
  /\ pc[p] = "cs"
  /\ IF lock = p
     THEN lock' = Free /\ Goto(p, WakeupPoint)
     ELSE UNCHANGED lock /\ Goto(p, "idle")
  /\ UNCHANGED <<wait, sem, semaphore, seen, History>>

\* Mutant of WakeupRead: without the cast to a signed number the test is true of
\* 0 alone, and a wait below 0 is taken for a large one.
WakeupReadUnsigned(p) ==
  /\ pc[p] = "read"
  /\ IF wait = 0
     THEN UNCHANGED seen /\ Goto(p, "idle")
     ELSE seen' = [seen EXCEPT ![p] = wait] /\ Goto(p, "cas")
  /\ UNCHANGED <<lock, wait, sem, semaphore, History>>

\* wait = *mtx->wait, and the return when it is not positive.
WakeupRead(p) ==
  /\ pc[p] = "read"
  /\ IF wait <= 0
     THEN UNCHANGED seen /\ Goto(p, "idle")
     ELSE seen' = [seen EXCEPT ![p] = wait] /\ Goto(p, "cas")
  /\ UNCHANGED <<lock, wait, sem, semaphore, History>>

\* Mutant of WakeupCas: wait is stored, whatever it has become meanwhile.
WakeupStore(p) ==
  /\ pc[p] = "cas"
  /\ wait' = seen[p] - 1
  /\ Goto(p, "post")
  /\ seen' = [seen EXCEPT ![p] = 0]
  /\ UNCHANGED <<lock, sem, semaphore, History>>

\* cmp_set(wait, seen, seen - 1): read again when wait has changed since.
WakeupCas(p) ==
  /\ pc[p] = "cas"
  /\ IF wait = seen[p]
     THEN wait' = seen[p] - 1 /\ Goto(p, "post")
     ELSE UNCHANGED wait /\ Goto(p, "read")
  /\ seen' = [seen EXCEPT ![p] = 0]
  /\ UNCHANGED <<lock, sem, semaphore, History>>

\* sem_post()
SemPost(p) ==
  /\ pc[p] = "post"
  /\ sem' = sem + 1
  /\ Goto(p, "idle")
  /\ UNCHANGED <<lock, wait, semaphore, seen, History>>

-----------------------------------------------------------------------------
(* Death of a worker.                                                      *)

\* A worker is killed wherever it is.
Crash(p) ==
  /\ crashes < MaxCrashes
  /\ pc[p] \notin {"dead", "reaped"}
  /\ crashes' = crashes + 1
  /\ orphans' = IF p \in Registered THEN orphans + 1 ELSE orphans
  /\ lostPosts' = IF p \in Posting THEN lostPosts + 1 ELSE lostPosts
  /\ dropped' = (dropped \/ pc[p] \in Carrying)
  /\ Goto(p, "dead")
  /\ seen' = [seen EXCEPT ![p] = 0]
  /\ UNCHANGED <<lock, wait, sem, semaphore, semErrors>>

\* Mutant of ForceUnlock: the word is freed whichever process it names.
ForceUnlockAny(p) ==
  /\ pc[Master] = "idle"
  /\ pc[p] = "dead"
  /\ IF lock # Free
     THEN lock' = Free /\ pc' = [pc EXCEPT ![p] = "reaped", ![Master] = WakeupPoint]
     ELSE UNCHANGED lock /\ Goto(p, "reaped")
  /\ UNCHANGED <<wait, sem, semaphore, seen, History>>

\* The master's SIGCHLD handler: waitpid(), then ngx_unlock_mutexes() calls
\* ngx_shmtx_force_unlock() with the pid of the dead process.
ForceUnlock(p) ==
  /\ pc[Master] = "idle"
  /\ pc[p] = "dead"
  /\ IF lock = p
     THEN lock' = Free /\ pc' = [pc EXCEPT ![p] = "reaped", ![Master] = WakeupPoint]
     ELSE UNCHANGED lock /\ Goto(p, "reaped")
  /\ UNCHANGED <<wait, sem, semaphore, seen, History>>

\* ngx_reap_children() starts a new process in the slot, after the handler.
Respawn(p) ==
  /\ pc[Master] = "idle"
  /\ pc[p] = "reaped"
  /\ Goto(p, "idle")
  /\ UNCHANGED <<lock, wait, sem, semaphore, seen, History>>

-----------------------------------------------------------------------------
Wakeup(p) == WakeupRead(p) \/ WakeupCas(p) \/ SemPost(p)

\* The steps of a call in progress, which the scheduler runs sooner or later.
LockStep(p) == \/ Acquire(p) \/ GiveUpSpinning(p) \/ AnnounceWait(p)
               \/ Retry(p) \/ TakeBackWait(p) \/ SemWait(p)

WorkerStep(p) == LockStep(p) \/ Unlock(p) \/ Wakeup(p)

MasterStep == Wakeup(Master) \/ \E p \in Workers : ForceUnlock(p) \/ Respawn(p)

Next ==
  \/ \E p \in Workers : TryLock(p) \/ Lock(p) \/ WorkerStep(p) \/ SemWaitError(p) \/ Crash(p)
  \/ MasterStep

Spec == Init /\ [][Next]_vars

\* Every process runs: a step that stays enabled is taken.  Nothing says which
\* of two sleepers a sem_post() wakes, or who wins a race for the lock.
Fairness == (\A p \in Workers : WF_vars(WorkerStep(p))) /\ WF_vars(MasterStep)

FairSpec == Spec /\ Fairness

-----------------------------------------------------------------------------
(* Properties.                                                             *)

\* At most one process is in the critical section, counting one that was
\* killed there and not reaped: whoever is inside owns the lock word.
MutualExclusion == \A p \in Holding : lock = p

\* The accounting of ngx_shmtx_lock() and ngx_shmtx_wakeup(): wait, the tokens
\* in the semaphore and the posts under way add up to the processes that
\* announced themselves.  wait alone is not that number, and may be negative,
\* when a process takes the lock while another one is waking it.
WaitAccounting ==
  wait + sem + Cardinality(Posting) + lostPosts = Cardinality(Registered) + orphans

\* Late posts pile up to no more than one token per worker and abandoned
\* increment, so sem_post() in ngx_shmtx_wakeup() cannot overflow.
SemBounded == sem + Cardinality(Posting) <= Cardinality(Workers) + orphans

\* A state in which processes sleep in sem_wait(), the lock is free, and no
\* call is under way that would wake one of them.
Stranded ==
  /\ \E p \in Workers : pc[p] = "sleep"
  /\ lock = Free
  /\ sem = 0
  /\ \A p \in Procs : pc[p] \in {"idle", "sleep", "dead", "reaped"}

\* ngx_shmtx_lock() counts itself in wait before its last attempt, so an unlock
\* never misses it: sleepers are stranded only when a worker was killed after
\* it was woken or had unlocked, and before it passed the wakeup on.
NoLostWakeup == Stranded => dropped

\* When processes wait in ngx_shmtx_lock(), one of them gets the lock, unless
\* they are all killed or one is killed while it carries a wakeup.
Waiters == {p \in Workers : pc[p] \in {"try", "inc", "retry", "sleep"}}

LockProgress ==
  (Waiters # {}) ~> (dropped \/ Waiters = {} \/ \E p \in Workers : pc[p] = "cs")

\* The ways the lock word may change, with the step of process p (and of no
\* process outside ps) that changes it, and who is inside before and after.
OnlyMove(ps) == \A q \in Procs \ ps : pc'[q] = pc[q]

Takes(p) ==
  /\ lock = Free /\ lock' = p
  /\ Holding = {} /\ Holding' = {p}
  /\ OnlyMove({p})

Gives(p) ==
  /\ lock = p /\ lock' = Free
  /\ Holding = {p} /\ Holding' = {}
  /\ OnlyMove({p})

TakenFromDead(p) ==
  /\ lock = p /\ lock' = Free
  /\ pc[p] = "dead" /\ pc'[p] = "reaped"
  /\ Holding = {} /\ Holding' = {}
  /\ OnlyMove({p, Master})

\* The lock cannot be stolen.  It passes to a worker only while nobody is
\* inside, and by that worker's own step; it is freed by a step of the process
\* inside, or by the master for the dead process the word names, when nobody is
\* inside (the cmp_set of ngx_shmtx_unlock() and ngx_shmtx_force_unlock()).
OwnerFrees ==
  [][lock' # lock => \E p \in Workers : Takes(p) \/ Gives(p) \/ TakenFromDead(p)]_vars
=============================================================================
