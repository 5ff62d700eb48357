# A TLA+ model of nginx 1.12.2

These modules model the parts of nginx where processes, threads, signals and
events meet: the locks in shared memory, the allocator they protect, the thread
pool, the master and its children, the event loop with its accept mutex, the
connection table, and the timers. TLC checks each of them on small instances;
TLAPS proves the two locks correct for any number of workers.

Paths below are relative to `src/nginx-1.12.2/src/`.

## 1. The system and its parts

| Part | State | Operations | What is hard about it |
|---|---|---|---|
| Shared memory mutex, `core/ngx_shmtx.c` | lock word, `wait`, a semaphore | trylock, lock, unlock, wakeup, force unlock | sleeping against a concurrent unlock; death of a worker at any instruction |
| Read-write lock, `core/ngx_rwlock.c` | one word | rlock, wlock, unlock | read, test and swap are separate; a writer leaves with a plain store |
| Slab allocator, `core/ngx_slab.c` | pages, slots, bitmaps | alloc, free | the same words mean different things for each kind of page; joining of blocks |
| Thread pool, `core/ngx_thread_pool.c` | queue, done list, `waiting` | post, cycle of a thread, completion handler, destroy | two lists through one `next` field; an edge-triggered notification |
| Master, `os/unix/ngx_process_cycle.c`, `ngx_process.c` | process table, flags, channels | signals, spawn, reap, reload, upgrade, exit | flags combine in any order; children die meanwhile; fork fails |
| Event loop, `event/ngx_event.c`, `ngx_event_accept.c` | accept mutex, posted events, `ngx_accept_disabled` | a turn of the loop, accept, quit | workers share sockets; EMFILE in the middle of a turn |
| Connections, `core/ngx_connection.c`, `event/modules/ngx_epoll_module.c` | table, free list, reusable queue, instance bit | get, close, drain, a batch of events | entries reused while their old events are still in the batch |
| Timers, `event/ngx_event_timer.c` | tree of deadlines | add, delete, find, expire | the clock wraps around; timers are updated lazily |
| Event pipe, resolver, open file cache, cycle | – | – | not modelled yet, see section 8 |
| HTTP requests, upstream, file cache, HTTP/2, limits | – | – | not modelled yet, see section 8 |
| Stream and mail proxies | – | – | not modelled yet, see section 8 |
| Strings, digests, parsers, configuration, wrappers of system calls | – | – | pure functions or plain I/O, left out |

How they interact: the master forks workers and tells them over channels what to
do; when one dies it reaps it, opens the mutexes it held (`ngx_unlock_mutexes`)
and starts another. Workers run the event loop, take turns at the accept mutex
(a shmtx that is only tried), take entries of their connection table for what
they accept, and set timers. Shared zones are slab pools protected by a shmtx;
upstream peers are protected by the read-write lock. A worker hands blocking work
to its thread pool and gets it back through an event.

`PROJECT.json` lists all parts with their sources, the hazards with their lines,
and for each definition the lines it stands for.

## 2. Modules

| Module | Models | State | Actions |
|---|---|---|---|
| `Shmtx` | the mutex | `lock`, `wait`, `sem` as in `ngx_shmtx_t`; `pc` and the local `wait` (`seen`) of each process | one per access to shared memory or semaphore call: `TryLock`, `Lock`, `Acquire`, `GiveUpSpinning`, `AnnounceWait`, `Retry`, `TakeBackWait`, `SemWait`, `SemWaitError`, `Unlock`, `WakeupRead`, `WakeupCas`, `SemPost`, `Crash`, `ForceUnlock`, `Respawn` |
| `Rwlock` | the read-write lock | the word, `pc`, the local copy | one per access of the word |
| `Slab` | the allocator | one record `pool` with the page descriptors as nodes of linked lists; `given`, what callers have | `Alloc` (`AllocPages`, `AllocChunk`, `AllocPage`) and `Free` (`FreeBlock`, `FreeChunk`) |
| `Allocator` | what callers may expect of it: pieces inside the pool that do not overlap | `live` | allocate, free |
| `ThreadPool` | the pool and its notification | `first`, `last`, `next`, `done`, `waiting`, `active`, threads, event loop | one per critical section: `Post`, `Enter`, `Recheck`, `Run`, `AppendDone`, `Notify`, `TakeDone`, `RunCompletion`, `PostExit`, … |
| `TaskPool` | what it promises: a task is taken once, in order, and completed once, in order | two queues and a set | – |
| `ProcessCycle` | the master | `ngx_processes[]` with all its bits, the `ngx_*` flags, `live`, the termination delay, channels, the children | one per test of the loop of `ngx_master_process_cycle()`, per slot of `ngx_reap_children()` and per child started |
| `Accept` | who accepts | per worker: `held`, `disabled`, registered sockets, posted accept events, free and reusable connections | one per step of a turn, per result of `accept()`, and per place where enabling or disabling the accept events fails half way |
| `Connections` | the table | free list, reusable queue, instance bits, the queues of posted accept events and of other posted events, timers, the batch | `Poll`, `ReadSide`, `WriteSide`, `RunAccept`, `ExpireTimer`, `RunPosted`, and what handlers do: get, close, register, post, set timers, mark reusable |
| `Timers` | timers | keys modulo the width of the clock, next to the deadlines they stand for | `AddTimer`, `DelTimer`, `Wait`, `Expire`, … |
| `ShmtxProofs`, `RwlockProofs` | theorems about the two locks | | |
| `MC*` | instances for TLC | | |

Choices that hold throughout:

- A step is what the code does without anybody being able to look: one atomic
  access in the locks, one critical section in the thread pool, one call under
  the pool's mutex in the slab, one test of the master's loop (signals are
  blocked except in `sigsuspend()`), one event or one result of a system call in
  the event loop.
- Variables marked *history* in a module are not in the code: they count deaths
  and abandoned increments (`Shmtx`), number the connections of an entry
  (`Connections`), keep the clock without the wrap and remember who asked for a delay of zero since
  it last moved (`Timers`), or keep what
  callers were given (`Slab`). No operation of the code depends on
  them; bounds do, and callers of the slab free only what they were given.
- Definitions marked *Mutant of X* are variants of X with a plausible mistake.
  No specification uses them; each shows that some property notices the mistake.

## 3. Runs

Each run is `tlc -config <cfg> <module>`.

| Run | Instance | What it shows |
|---|---|---|
| `shmtx` | 3 workers and the master, 2 deaths, 1 failed `sem_wait()`, with and without a semaphore | `MutualExclusion`; `WaitAccounting`: `wait`, the tokens in the semaphore and the posts under way add up to the processes that announced themselves; `NoLostWakeup`: the protocol strands no sleeper, only a death at the wrong place does; `LockProgress`: waiting makes somebody get the lock; `OwnerFrees`: the word changes only when a worker takes a free lock, when the owner of the lock leaves it, or when the master takes it from a worker that died with it, and no other process moves in that step |
| `rwlock` | 4 workers | `Exclusive`, `Counted`, `SomeoneGetsIt` |
| `slab` | a pool of 2 pages with chunks of all three kinds, and one of 5 pages with blocks of 1 to 3 pages; pages of 16 bytes | `Refines` the allocator; `Marked`: bitmaps are what callers have; `FreeBlocks`: the free list is consistent and never has two blocks side by side; `SlotLists`: a page is on its list exactly if it has a free chunk; `NoLeak`: freeing everything gives one block again |
| `threadpool` | 2 threads, 3 tasks, `max_queue` 1, the eventfd read at every other event, 1 failing signal | `Refines` the two queues; `WaitingCount`: what the possibly negative `waiting` counts; `DestroySafe`, `DestroyEnds`, `Completes` |
| `process_master` | seven environments: reloads with a crash; a shutdown; an upgrade; a reload beside the new binary; failing forks and a small table; children that ignore commands; children that die | `ChildrenTracked`, `NoOrphans`, `ServiceKept`, `OldGenerationTold`, `StopExits`, `QuitExits` |
| `process_orphans` | an upgrade that is undone | violation, section 5 |
| `process_reload_lost` | a respawn that fails, then a reload | violation, section 5 |
| `accept` | 2 workers, a shared and a reuseport socket, with and without `accept_mutex`, 2 connections per worker, 3 clients, 1 EMFILE, 1 failed change of the accept events (enabling or disabling), 1 quitting worker | `LockReleased`, `OnePoller`, `AcceptProgress` |
| `connections` | 3 entries, 3 connections made, 6 operations in handlers, 3 batches | `FreeList`, `NothingLeftBehind`, `EventCurrent` |
| `timers` | 3 timers of 0 to 4 ms, a clock of 14 values that wraps twice | `NearestFirst`, `NoneMissed`, `LazyBounded`, `NotEarly` |

Why the bounds are enough for the interesting cases:

- `shmtx`: the double decrement of `wait` needs an owner that is waking and a
  process that retries; a third worker is needed to be stranded by it, and two
  deaths to lose a wakeup and an increment in one execution.
- `rwlock`: two readers that leave at once, one that enters and a writer.
- `slab`: with five pages a freed block can have free neighbours on both sides
  and something in use behind them; in two pages each kind of chunk can fill its
  page and force another kind out.
- `threadpool`: three tasks make a list with an inner element, of which one can
  be posted again by its completion handler while the others are on the list.
- `process_master`: each environment turns on one group of signals and faults.
  Two
  combinations are kept out of it because they violate a property, and have a run of
  their own: `SIGWINCH` and `SIGHUP` in one upgrade (`process_orphans`), and a failed
  respawn followed by two more deaths and a reload (`process_reload_lost`). So
  `NoOrphans` and `OldGenerationTold` hold in these environments, not in general.
- `accept`: two connections per worker with a reserve of one reach every sign of
  `ngx_accept_disabled`; three clients fill one worker and leave one waiting.
- `connections`: two entries besides the listening one and three connections, so
  one entry is used twice and another one is closed meanwhile.
- `timers`: deadlines lie before and after the wrap at the same time, and the
  whole cycle is passed twice. `2 * (MaxDelay + MaxLate) < Modulus` is the
  assumption of `ngx_rbtree_insert_timer_value()` that values are spread in a
  small range.

Runs with counters that come to an end (`process_*`, `accept`, `connections`,
`timers`) do not check for deadlock: the master exits, or the last client, batch
or tick is used up. The others check it.

## 4. Fairness

- `Shmtx`, `Rwlock`, `ThreadPool`: weak fairness of each process or thread that is
  inside a call, and of the event loop: the scheduler runs what is runnable.
  Nothing is assumed of who wins a race or whom a post wakes, hence
  `LockProgress` and `SomeoneGetsIt` say that somebody gets the lock, not that
  everybody does: the code does not promise that. No process has to *ask* for a
  lock.
- `ProcessCycle`: the master runs and its interval timer rings. Children obey
  only in environments marked obedient; `StopExits` holds without that, because
  `SIGKILL` follows.
- `Accept`: each worker runs. Strong fairness is assumed of getting the mutex,
  which is tried at least every `accept_mutex_delay` at unrelated moments, and of
  the expiry of a timer that is set.
- `Slab`, `Connections`, `Timers`: no liveness is stated.

## 5. Where the code differs from what is said of it

Two runs end in a counterexample, each against a sentence of the manual page.

- `process_orphans`. After `SIGUSR2` and `SIGWINCH` the old workers are gone and
  `live` is 0. `SIGHUP` starts workers again (`ngx_process_cycle.c:223`) and
  continues without setting `live`. The next `SIGTERM` finds `!live` and exits
  the master at once: the workers were not told and keep running, while
  `man/nginx.8:111` says the signal shuts down.
- `process_reload_lost`. When `fork()` fails in a respawn, `ngx_close_channel()`
  leaves the numbers of the closed descriptors in the slot. The next
  `ngx_reap_children()` closes them once more, which by then may be the channel of
  another worker. A later reload writes to the wrong channel and one old worker is
  not told to quit, against `man/nginx.8:113`.

Things met while modelling that the properties take as they are:

- `wait` of a shmtx is not the number of sleepers, as the comment at
  `core/ngx_shmtx.c:128` has it: it can be −1. `WaitAccounting` says what it is;
  the signed comparison in `ngx_shmtx_wakeup()` makes it harmless.
- The instance bit tells an entry from its next use, not from the one after:
  with `multi_accept` and a full table an entry can be reused twice in one batch.
  `EventCurrent` is stated for the next use.
- When memory runs out, the pid file cannot be renamed or the fork for the new
  binary fails, `ngx_new_binary` is left at −1, which later tests take for a running binary. (A
  failed `execve()` happens in the child, which exits and is reaped as usual.)
- A timer with a delay of zero that is set after the clock was read is due at
  once, yet fires only after the clock has moved (`ngx_event.c:253`).
  `NoneMissed` allows a timer to be due in a turn that is over only in this case,
  and only until the clock moves.
- A master none of whose forks succeeded keeps `live` at 1 and does not exit on
  `SIGQUIT`; `StopExits` and `QuitExits` are stated for executions without failed
  forks.
- After EMFILE a worker with no other connection may sleep with no accept event
  registered until something else wakes it; `AcceptProgress` names that state
  (`Stranded`). When disabling the accept events fails half way,
  `ngx_accept_mutex_held` stays set (`ngx_event_accept.c:114`, `669`): the worker
  takes itself to be listening on all sockets and does not register the missing
  one again until it has once found the mutex taken. A worker that is in this
  state for good is `Misled`; the property says that the backlog of a shared
  socket is emptied again and again, or all workers end up exiting or stranded,
  or one stays misled. A reuseport socket disabled by EMFILE comes back only when its
  worker gets the accept mutex, so the property is about shared sockets.

## 6. Proofs

`tlapm ShmtxProofs.tla` and `tlapm RwlockProofs.tla` check them. They hold for
any finite set of workers and any bounds on deaths and errors; the assumptions are
`WorkersFinite`, `NamesDistinct` and `BoundsNat`, which say only that the constants
are what they are named.

**Mutex.** `Invariance` proves the inductive invariant `IInv`. Its parts beyond the
properties themselves, and why they are needed:

- `MasterInv`: the master is only ever idle or in a wakeup, so it never owns the
  lock and `ForceUnlock` cannot meet itself.
- `OwnerInv`: an owner is in its critical section, about to take its 1 back, or
  dead. Without it a lock word could be left set by somebody who goes on, and
  `MutualExclusion` would not survive `ForceUnlock`.
- `SemaphoreInv`: without a semaphore nobody is in the part of the code that uses
  one.
- `SeenInv`: a process about to compare-and-set saw a positive `wait`. With
  `WaitAccounting` it bounds the semaphore: a token is posted only for an increment.
- `PendingInv`: while somebody sleeps and no wakeup was dropped, there is a token, an
  owner, or a process that carries a wakeup. This is the heart of `NoLostWakeup`,
  which alone is not inductive: it speaks of states where nobody is under way,
  and must be strengthened to say who is under way in all others.

From it follow `TypeCorrect`, `Exclusion`, `Accounting`, `SemaphoreBound` (the
semaphore never holds more than one token per worker and abandoned increment),
`WakeupsKept`, and `FreedByOwner`, which proves the action property `OwnerFrees`:
`OwnerInv` says who may own the word, the lemma `InsideAlone` that nobody else is
where the word is given back, and so a step that changes the word is a worker
taking it, its owner leaving, or the master after the owner's death. The counting lemmas `CardStep` and
`Moves` say how the sets of registered and posting processes change when one
process moves; `CountStep` and `PendingStep` use them action by action.

**Read-write lock.** `IInv` is `TypeOK /\ Exclusive /\ Counted`; it is inductive
because a swap that succeeds proves the word unchanged, and `Counted` turns the word
into knowledge of who is inside. `WriterAlone` and `WordCounts` follow. Most actions
leave word and holders alone and share the lemma `QuietStep`.

Only model-checked: liveness everywhere; everything about the slab, the thread
pool (its refinement included), the master, accepting, connections and timers.

## 7. What is left out of the modelled parts

- `Shmtx`: the build without atomic operations (`fcntl()` locks); spinning is a
  choice between trying again and going to the semaphore.
- `Slab`: the refusals of `ngx_slab_free_locked()`, since callers free what they
  were given; counters of requests and failures, `ngx_slab_calloc()`, and the alerts on
  frees of what was never given.
- `ThreadPool`: errors of `pthread_mutex_lock()`, `pthread_mutex_unlock()` and
  `pthread_cond_wait()` in a thread, which then returns and is gone
  (`ngx_thread_pool.c:307-332`), and a failed write to the eventfd, which is only
  logged (`ngx_epoll_module.c:771-775`). `Completes` and `DestroyEnds` rest on
  this: with no thread left nothing is taken from the queue, and a lost write
  leaves finished tasks until the next notification. Configuration; destruction when the exit task is refused ends in a
  state of its own, as in the code.
- `ProcessCycle`: channels between workers and their copies of the table; the single
  process mode; what workers do besides obeying.
- `Accept`: UDP; the reusable queue is a number here and a queue in `Connections`.
- `Connections`: aio, listening sockets opened or inherited.
- `Timers`: rotations of the red-black tree (its order is what is used);
  `timer_resolution`, with which a wait is ended by a signal and not by the
  nearest timer (`ngx_event.c:199-201`); a wall clock that is set back
  (`ngx_current_msec` comes from `gettimeofday()`, `ngx_times.c:114`). The clock
  of the model only moves forward.

## 8. Plan

In this order:

1. Upstream peers (`http/ngx_http_upstream_round_robin.c`) composed with `Rwlock`:
   weights, failures, retries, and the cache of idle connections.
2. HTTP requests: the count of a request, subrequests and the postpone filter,
   keepalive, lingering close, timeouts; an abstract specification in which a
   request is freed once, after its last user.
3. The file cache with its nodes shared by workers, composed with `Shmtx`.
4. HTTP/2 windows and streams; the event pipe; the resolver.
5. Channels between workers; `ngx_init_cycle()` and its rollback; the open file cache.
6. Stream and mail sessions; the limit modules.
7. `ngx_rbtree.c` as an algorithm checked against the sequence of `Timers`.

Proofs to come: the refinement of `TaskPool` by `ThreadPool`, `FreeList` and
`NothingLeftBehind` of `Connections`, `LockReleased` of `Accept`, and
`ChildrenTracked` of `ProcessCycle` for any environment.
