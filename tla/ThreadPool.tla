----------------------------- MODULE ThreadPool -----------------------------
(***************************************************************************)
(* core/ngx_thread_pool.c with the eventfd notification of                 *)
(* event/modules/ngx_epoll_module.c.  The event loop of a worker posts     *)
(* tasks; pool threads take them from a queue under a mutex, run them, put *)
(* them on the list of done tasks and notify the event loop, which then    *)
(* calls their completion handlers.                                        *)
(*                                                                         *)
(* Both lists are the code's: singly linked through task->next, with the   *)
(* address of the last link kept beside the first task.  Everything a      *)
(* thread does between locking and unlocking one mutex or spinlock is one  *)
(* step, because it touches nothing that is accessed without it.           *)
(***************************************************************************)
EXTENDS Integers, Sequences, FiniteSets

CONSTANTS
  Threads,      \* the threads of the pool
  Tasks,        \* the tasks a worker uses
  ExitTask,     \* the task on the stack of ngx_thread_pool_destroy()
  Null,         \* NULL
  First,        \* the address of the list's own "first" field
  MaxQueue,     \* tp->max_queue
  MaxIndex,     \* NGX_MAX_UINT32_VALUE in ngx_epoll_notify_handler()
  MaxSignalErrors  \* bound: how many ngx_thread_cond_signal() calls fail

ASSUME TasksFinite == IsFiniteSet(Tasks) /\ IsFiniteSet(Threads)
ASSUME TaskNames == /\ ExitTask \notin Tasks
                    /\ Null \notin Tasks \cup {ExitTask}
                    /\ First \notin Tasks \cup {ExitTask}
ASSUME PoolBounds == MaxQueue \in Nat /\ MaxIndex \in Nat \ {0} /\ MaxSignalErrors \in Nat

AllTasks == Tasks \cup {ExitTask}

VARIABLES
  first, last,   \* tp->queue
  next,          \* task->next
  waiting,       \* tp->waiting
  active,        \* task->event.active
  done,          \* ngx_thread_pool_done, as [first, last]
  notified,      \* the eventfd was written and epoll has not reported it
  index,         \* notify_event.index
  tpc, task,     \* where each thread is, and its local "task"
  mpc, cur,      \* where the event loop is, and the local "task" of the handler
  exits, lock,   \* n and lock of ngx_thread_pool_destroy()
  stuck          \* history: tasks left active by a failed ngx_thread_cond_signal()

queueVars == <<first, last, waiting>>
loopVars == <<notified, index, mpc, cur, exits, lock>>
vars == <<first, last, next, waiting, active, done, notified, index,
          tpc, task, mpc, cur, exits, lock, stuck>>

ThreadPoints == {"enter", "cond", "woken", "run", "append", "notify", "exited"}
LoopPoints == {"loop", "notify", "take", "drain", "handler", "destroy", "spin", "destroyed", "failed"}

TypeOK ==
  /\ first \in AllTasks \cup {Null}
  /\ last \in AllTasks \cup {First}
  /\ next \in [AllTasks -> AllTasks \cup {Null}]
  /\ waiting \in Int
  /\ active \in [AllTasks -> BOOLEAN]
  /\ done \in [first : AllTasks \cup {Null}, last : AllTasks \cup {First}]
  /\ notified \in BOOLEAN
  /\ index \in 0..(MaxIndex - 1)
  /\ tpc \in [Threads -> ThreadPoints]
  /\ task \in [Threads -> AllTasks \cup {Null}]
  /\ mpc \in LoopPoints
  /\ cur \in AllTasks \cup {Null}
  /\ exits \in 0..Cardinality(Threads)
  /\ lock \in BOOLEAN
  /\ stuck \in SUBSET AllTasks

\* ngx_thread_pool_init_worker() and ngx_thread_pool_init()
Init ==
  /\ first = Null /\ last = First
  /\ next = [k \in AllTasks |-> Null]
  /\ waiting = 0
  /\ active = [k \in AllTasks |-> FALSE]
  /\ done = [first |-> Null, last |-> First]
  /\ notified = FALSE
  /\ index = 0
  /\ tpc = [t \in Threads |-> "enter"]
  /\ task = [t \in Threads |-> Null]
  /\ mpc = "loop"
  /\ cur = Null
  /\ exits = 0
  /\ lock = FALSE
  /\ stuck = {}

-----------------------------------------------------------------------------
(* Posting.                                                                *)

\* Mutant of CondSignal: nobody is woken.
CondSignalNone == UNCHANGED tpc

\* pthread_cond_signal(): one of the waiting threads, if there is one.
CondSignal ==
  \/ /\ \A t \in Threads : tpc[t] # "cond"
     /\ UNCHANGED tpc
  \/ \E t \in Threads : tpc[t] = "cond" /\ tpc' = [tpc EXCEPT ![t] = "woken"]

\* *tp->queue.last = task; tp->queue.last = &task->next; with task->next = NULL.
Enqueue(k) ==
  /\ first' = IF last = First THEN k ELSE first
  /\ next' = IF last = First THEN [next EXCEPT ![k] = Null]
                             ELSE [next EXCEPT ![k] = Null, ![last] = k]
  /\ last' = k

\* ngx_thread_task_post() accepts the task: not active, and waiting < max_queue.
Accepted(k) == ~active[k] /\ waiting < MaxQueue

TaskPost(k) ==
  /\ Accepted(k)
  /\ active' = [active EXCEPT ![k] = TRUE]
  /\ CondSignal
  /\ Enqueue(k)
  /\ waiting' = waiting + 1

\* Handlers run by the event loop, completion handlers included, post tasks.
Post(k) ==
  /\ mpc \in {"loop", "handler"}
  /\ TaskPost(k)
  /\ UNCHANGED <<done, task, loopVars, stuck>>

\* ngx_thread_cond_signal() fails: the task stays active and is not queued.
PostSignalFails(k) ==
  /\ mpc \in {"loop", "handler"}
  /\ Accepted(k)
  /\ Cardinality(stuck) < MaxSignalErrors
  /\ active' = [active EXCEPT ![k] = TRUE]
  /\ next' = [next EXCEPT ![k] = Null]
  /\ stuck' = stuck \cup {k}
  /\ UNCHANGED <<queueVars, done, tpc, task, loopVars>>

-----------------------------------------------------------------------------
(* ngx_thread_pool_cycle().                                                *)

\* Mutant of Dequeue: queue.last is not reset when the queue becomes empty.
DequeueKeepLast(t) ==
  /\ task' = [task EXCEPT ![t] = first]
  /\ first' = next[first]
  /\ last' = last
  /\ tpc' = [tpc EXCEPT ![t] = "run"]

\* task = tp->queue.first, and the queue without it.
Dequeue(t) ==
  /\ task' = [task EXCEPT ![t] = first]
  /\ first' = next[first]
  /\ last' = IF next[first] = Null THEN First ELSE last
  /\ tpc' = [tpc EXCEPT ![t] = "run"]

\* Mutant of Enter: a thread that has to wait is not counted in waiting.
EnterLateDecrement(t) ==
  /\ tpc[t] = "enter"
  /\ IF first = Null
     THEN tpc' = [tpc EXCEPT ![t] = "cond"] /\ UNCHANGED <<first, last, task, waiting>>
     ELSE Dequeue(t) /\ waiting' = waiting - 1
  /\ UNCHANGED <<next, active, done, loopVars, stuck>>

\* The head of the loop: "waiting--" before looking at the queue.
\* The mutex and the condition are taken to work: when a call fails, the thread
\* of the code returns and is gone, which is left out here and in Recheck.
Enter(t) ==
  /\ tpc[t] = "enter"
  /\ waiting' = waiting - 1
  /\ IF first = Null
     THEN tpc' = [tpc EXCEPT ![t] = "cond"] /\ UNCHANGED <<first, last, task>>
     ELSE Dequeue(t)
  /\ UNCHANGED <<next, active, done, loopVars, stuck>>

\* pthread_cond_wait() returned: the while loop looks at the queue again.
Recheck(t) ==
  /\ tpc[t] = "woken"
  /\ IF first = Null
     THEN tpc' = [tpc EXCEPT ![t] = "cond"] /\ UNCHANGED <<first, last, task>>
     ELSE Dequeue(t)
  /\ UNCHANGED <<next, waiting, active, done, loopVars, stuck>>

\* pthread_cond_wait() may return without a signal.
SpuriousWakeup(t) ==
  /\ tpc[t] = "cond"
  /\ tpc' = [tpc EXCEPT ![t] = "woken"]
  /\ UNCHANGED <<queueVars, next, active, done, task, loopVars, stuck>>

\* task->handler() returned, then task->next = NULL.
Run(t) ==
  /\ tpc[t] = "run"
  /\ task[t] # ExitTask
  /\ next' = [next EXCEPT ![task[t]] = Null]
  /\ tpc' = [tpc EXCEPT ![t] = "append"]
  /\ UNCHANGED <<queueVars, active, done, task, loopVars, stuck>>

\* Mutant of RunExit: the thread that destroys the pool is not released.
RunExitSilently(t) ==
  /\ tpc[t] = "run"
  /\ task[t] = ExitTask
  /\ tpc' = [tpc EXCEPT ![t] = "exited"]
  /\ UNCHANGED <<queueVars, next, active, done, task, loopVars, stuck>>

\* ngx_thread_pool_exit_handler() does not return.
RunExit(t) ==
  /\ tpc[t] = "run"
  /\ task[t] = ExitTask
  /\ lock' = FALSE
  /\ tpc' = [tpc EXCEPT ![t] = "exited"]
  /\ UNCHANGED <<queueVars, next, active, done, task, notified, index, mpc, cur, exits, stuck>>

\* The task is put on ngx_thread_pool_done, under its spinlock.
AppendDone(t) ==
  /\ tpc[t] = "append"
  /\ done' = [first |-> IF done.last = First THEN task[t] ELSE done.first, last |-> task[t]]
  /\ next' = IF done.last = First THEN next ELSE [next EXCEPT ![done.last] = task[t]]
  /\ tpc' = [tpc EXCEPT ![t] = "notify"]
  /\ UNCHANGED <<queueVars, active, task, loopVars, stuck>>

\* ngx_epoll_notify(): write to the eventfd.
\* The write to the eventfd adds to its counter and is taken to succeed; the
\* code only logs a failure, and the tasks wait for the next notification.
Notify(t) ==
  /\ tpc[t] = "notify"
  /\ notified' = TRUE
  /\ task' = [task EXCEPT ![t] = Null]
  /\ tpc' = [tpc EXCEPT ![t] = "enter"]
  /\ UNCHANGED <<queueVars, next, active, done, index, mpc, cur, exits, lock, stuck>>

-----------------------------------------------------------------------------
(* The event loop.                                                         *)

\* epoll_wait() reports the edge of the eventfd; several writes are one event.
EpollWait ==
  /\ mpc = "loop"
  /\ notified
  /\ notified' = FALSE
  /\ mpc' = "notify"
  /\ UNCHANGED <<queueVars, next, active, done, index, tpc, task, cur, exits, lock, stuck>>

\* Mutant of NotifyHandler: the index of the event is not reset.
NotifyHandlerNoReset ==
  /\ mpc = "notify"
  /\ index' = index + 1
  /\ notified' = (notified /\ index + 1 # MaxIndex)
  /\ mpc' = "take"
  /\ UNCHANGED <<queueVars, next, active, done, tpc, task, cur, exits, lock, stuck>>

\* ngx_epoll_notify_handler(): the eventfd is read only once in MaxIndex calls,
\* and what was written meanwhile is then no longer reported.
NotifyHandler ==
  /\ mpc = "notify"
  /\ index' = (index + 1) % MaxIndex
  /\ notified' = (notified /\ index + 1 # MaxIndex)
  /\ mpc' = "take"
  /\ UNCHANGED <<queueVars, next, active, done, tpc, task, cur, exits, lock, stuck>>

\* ngx_thread_pool_handler() takes the whole list of done tasks.
TakeDone ==
  /\ mpc = "take"
  /\ cur' = done.first
  /\ done' = [first |-> Null, last |-> First]
  /\ mpc' = IF done.first = Null THEN "loop" ELSE "drain"
  /\ UNCHANGED <<queueVars, next, active, notified, index, tpc, task, exits, lock, stuck>>

\* One turn of its loop: the next task is read before the completion handler
\* is called, because the handler may post the task again.
RunCompletion ==
  /\ mpc = "drain"
  /\ active' = [active EXCEPT ![cur] = FALSE]
  /\ cur' = next[cur]
  /\ mpc' = "handler"
  /\ UNCHANGED <<queueVars, next, done, notified, index, tpc, task, exits, lock, stuck>>

HandlerReturns ==
  /\ mpc = "handler"
  /\ mpc' = IF cur = Null THEN "loop" ELSE "drain"
  /\ UNCHANGED <<queueVars, next, active, done, notified, index, tpc, task, cur, exits, lock, stuck>>

-----------------------------------------------------------------------------
(* ngx_thread_pool_destroy(), when the worker exits.                       *)

Destroy ==
  /\ mpc = "loop"
  /\ mpc' = "destroy"
  /\ UNCHANGED <<queueVars, next, active, done, notified, index, tpc, task, cur, exits, lock, stuck>>

\* lock = 1, then the exit task is posted; when it is refused, the function
\* returns with the threads still there.
PostExit ==
  /\ mpc = "destroy"
  /\ exits < Cardinality(Threads)
  /\ IF Accepted(ExitTask)
     THEN TaskPost(ExitTask) /\ mpc' = "spin"
     ELSE mpc' = "failed" /\ UNCHANGED <<queueVars, next, active, tpc>>
  /\ lock' = TRUE
  /\ UNCHANGED <<done, notified, index, task, cur, exits, stuck>>

\* Mutant of ExitSeen: one thread is not waited for.
ExitSeenEarly ==
  /\ mpc = "spin"
  /\ ~lock
  /\ active' = [active EXCEPT ![ExitTask] = FALSE]
  /\ exits' = exits + 1
  /\ mpc' = IF exits' >= Cardinality(Threads) - 1 THEN "destroyed" ELSE "destroy"
  /\ UNCHANGED <<queueVars, next, done, notified, index, tpc, task, cur, lock, stuck>>

\* while (lock) ngx_sched_yield(); task.event.active = 0;
ExitSeen ==
  /\ mpc = "spin"
  /\ ~lock
  /\ active' = [active EXCEPT ![ExitTask] = FALSE]
  /\ exits' = exits + 1
  /\ mpc' = IF exits' = Cardinality(Threads) THEN "destroyed" ELSE "destroy"
  /\ UNCHANGED <<queueVars, next, done, notified, index, tpc, task, cur, lock, stuck>>

\* The worker process exits.
Exited == mpc \in {"destroyed", "failed"} /\ UNCHANGED vars

-----------------------------------------------------------------------------
ThreadStep(t) == Enter(t) \/ Recheck(t) \/ Run(t) \/ RunExit(t) \/ AppendDone(t) \/ Notify(t)

LoopStep == EpollWait \/ NotifyHandler \/ TakeDone \/ RunCompletion \/ HandlerReturns
            \/ PostExit \/ ExitSeen

Next ==
  \/ \E k \in Tasks : Post(k) \/ PostSignalFails(k)
  \/ \E t \in Threads : ThreadStep(t) \/ SpuriousWakeup(t)
  \/ LoopStep \/ Destroy \/ Exited

Spec == Init /\ [][Next]_vars

\* Threads are scheduled, and the event loop comes back to epoll_wait().
FairSpec == Spec /\ WF_vars(LoopStep) /\ \A t \in Threads : WF_vars(ThreadStep(t))

-----------------------------------------------------------------------------
(* Properties.                                                             *)

\* The list that starts at p: follow task->next, at most once per task.
Follow(p) ==
  LET n == Cardinality(AllTasks)
      hop[i \in 0..n] == IF i = 0 THEN p ELSE IF hop[i-1] = Null THEN Null ELSE next[hop[i-1]]
  IN  [i \in 1..Cardinality({j \in 0..n : hop[j] # Null}) |-> hop[i-1]]

Members(s) == {s[i] : i \in DOMAIN s}

Queue == Follow(first)
Batch == Follow(cur)
DoneList == Follow(done.first)
Running == {task[t] : t \in {u \in Threads : tpc[u] \in {"run", "append"}}} \cap Tasks

\* The linked lists implement the queues of TaskPool: a posted task is taken
\* once, in order, and completed once, in order; no relinking of task->next,
\* by a thread or by a completion handler that posts again, loses or repeats one.
Abstract == INSTANCE TaskPool WITH
              queue <- SelectSeq(Queue, LAMBDA k : k # ExitTask),
              running <- Running,
              done <- Batch \o DoneList

Refines == Abstract!Spec

\* "the number may become negative": waiting is the length of the queue minus
\* the threads that wait for a task.
WaitingCount ==
  waiting = Len(Queue) - Cardinality({t \in Threads : tpc[t] \in {"cond", "woken"}})

\* The mutex and the condition variable are destroyed only after every thread
\* has left them for good, and with nothing queued.
DestroySafe ==
  mpc = "destroyed" => Queue = <<>> /\ \A t \in Threads : tpc[t] = "exited"

\* The completion handler of every posted task is called, while the worker
\* keeps running its event loop.
Leaving == mpc \in {"destroy", "spin", "destroyed", "failed"}

Completes == \A k \in Tasks : (active[k] /\ k \notin stuck) ~> (~active[k] \/ Leaving)

\* ngx_thread_pool_destroy() returns.
DestroyEnds == (mpc = "destroy") ~> (mpc \in {"destroyed", "failed"})
=============================================================================
