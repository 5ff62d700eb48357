------------------------------- MODULE Accept -------------------------------
(***************************************************************************)
(* Who accepts connections: one turn of ngx_process_events_and_timers()    *)
(* (event/ngx_event.c) in each worker, ngx_event_accept() and the accept   *)
(* mutex (event/ngx_event_accept.c), and what they need of the connection  *)
(* table (core/ngx_connection.c), namely how many entries are free.        *)
(*                                                                         *)
(* Listening sockets are level-triggered: epoll_wait() reports each one    *)
(* that is registered and has connections waiting.  The accept mutex is    *)
(* taken by ngx_shmtx_trylock() only, so it is its owner and nothing else. *)
(***************************************************************************)
EXTENDS Integers, FiniteSets

CONSTANTS
  Workers,       \* the worker processes
  Shared,        \* listening sockets that all workers have
  Own,           \* a function: the reuseport socket of each worker, or NoSocket
  Nobody, NoSocket,
  AcceptMutex,   \* the settings of accept_mutex that are looked at
  MultiAccept,   \* ecf->multi_accept
  Reserve,       \* cycle->connection_n / 8
  Connections,   \* connections free in a worker at the start
  MaxBacklog, MaxClients, MaxFiles, MaxFailures, MaxQuits

Sockets == Shared \cup ({Own[w] : w \in Workers} \ {NoSocket})

ASSUME AcceptConstants ==
  /\ AcceptMutex \subseteq BOOLEAN /\ MultiAccept \in BOOLEAN
  /\ {Reserve, Connections, MaxBacklog, MaxClients, MaxFiles, MaxFailures, MaxQuits} \subseteq Nat
  /\ Nobody \notin Workers /\ NoSocket \notin Shared

VARIABLES
  lock,           \* the owner of ngx_accept_mutex
  pc, ret,        \* where each worker is, and where its accept handler returns
  use, held,      \* ngx_use_accept_mutex, ngx_accept_mutex_held
  disabled,       \* ngx_accept_disabled
  active,         \* the listening sockets registered with epoll
  post, bounded,  \* NGX_POST_EVENTS, and whether the timer is finite
  batch, posted,  \* events reported and not looked at, ngx_posted_accept_events
  cur,            \* the socket of the accept handler
  timer, timedout,  \* sockets with a timer to enable accept events again, and
                  \* those whose timer has expired without success so far
  free, idle,     \* free connections, and reusable ones
  backlog,        \* connections waiting on each socket
  clients, files, failures, quits   \* counters for the bounds

worker == <<pc, ret, use, held, disabled, active, post, bounded, batch, posted, cur, timer, timedout,
            free, idle>>
bounds == <<clients, files, failures, quits>>
vars == <<lock, worker, backlog, bounds>>

Mine(w) == Shared \cup ({Own[w]} \ {NoSocket})

TypeOK ==
  /\ lock \in Workers \cup {Nobody}
  /\ pc \in [Workers -> {"loop", "poll", "events", "accept", "posted", "rest", "exiting"}]
  /\ ret \in [Workers -> {"events", "posted", "rest"}]
  /\ use \in [Workers -> BOOLEAN] /\ held \in [Workers -> BOOLEAN]
  /\ disabled \in [Workers -> (-Connections)..(Reserve + 1)]
  /\ active \in [Workers -> SUBSET Sockets]
  /\ post \in [Workers -> BOOLEAN] /\ bounded \in [Workers -> BOOLEAN]
  /\ batch \in [Workers -> SUBSET Sockets] /\ posted \in [Workers -> SUBSET Sockets]
  /\ cur \in [Workers -> Sockets \cup {NoSocket}]
  /\ timer \in [Workers -> SUBSET Sockets] /\ timedout \in [Workers -> SUBSET Sockets]
  /\ free \in [Workers -> 0..Connections] /\ idle \in [Workers -> 0..Connections]
  /\ \A w \in Workers : idle[w] <= Connections - free[w]
  /\ backlog \in [Sockets -> 0..MaxBacklog]

\* The setting of accept_mutex, the same in all workers.
UseMutex(mutex) == use = [w \in Workers |-> mutex] /\ held = [w \in Workers |-> FALSE]

\* ngx_event_process_init(): with the mutex only a worker's own sockets are
\* registered at once.
Init ==
  /\ lock = Nobody
  /\ pc = [w \in Workers |-> "loop"] /\ ret = [w \in Workers |-> "rest"]
  /\ \E mutex \in AcceptMutex : UseMutex(mutex)
  /\ disabled = [w \in Workers |-> 0]
  /\ active = [w \in Workers |-> IF use[w] THEN Mine(w) \ Shared ELSE Mine(w)]
  /\ post = [w \in Workers |-> FALSE] /\ bounded = [w \in Workers |-> FALSE]
  /\ batch = [w \in Workers |-> {}] /\ posted = [w \in Workers |-> {}]
  /\ cur = [w \in Workers |-> NoSocket]
  /\ timer = [w \in Workers |-> {}] /\ timedout = [w \in Workers |-> {}]
  /\ free = [w \in Workers |-> Connections] /\ idle = [w \in Workers |-> 0]
  /\ backlog = [s \in Sockets |-> 0]
  /\ clients = 0 /\ files = 0 /\ failures = 0 /\ quits = 0

goto(w, where) == pc' = [pc EXCEPT ![w] = where]
Set(f, w, v) == [f EXCEPT ![w] = v]
Release(w) == IF lock = w THEN Nobody ELSE lock
Open(w) == Connections - free[w]

\* The registration of events stops at the first socket for which epoll_ctl()
\* fails.
EnableSome(w) ==
  \E some \in SUBSET (Mine(w) \ active[w]) :
    some # Mine(w) \ active[w] /\ active' = Set(active, w, active[w] \cup some)
DisableSome(w, socks) ==
  \E some \in SUBSET socks : some # socks /\ active' = Set(active, w, active[w] \ some)

-----------------------------------------------------------------------------
(* The beginning of a turn.                                                *)

turn == <<ret, batch, posted, cur, timer, timedout, free, idle, backlog, clients, files, quits>>

\* A worker with few free connections lets the others try.  What it has
\* registered stays registered.
SkipTurn(w) ==
  /\ pc[w] = "loop" /\ use[w] /\ disabled[w] > 0
  /\ disabled' = Set(disabled, w, disabled[w] - 1)
  /\ post' = Set(post, w, FALSE) /\ bounded' = Set(bounded, w, FALSE)
  /\ goto(w, "poll")
  /\ UNCHANGED <<turn, lock, use, held, active, failures>>

NoMutex(w) ==
  /\ pc[w] = "loop" /\ ~use[w]
  /\ post' = Set(post, w, FALSE) /\ bounded' = Set(bounded, w, FALSE)
  /\ goto(w, "poll")
  /\ UNCHANGED <<turn, lock, use, held, disabled, active, failures>>

\* The mutex is taken.  If the worker had it last, its events are registered.
Locked(w) ==
  /\ pc[w] = "loop" /\ use[w] /\ disabled[w] <= 0 /\ lock = Nobody
  /\ lock' = w
  /\ active' = IF held[w] THEN active ELSE Set(active, w, Mine(w))
  /\ held' = Set(held, w, TRUE)
  /\ post' = Set(post, w, TRUE) /\ bounded' = Set(bounded, w, FALSE)
  /\ goto(w, "poll")
  /\ UNCHANGED <<turn, use, disabled, failures>>

\* ngx_enable_accept_events() fails half way: the turn is over.
LockedEnableFails(w) ==
  /\ pc[w] = "loop" /\ use[w] /\ disabled[w] <= 0 /\ lock = Nobody /\ ~held[w]
  /\ failures < MaxFailures /\ failures' = failures + 1
  /\ EnableSome(w)
  /\ UNCHANGED <<turn, lock, pc, use, held, disabled, post, bounded>>

\* Mutant of NotLocked: the events stay registered.
NotLockedStillActive(w) ==
  /\ pc[w] = "loop" /\ use[w] /\ disabled[w] <= 0 /\ lock # Nobody
  /\ held' = Set(held, w, FALSE)
  /\ post' = Set(post, w, FALSE) /\ bounded' = Set(bounded, w, TRUE)
  /\ goto(w, "poll")
  /\ UNCHANGED <<turn, lock, use, disabled, active, failures>>

\* Another worker has it: the shared sockets are left to it.
NotLocked(w) ==
  /\ pc[w] = "loop" /\ use[w] /\ disabled[w] <= 0 /\ lock # Nobody
  /\ active' = IF held[w] THEN Set(active, w, active[w] \ Shared) ELSE active
  /\ held' = Set(held, w, FALSE)
  /\ post' = Set(post, w, FALSE) /\ bounded' = Set(bounded, w, TRUE)
  /\ goto(w, "poll")
  /\ UNCHANGED <<turn, lock, use, disabled, failures>>

\* ngx_disable_accept_events() fails half way: the turn is over, with
\* ngx_accept_mutex_held still set.
NotLockedDisableFails(w) ==
  /\ pc[w] = "loop" /\ use[w] /\ disabled[w] <= 0 /\ lock # Nobody /\ held[w]
  /\ failures < MaxFailures /\ failures' = failures + 1
  /\ DisableSome(w, active[w] \cap Shared)
  /\ UNCHANGED <<turn, lock, pc, use, held, disabled, post, bounded>>

-----------------------------------------------------------------------------
(* epoll_wait() and the events.                                            *)

Ready(w) == {s \in active[w] : backlog[s] > 0}

\* epoll_wait() returns with events, or because its timer was bounded, or
\* something happened to a connection: an open one has at least a timer.
Poll(w) ==
  /\ pc[w] = "poll"
  /\ Ready(w) # {} \/ bounded[w] \/ Open(w) > 0 \/ timer[w] # {}
  /\ batch' = Set(batch, w, Ready(w))
  /\ goto(w, "events")
  /\ UNCHANGED <<lock, ret, use, held, disabled, active, post, bounded, posted, cur, timer, timedout,
                 free, idle, backlog, bounds>>

accepting == <<lock, use, held, disabled, active, post, bounded, timer, timedout, free, idle,
              backlog, bounds>>

\* ngx_epoll_process_events() posts the event, or calls ngx_event_accept(),
\* or drops it because the socket is not active any more.
Event(w) ==
  /\ pc[w] = "events" /\ batch[w] # {}
  /\ \E s \in batch[w] :
       /\ batch' = Set(batch, w, batch[w] \ {s})
       /\ IF s \notin active[w] THEN UNCHANGED <<pc, ret, cur, posted>>
          ELSE IF post[w] THEN posted' = Set(posted, w, posted[w] \cup {s}) /\ UNCHANGED <<pc, ret, cur>>
          ELSE /\ cur' = Set(cur, w, s) /\ ret' = Set(ret, w, "events")
               /\ goto(w, "accept")
               /\ UNCHANGED posted
  /\ UNCHANGED accepting

EventsDone(w) ==
  /\ pc[w] = "events" /\ batch[w] = {}
  /\ goto(w, "posted")
  /\ UNCHANGED <<accepting, ret, batch, posted, cur>>

Posted(w) ==
  /\ pc[w] = "posted" /\ posted[w] # {}
  /\ \E s \in posted[w] :
       /\ posted' = Set(posted, w, posted[w] \ {s})
       /\ cur' = Set(cur, w, s)
  /\ ret' = Set(ret, w, "posted")
  /\ goto(w, "accept")
  /\ UNCHANGED <<accepting, batch>>

\* The mutex is released; ngx_accept_mutex_held stays set.
PostedDone(w) ==
  /\ pc[w] = "posted" /\ posted[w] = {}
  /\ lock' = IF held[w] THEN Release(w) ELSE lock
  /\ goto(w, "rest")
  /\ UNCHANGED <<ret, use, held, disabled, active, post, bounded, batch, posted, cur, timer, timedout,
                 free, idle, backlog, bounds>>

-----------------------------------------------------------------------------
(* ngx_event_accept().                                                     *)

Return(w) == goto(w, ret[w]) /\ cur' = Set(cur, w, NoSocket)
Continue(w) == IF MultiAccept THEN UNCHANGED <<pc, cur>> ELSE Return(w)
called == <<ret, use, post, bounded, batch, posted>>
handler == <<called, timedout>>
Accepting(w) == pc[w] = "accept" /\ cur[w] \notin timedout[w]

\* Called after its timer expired, it enables accept events first.
AcceptEnable(w) ==
  /\ pc[w] = "accept" /\ cur[w] \in timedout[w]
  /\ active' = Set(active, w, Mine(w))
  /\ timedout' = Set(timedout, w, timedout[w] \ {cur[w]})
  /\ UNCHANGED <<called, lock, pc, held, disabled, cur, timer, free, idle, backlog, bounds>>

AcceptEnableFails(w) ==
  /\ pc[w] = "accept" /\ cur[w] \in timedout[w]
  /\ failures < MaxFailures /\ failures' = failures + 1
  /\ EnableSome(w)
  /\ Return(w)
  /\ UNCHANGED <<handler, lock, held, disabled, timer, free, idle, backlog, clients, files, quits>>

AcceptAgain(w) ==
  /\ Accepting(w) /\ backlog[cur[w]] = 0
  /\ Return(w)
  /\ UNCHANGED <<handler, lock, held, disabled, active, timer, free, idle, backlog, bounds>>

\* ECONNABORTED
AcceptAborted(w) ==
  /\ Accepting(w) /\ backlog[cur[w]] > 0
  /\ backlog' = Set(backlog, cur[w], backlog[cur[w]] - 1)
  /\ Continue(w)
  /\ UNCHANGED <<handler, lock, held, disabled, active, timer, free, idle, bounds>>

\* Mutant of TooManyFiles: the mutex is forgotten, not released.
TooManyFilesKeepLock(w) ==
  /\ Accepting(w) /\ backlog[cur[w]] > 0
  /\ files < MaxFiles /\ files' = files + 1
  /\ active' = Set(active, w, {})
  /\ held' = Set(held, w, FALSE) /\ disabled' = Set(disabled, w, 1)
  /\ Return(w)
  /\ UNCHANGED <<handler, lock, timer, free, idle, backlog, clients, failures, quits>>

\* Mutant of TooManyFiles: ngx_accept_mutex_held is not cleared, no timer is set.
TooManyFilesStop(w) ==
  /\ Accepting(w) /\ backlog[cur[w]] > 0
  /\ files < MaxFiles /\ files' = files + 1
  /\ active' = Set(active, w, {})
  /\ lock' = IF use[w] THEN Release(w) ELSE lock
  /\ Return(w)
  /\ UNCHANGED <<handler, held, disabled, timer, free, idle, backlog, clients, failures, quits>>

\* EMFILE: accept events of all sockets are disabled, the worker's own too,
\* for a turn or, without the mutex, until a timer expires.
TooManyFiles(w) ==
  /\ Accepting(w) /\ backlog[cur[w]] > 0
  /\ files < MaxFiles /\ files' = files + 1
  /\ active' = Set(active, w, {})
  /\ IF use[w] THEN /\ lock' = IF held[w] THEN Release(w) ELSE lock
                    /\ held' = Set(held, w, FALSE)
                    /\ disabled' = Set(disabled, w, 1)
                    /\ UNCHANGED timer
     ELSE timer' = Set(timer, w, timer[w] \cup {cur[w]}) /\ UNCHANGED <<lock, held, disabled>>
  /\ Return(w)
  /\ UNCHANGED <<handler, free, idle, backlog, clients, failures, quits>>

\* EMFILE, and the events cannot be disabled: the handler returns with the mutex,
\* if it has it, and sets no timer.
TooManyFilesDisableFails(w) ==
  /\ Accepting(w) /\ backlog[cur[w]] > 0
  /\ files < MaxFiles /\ files' = files + 1
  /\ failures < MaxFailures /\ failures' = failures + 1
  /\ DisableSome(w, active[w])
  /\ Return(w)
  /\ UNCHANGED <<handler, lock, held, disabled, timer, free, idle, backlog, clients, quits>>

\* Mutant of AcceptConnection: the end of the free list is not seen.
AcceptConnectionUnchecked(w) ==
  /\ Accepting(w) /\ backlog[cur[w]] > 0
  /\ backlog' = Set(backlog, cur[w], backlog[cur[w]] - 1)
  /\ disabled' = Set(disabled, w, Reserve - free[w])
  /\ free' = Set(free, w, free[w] - 1)
  /\ Continue(w)
  /\ UNCHANGED <<handler, lock, held, active, timer, idle, bounds>>

\* A connection is accepted and given an entry of the table: a free one, or
\* the oldest reusable one, which ngx_drain_connections() closes.
AcceptConnection(w) ==
  /\ Accepting(w) /\ backlog[cur[w]] > 0 /\ free[w] + idle[w] > 0
  /\ backlog' = Set(backlog, cur[w], backlog[cur[w]] - 1)
  /\ disabled' = Set(disabled, w, Reserve - free[w])
  /\ IF free[w] > 0 THEN free' = Set(free, w, free[w] - 1) /\ UNCHANGED idle
                    ELSE idle' = Set(idle, w, idle[w] - 1) /\ UNCHANGED free
  /\ Continue(w)
  /\ UNCHANGED <<handler, lock, held, active, timer, bounds>>

\* No entry, or an allocation or ioctl() after it fails: the socket is closed.
AcceptDropped(w) ==
  /\ Accepting(w) /\ backlog[cur[w]] > 0
  /\ free[w] + idle[w] = 0 \/ failures < MaxFailures
  /\ failures' = IF free[w] + idle[w] = 0 THEN failures ELSE failures + 1
  /\ backlog' = Set(backlog, cur[w], backlog[cur[w]] - 1)
  /\ disabled' = Set(disabled, w, Reserve - free[w])
  /\ LET drained == free[w] = 0 /\ idle[w] > 0
     IN  /\ idle' = IF drained THEN Set(idle, w, idle[w] - 1) ELSE idle
         /\ free' = IF drained THEN Set(free, w, free[w] + 1) ELSE free
  /\ Return(w)
  /\ UNCHANGED <<handler, lock, held, active, timer, clients, files, quits>>

-----------------------------------------------------------------------------
(* The rest of a turn: timers, other events, signals.                      *)

others == <<lock, ret, use, held, disabled, post, bounded, batch, posted, timedout>>

\* The timer of a socket expires.
Expire(w) ==
  /\ pc[w] = "rest" /\ timer[w] # {}
  /\ \E s \in timer[w] : timer' = Set(timer, w, timer[w] \ {s}) /\ cur' = Set(cur, w, s)
  /\ timedout' = Set(timedout, w, timedout[w] \cup {cur'[w]})
  /\ ret' = Set(ret, w, "rest")
  /\ goto(w, "accept")
  /\ UNCHANGED <<lock, use, held, disabled, active, post, bounded, batch, posted, free, idle, backlog, bounds>>

\* A connection is finished, or becomes reusable, or is used again.
Connection(w) ==
  /\ pc[w] = "rest" /\ Open(w) > 0
  /\ \/ free' = Set(free, w, free[w] + 1) /\ idle' = Set(idle, w, IF idle[w] > 0 THEN idle[w] - 1 ELSE 0)
     \/ idle[w] < Open(w) /\ idle' = Set(idle, w, idle[w] + 1) /\ UNCHANGED free
     \/ idle[w] > 0 /\ idle' = Set(idle, w, idle[w] - 1) /\ UNCHANGED free
  /\ UNCHANGED <<others, pc, active, cur, timer, backlog, bounds>>

TurnDone(w) ==
  /\ pc[w] = "rest"
  /\ goto(w, "loop")
  /\ UNCHANGED <<others, active, cur, timer, free, idle, backlog, bounds>>

\* The worker sees after a turn that it was told to quit:
\* ngx_close_listening_sockets().  A timer of a socket stays set.
QuitWorker(w) ==
  /\ pc[w] = "loop" /\ quits < MaxQuits /\ quits' = quits + 1
  /\ held' = Set(held, w, FALSE) /\ use' = Set(use, w, FALSE)
  /\ active' = Set(active, w, {})
  /\ goto(w, "exiting")
  /\ UNCHANGED <<lock, ret, disabled, post, bounded, batch, posted, cur, timer, timedout, free,
                 idle, backlog, clients, files, failures>>

Client(s) ==
  /\ backlog[s] < MaxBacklog /\ clients < MaxClients
  /\ backlog' = [backlog EXCEPT ![s] = @ + 1]
  /\ clients' = clients + 1
  /\ UNCHANGED <<lock, worker, files, failures, quits>>

Turn(w) ==
  \/ SkipTurn(w) \/ NoMutex(w) \/ Locked(w) \/ NotLocked(w)
  \/ Poll(w) \/ Event(w) \/ EventsDone(w) \/ Posted(w) \/ PostedDone(w)
  \/ AcceptEnable(w) \/ AcceptAgain(w) \/ AcceptConnection(w) \/ AcceptDropped(w)
  \/ Expire(w) \/ TurnDone(w)

Next ==
  \/ \E w \in Workers : \/ Turn(w) \/ LockedEnableFails(w) \/ NotLockedDisableFails(w)
                        \/ AcceptEnableFails(w) \/ AcceptAborted(w) \/ TooManyFiles(w)
                        \/ TooManyFilesDisableFails(w) \/ Connection(w) \/ QuitWorker(w)
  \/ \E s \in Sockets : Client(s)

Spec == Init /\ [][Next]_vars

\* Each worker runs, and a timer that is set expires in some turn.  The mutex
\* is only tried, never waited for; a worker that tries again and again is not
\* always unlucky.
FairSpec ==
  Spec /\ \A w \in Workers : WF_vars(Turn(w)) /\ SF_vars(Locked(w)) /\ SF_vars(Expire(w))

-----------------------------------------------------------------------------
(* Properties.                                                             *)

\* The accept mutex is owned during one turn at most: whatever accept() and
\* the registration of events return, it is free when the worker goes on.
LockReleased == \A w \in Workers : pc[w] \in {"loop", "rest", "exiting"} => lock # w

\* Two workers wait with a shared socket registered only if one of them is
\* short of connections and did not try the mutex, and then it is the one
\* that accepts at once and does not post.
OnePoller ==
  \A v, w \in Workers :
    /\ v # w /\ pc[v] = "poll" /\ pc[w] = "poll" /\ use[v] /\ use[w]
    /\ active[v] \cap Shared # {} /\ active[w] \cap Shared # {} /\ failures = 0
    => ~(bounded[v] \/ bounded[w]) /\ ~(post[v] /\ post[w])

\* Worker w goes on without socket s.  It ran out of files, decremented
\* ngx_accept_disabled instead of trying the mutex, and sleeps with neither a
\* timer nor a connection; or it does not use the mutex, and has no timer since
\* its events could not be enabled or disabled.
Stranded(w, s) ==
  /\ files > 0 /\ s \notin active[w]
  /\ \/ use[w] /\ pc[w] = "poll" /\ ~post[w] /\ ~bounded[w] /\ Open(w) = 0
     \/ failures > 0 /\ ~use[w] /\ timer[w] = {}

\* Disabling the events of w failed half way: ngx_accept_mutex_held still says
\* that it has them all, and it takes the mutex without enabling s until it
\* finds the mutex taken once.
Misled(w, s) == failures > 0 /\ held[w] /\ s \notin active[w]

\* A connection to a shared socket does not wait for ever, whatever workers
\* lost the mutex, ran out of connections or files, or quit: it is accepted,
\* unless from some time on all workers that listen stay stranded, or one that
\* is misled stays so, and with it has or takes the mutex.
AcceptProgress ==
  \A s \in Shared :
    \/ []<>(backlog[s] = 0)
    \/ <>[](\A w \in Workers : pc[w] = "exiting" \/ Stranded(w, s))
    \/ \E w \in Workers : <>[]Misled(w, s)
=============================================================================
