----------------------------- MODULE Connections -----------------------------
(***************************************************************************)
(* The connection table of a worker and the events of its entries: the     *)
(* free list and the queue of reusable connections (core/ngx_connection.c),*)
(* the batch of events that epoll_wait() returned                          *)
(* (event/modules/ngx_epoll_module.c), the posted events                   *)
(* (event/ngx_event_posted.c) and the events with a timer, as a set        *)
(* (module Timers has their times).                                        *)
(*                                                                         *)
(* Entries are reused at once, while events of the connections that had    *)
(* them are still in the batch.  An event in the batch carries the         *)
(* instance bit of its entry; gen, which the code does not have, numbers   *)
(* the connections of an entry.                                            *)
(*                                                                         *)
(* Event handlers are any sequence of the operations on connections.       *)
(***************************************************************************)
EXTENDS Integers, Sequences, SequencesExt, FiniteSets

CONSTANTS
  Entries,     \* cycle->connections
  Listening,   \* the entry of a listening socket
  None,
  Used,        \* the sides handlers set timers for and post
  MaxGets,     \* connections taken from the free list
  MaxOps,      \* operations of handlers
  MaxPolls     \* calls of epoll_wait()

Sides == {"read", "write"}

ASSUME ConnectionsConstants ==
  /\ Used \subseteq Sides
  /\ Listening \in Entries /\ None \notin Entries
  /\ {MaxGets, MaxOps, MaxPolls} \subseteq Nat

VARIABLES
  open,      \* c->fd is not -1
  instance,  \* rev->instance, equal to wev->instance
  active,    \* the sides with ev->active
  gen,       \* the number of the connection in the entry
  free,      \* cycle->free_connections
  reusable,  \* cycle->reusable_connections_queue, the newest first
  accepts,   \* ngx_posted_accept_events: entry, side and gen
  posted,    \* ngx_posted_events: entry, side and gen
  timers,    \* the events with ev->timer_set: entry, side and gen
  batch,     \* event_list from the event being looked at
  post,      \* NGX_POST_EVENTS
  pc, ret,   \* where the worker is, and where the handler returns
  cur,       \* the handler's event
  entered,   \* the handler has just been called
  gets, ops, polls

table == <<open, instance, active, gen, free, reusable, accepts, posted, timers>>
vars == <<table, batch, post, pc, ret, cur, entered, gets, ops, polls>>

Events == [c : Entries, side : Sides, gen : 0..MaxGets]

\* The lengths of free and reusable are free_connection_n and
\* reusable_connections_n, which stay within connection_n.
TypeOK ==
  /\ open \in [Entries -> BOOLEAN] /\ instance \in [Entries -> 0..1]
  /\ active \in [Entries -> SUBSET Sides] /\ gen \in [Entries -> 0..MaxGets]
  /\ free \in Seq(Entries) /\ reusable \in Seq(Entries)
  /\ Len(free) <= Cardinality(Entries) /\ Len(reusable) <= Cardinality(Entries)
  /\ accepts \in Seq(Events) /\ posted \in Seq(Events) /\ timers \subseteq Events
  /\ \A i \in DOMAIN batch :
       batch[i] \in [c : Entries, instance : 0..1, gen : 0..MaxGets, sides : SUBSET Sides]
  /\ post \in BOOLEAN
  /\ pc \in {"poll", "batch", "write", "accepts", "timers", "posted", "handler"}
  /\ ret \in {"batch", "write", "accepts", "timers", "posted"}
  /\ cur \in Events \cup {None} /\ entered \in BOOLEAN
  /\ gets \in 0..MaxGets /\ ops \in 0..MaxOps /\ polls \in 0..MaxPolls

\* ngx_event_process_init(): the entries are linked in the order of the array,
\* every instance bit is 1, and the listening sockets take the first ones.
Init ==
  /\ open = [c \in Entries |-> c = Listening]
  /\ instance = [c \in Entries |-> IF c = Listening THEN 0 ELSE 1]
  /\ active = [c \in Entries |-> IF c = Listening THEN {"read"} ELSE {}]
  /\ gen = [c \in Entries |-> 0]
  /\ free = SetToSeq(Entries \ {Listening})
  /\ reusable = <<>> /\ accepts = <<>> /\ posted = <<>> /\ timers = {}
  /\ batch = <<>> /\ post = FALSE
  /\ pc = "poll" /\ ret = "batch" /\ cur = None /\ entered = FALSE
  /\ gets = 0 /\ ops = 0 /\ polls = 0

Ev(c, side, g) == [c |-> c, side |-> side, gen |-> g]
IsPosted(queue, c, side) == \E i \in DOMAIN queue : queue[i].c = c /\ queue[i].side = side
Without(seq, c) == SelectSeq(seq, LAMBDA e : e # c)
WithoutEvents(seq, c) == SelectSeq(seq, LAMBDA e : e.c # c)

\* ngx_post_event()
PostEvent(queue, c, side, g) ==
  IF IsPosted(queue, c, side) THEN queue ELSE Append(queue, Ev(c, side, g))

\* The events of listening sockets have a queue of their own.
PostRead(c, g) ==
  IF c = Listening THEN accepts' = PostEvent(accepts, c, "read", g) /\ UNCHANGED posted
  ELSE posted' = PostEvent(posted, c, "read", g) /\ UNCHANGED accepts

Call(c, side, g, where) ==
  /\ cur' = Ev(c, side, g) /\ ret' = where
  /\ pc' = "handler" /\ entered' = TRUE

-----------------------------------------------------------------------------
(* ngx_epoll_process_events().                                             *)

Poll ==
  /\ pc = "poll" /\ polls < MaxPolls /\ polls' = polls + 1
  /\ \E ready \in SUBSET {c \in Entries : open[c] /\ active[c] # {}} :
       \E order \in SetToSeqs(ready), sides \in [ready -> (SUBSET Sides) \ {{}}] :
         batch' = [i \in DOMAIN order |-> [c |-> order[i], instance |-> instance[order[i]],
                                           gen |-> gen[order[i]], sides |-> sides[order[i]]]]
  /\ post' \in BOOLEAN
  /\ pc' = "batch"
  /\ UNCHANGED <<table, ret, cur, entered, gets, ops>>

Stale(e) == ~open[e.c] \/ instance[e.c] # e.instance
Wanted(e, side) == side \in e.sides /\ side \in active[e.c]

rest == <<open, instance, active, gen, free, reusable, timers, post, gets, ops, polls>>

\* Mutant of ReadSide: the instance is not compared.
ReadSideNoInstance ==
  /\ pc = "batch" /\ batch # <<>>
  /\ LET e == Head(batch) IN
       IF ~open[e.c] THEN batch' = Tail(batch) /\ UNCHANGED <<accepts, posted, pc, ret, cur, entered>>
       ELSE /\ UNCHANGED batch
            /\ IF ~Wanted(e, "read") THEN pc' = "write" /\ UNCHANGED <<accepts, posted, ret, cur, entered>>
               ELSE IF post THEN /\ PostRead(e.c, e.gen) /\ pc' = "write"
                                 /\ UNCHANGED <<ret, cur, entered>>
               ELSE Call(e.c, "read", e.gen, "write") /\ UNCHANGED <<accepts, posted>>
  /\ UNCHANGED rest

ReadSide ==
  /\ pc = "batch" /\ batch # <<>>
  /\ LET e == Head(batch) IN
       IF Stale(e) THEN batch' = Tail(batch) /\ UNCHANGED <<accepts, posted, pc, ret, cur, entered>>
       ELSE /\ UNCHANGED batch
            /\ IF ~Wanted(e, "read") THEN pc' = "write" /\ UNCHANGED <<accepts, posted, ret, cur, entered>>
               ELSE IF post THEN /\ PostRead(e.c, e.gen) /\ pc' = "write"
                                 /\ UNCHANGED <<ret, cur, entered>>
               ELSE Call(e.c, "read", e.gen, "write") /\ UNCHANGED <<accepts, posted>>
  /\ UNCHANGED rest

\* The handler of the read event may have closed the connection.
WriteSide ==
  /\ pc = "write"
  /\ batch' = Tail(batch)
  /\ LET e == Head(batch) IN
       IF ~Wanted(e, "write") \/ Stale(e) THEN pc' = "batch" /\ UNCHANGED <<posted, ret, cur, entered>>
       ELSE IF post THEN /\ posted' = PostEvent(posted, e.c, "write", e.gen) /\ pc' = "batch"
                         /\ UNCHANGED <<ret, cur, entered>>
       ELSE Call(e.c, "write", e.gen, "batch") /\ UNCHANGED posted
  /\ UNCHANGED <<rest, accepts>>

-----------------------------------------------------------------------------
(* ngx_event_process_posted() and ngx_event_expire_timers().               *)

loop == <<open, instance, active, gen, free, reusable, batch, post, gets, ops, polls>>

ExpireTimer ==
  /\ pc = "timers"
  /\ \E t \in timers : timers' = timers \ {t} /\ Call(t.c, t.side, t.gen, "timers")
  /\ UNCHANGED <<loop, accepts, posted>>

\* The event leaves its queue before its handler is called.
RunAccept ==
  /\ pc = "accepts" /\ accepts # <<>>
  /\ accepts' = Tail(accepts)
  /\ Call(Head(accepts).c, Head(accepts).side, Head(accepts).gen, "accepts")
  /\ UNCHANGED <<loop, posted, timers>>

RunPosted ==
  /\ pc = "posted" /\ posted # <<>>
  /\ posted' = Tail(posted)
  /\ Call(Head(posted).c, Head(posted).side, Head(posted).gen, "posted")
  /\ UNCHANGED <<loop, accepts, timers>>

\* The end of the batch, of the posted accept events, of the expired timers and
\* of the other posted events.
NextStage ==
  /\ \/ pc = "batch" /\ batch = <<>> /\ pc' = "accepts"
     \/ pc = "accepts" /\ accepts = <<>> /\ pc' = "timers"
     \/ pc = "timers" /\ pc' = "posted"
     \/ pc = "posted" /\ posted = <<>> /\ pc' = "poll"
  /\ UNCHANGED <<table, batch, post, ret, cur, entered, gets, ops, polls>>

-----------------------------------------------------------------------------
(* What a handler may do.                                                  *)

InHandler == pc = "handler" /\ ops < MaxOps /\ ops' = ops + 1 /\ entered' = FALSE
flow == <<batch, post, pc, ret, cur, polls, accepts>>

\* ngx_close_connection(): timers, posted events, the reusable queue, the
\* free list and the descriptor.
Closed(c) ==
  /\ timers' = {t \in timers : t.c # c}
  /\ posted' = WithoutEvents(posted, c)
  /\ reusable' = Without(reusable, c)
  /\ active' = [active EXCEPT ![c] = {}]

\* Mutant of CloseConnection: posted events are forgotten.
CloseKeepPosted(c) ==
  /\ InHandler /\ c # Listening
  /\ IF ~open[c] THEN UNCHANGED <<open, instance, active, gen, free, reusable, posted, timers>>
     ELSE /\ timers' = {t \in timers : t.c # c}
          /\ reusable' = Without(reusable, c)
          /\ active' = [active EXCEPT ![c] = {}]
          /\ free' = <<c>> \o free /\ open' = [open EXCEPT ![c] = FALSE]
          /\ UNCHANGED <<instance, gen, posted>>
  /\ UNCHANGED <<flow, gets>>

\* Mutant of CloseConnection: a closed connection is closed again.
CloseTwice(c) ==
  /\ InHandler /\ c # Listening
  /\ Closed(c)
  /\ free' = <<c>> \o free /\ open' = [open EXCEPT ![c] = FALSE]
  /\ UNCHANGED <<flow, instance, gen, gets>>

CloseConnection(c) ==
  /\ InHandler /\ c # Listening
  /\ IF ~open[c] THEN UNCHANGED <<open, instance, active, gen, free, reusable, posted, timers>>
     ELSE /\ Closed(c)
          /\ free' = <<c>> \o free /\ open' = [open EXCEPT ![c] = FALSE]
          /\ UNCHANGED <<instance, gen>>
  /\ UNCHANGED <<flow, gets>>

\* ngx_get_connection(): the first free entry; with none,
\* ngx_drain_connections() has the handler of the oldest reusable connection
\* close it (one of them, there are fewer than 16).
GetConnection ==
  /\ InHandler /\ gets < MaxGets /\ gets' = gets + 1
  /\ free # <<>> \/ reusable # <<>>
  /\ LET c == IF free # <<>> THEN Head(free) ELSE Last(reusable) IN
       /\ IF free # <<>> THEN free' = Tail(free) /\ UNCHANGED <<timers, posted, reusable, active>>
                         ELSE Closed(c) /\ UNCHANGED free
       /\ open' = [open EXCEPT ![c] = TRUE]
       /\ instance' = [instance EXCEPT ![c] = 1 - @]
       /\ gen' = [gen EXCEPT ![c] = @ + 1]
  /\ UNCHANGED flow

\* The other operations are on open connections: ngx_add_event(), which adds
\* a side to the one that is registered, or ngx_add_conn() (edge-triggered
\* events are deleted by closing only), ngx_add_timer(), ngx_del_timer(),
\* ngx_post_event() and ngx_reusable_connection().
AddEvent(c, side) ==
  /\ InHandler /\ open[c] /\ c # Listening /\ side \notin active[c]
  /\ active' = [active EXCEPT ![c] = @ \cup {side}]
  /\ UNCHANGED <<flow, open, instance, gen, free, reusable, posted, timers, gets>>

AddConn(c) ==
  /\ InHandler /\ open[c] /\ c # Listening /\ active[c] = {}
  /\ active' = [active EXCEPT ![c] = Sides]
  /\ UNCHANGED <<flow, open, instance, gen, free, reusable, posted, timers, gets>>

AddTimer(c, side) ==
  /\ InHandler /\ open[c]
  /\ timers' = timers \cup {Ev(c, side, gen[c])}
  /\ UNCHANGED <<flow, open, instance, active, gen, free, reusable, posted, gets>>

DelTimer(c, side) ==
  /\ InHandler /\ Ev(c, side, gen[c]) \in timers
  /\ timers' = timers \ {Ev(c, side, gen[c])}
  /\ UNCHANGED <<flow, open, instance, active, gen, free, reusable, posted, gets>>

PostFromHandler(c, side) ==
  /\ InHandler /\ open[c] /\ c # Listening
  /\ posted' = PostEvent(posted, c, side, gen[c])
  /\ UNCHANGED <<flow, open, instance, active, gen, free, reusable, timers, gets>>

\* Mutant of Reusable: a connection that is in the queue is put there again.
ReusableAgain(c, on) ==
  /\ InHandler /\ open[c] /\ c # Listening
  /\ reusable' = IF on THEN <<c>> \o reusable ELSE Without(reusable, c)
  /\ UNCHANGED <<flow, open, instance, active, gen, free, posted, timers, gets>>

Reusable(c, on) ==
  /\ InHandler /\ open[c] /\ c # Listening
  /\ reusable' = IF on THEN <<c>> \o Without(reusable, c) ELSE Without(reusable, c)
  /\ UNCHANGED <<flow, open, instance, active, gen, free, posted, timers, gets>>

HandlerReturns ==
  /\ pc = "handler"
  /\ pc' = ret /\ cur' = None /\ entered' = FALSE
  /\ UNCHANGED <<table, batch, post, ret, gets, ops, polls>>

Next ==
  \/ Poll \/ ReadSide \/ WriteSide \/ RunAccept \/ ExpireTimer \/ RunPosted \/ NextStage
  \/ GetConnection \/ HandlerReturns
  \/ \E c \in Entries :
       \/ CloseConnection(c)
       \/ \E on \in BOOLEAN : Reusable(c, on)
       \/ AddConn(c) \/ \E side \in Sides : AddEvent(c, side)
       \/ \E side \in Used : AddTimer(c, side) \/ DelTimer(c, side) \/ PostFromHandler(c, side)

Spec == Init /\ [][Next]_vars

-----------------------------------------------------------------------------
(* Properties.                                                             *)

\* The free list has each closed entry once and no open one, whatever
\* handlers close, and connections reused are taken from it.
FreeList ==
  /\ IsInjective(free)
  /\ {free[i] : i \in DOMAIN free} = {c \in Entries : ~open[c]}

\* Posted events, timers and the reusable queue belong to connections that
\* are open, and to the connection that put them there: nothing checks that
\* when they are used, only closing keeps it so.
NothingLeftBehind ==
  /\ \A i \in DOMAIN posted : open[posted[i].c] /\ posted[i].gen = gen[posted[i].c]
  /\ \A t \in timers : open[t.c] /\ t.gen = gen[t.c]
  /\ IsInjective(reusable) /\ \A i \in DOMAIN reusable : open[reusable[i]]

\* A handler is called for an open connection, and an event that epoll_wait()
\* returned for one connection is never given to the next one that took its
\* entry.  One bit tells them apart, so nothing is said of the one after that:
\* an entry that is reused twice within a batch has its instance back.
EventCurrent == entered => open[cur.c] /\ gen[cur.c] # cur.gen + 1
=============================================================================
