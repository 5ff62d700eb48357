------------------------------- MODULE Timers -------------------------------
(***************************************************************************)
(* Event timers (event/ngx_event_timer.c, .h) and the part of              *)
(* ngx_process_events_and_timers() that waits for them.                    *)
(*                                                                         *)
(* ngx_current_msec and the keys of the tree are unsigned and wrap around  *)
(* (after 49 days in 32 bits); comparisons take the difference as a signed *)
(* number.  time, due and want, which the code does not have, are the same *)
(* clock and deadlines without the wrap; atonce is history too.  The       *)
(* red-black tree is the sequence of its events in order.                  *)
(***************************************************************************)
EXTENDS Integers, Sequences, SequencesExt, FiniteSets

CONSTANTS
  Timed,      \* the events
  None,
  Modulus,    \* 2^w for a clock of w bits
  LazyDelay,  \* NGX_TIMER_LAZY_DELAY
  MaxDelay,   \* the longest timer
  MaxLate,    \* how late epoll_wait() returns
  MaxTime     \* the end of the clock

\* "Timer values are spread in small range" (core/ngx_rbtree.c)
ASSUME TimersConstants ==
  /\ {Modulus, LazyDelay, MaxDelay, MaxLate, MaxTime} \subseteq Nat \ {0}
  /\ 2 * (MaxDelay + MaxLate) < Modulus
  /\ None \notin Timed

VARIABLES
  time,   \* the clock; ngx_current_msec is time % Modulus
  tree,   \* the events with timer_set, in the order of the tree
  key,    \* ev->timer.key
  due,    \* the deadline that the key stands for
  want,   \* the deadline asked for last
  atonce, \* the events with a timer of no delay, set since the clock last moved
  cur,    \* the event whose timer expired last
  pc

vars == <<time, tree, key, due, want, atonce, cur, pc>>

Set == {tree[i] : i \in DOMAIN tree}
CurrentMsec == time % Modulus

TypeOK ==
  /\ time \in 0..MaxTime
  /\ Set \subseteq Timed /\ IsInjective(tree)
  /\ key \in [Timed -> 0..(Modulus - 1)]
  /\ due \in [Timed -> 0..(MaxTime + MaxDelay)] /\ want \in [Timed -> 0..(MaxTime + MaxDelay)]
  /\ atonce \subseteq Set /\ cur \in Timed \cup {None}
  /\ pc \in {"loop", "events", "expire", "posted"}

Init ==
  /\ time = 0 /\ tree = <<>> /\ atonce = {} /\ cur = None /\ pc = "loop"
  /\ key = [e \in Timed |-> 0] /\ due = [e \in Timed |-> 0] /\ want = [e \in Timed |-> 0]

\* (ngx_msec_int_t) (a - b)
Signed(a, b) == LET d == (a - b) % Modulus IN IF 2 * d < Modulus THEN d ELSE d - Modulus

-----------------------------------------------------------------------------

\* Mutant of Insert: keys are compared as they are.
InsertUnsigned(seq, e, k) ==
  SelectSeq(seq, LAMBDA x : key[x] <= k) \o <<e>> \o SelectSeq(seq, LAMBDA x : key[x] > k)

\* ngx_rbtree_insert_timer_value(): behind the events with the same key.
Insert(seq, e, k) ==
  SelectSeq(seq, LAMBDA x : Signed(k, key[x]) >= 0) \o <<e>>
    \o SelectSeq(seq, LAMBDA x : Signed(k, key[x]) < 0)

Without(seq, e) == SelectSeq(seq, LAMBDA x : x # e)

\* ngx_event_find_timer(); None is NGX_TIMER_INFINITE.
FindTimer ==
  IF tree = <<>> THEN None
  ELSE LET d == Signed(key[Head(tree)], CurrentMsec) IN IF d > 0 THEN d ELSE 0

\* Mutant of Keeps: any timer that is set is kept.
KeepsAlways(e, k) == e \in Set

\* Whether ngx_event_add_timer() leaves the timer of e as it is.
Keeps(e, k) == e \in Set /\ LET d == Signed(k, key[e]) IN (IF d < 0 THEN -d ELSE d) < LazyDelay

\* Handlers set and delete timers while events, expired timers and posted
\* events are processed.
Handling == pc = "events" \/ pc = "posted" \/ (pc = "expire" /\ cur # None)

\* A delay of 0 sets a timer that is due already (a timeout configured as 0).
AddTimer(e, delay) ==
  /\ Handling
  /\ want' = [want EXCEPT ![e] = time + delay]
  /\ LET k == (time + delay) % Modulus IN
       IF Keeps(e, k) THEN UNCHANGED <<tree, key, due, atonce>>
       ELSE /\ tree' = Insert(Without(tree, e), e, k)
            /\ key' = [key EXCEPT ![e] = k]
            /\ due' = [due EXCEPT ![e] = time + delay]
            /\ atonce' = IF delay = 0 THEN atonce \cup {e} ELSE atonce \ {e}
  /\ UNCHANGED <<time, cur, pc>>

\* The deadlines of an event without a timer say nothing.
Forget(e) ==
  /\ key' = [key EXCEPT ![e] = 0] /\ due' = [due EXCEPT ![e] = 0] /\ want' = [want EXCEPT ![e] = 0]
  /\ atonce' = atonce \ {e}

DelTimer(e) ==
  /\ Handling /\ e \in Set
  /\ tree' = Without(tree, e)
  /\ Forget(e)
  /\ UNCHANGED <<time, cur, pc>>

\* ngx_process_events(): it waits for an event, or until the timer, or a bit
\* longer.  Timers are looked at only if the clock has moved.
Wait ==
  /\ pc = "loop"
  /\ \E passed \in 0..((IF FindTimer = None THEN MaxDelay ELSE FindTimer) + MaxLate) :
       /\ time + passed <= MaxTime
       /\ time' = time + passed
       /\ pc' = IF passed = 0 THEN "posted" ELSE "events"
       /\ atonce' = IF passed = 0 THEN atonce ELSE {}
  /\ UNCHANGED <<tree, key, due, want, cur>>

EventsDone ==
  /\ pc = "events" /\ pc' = "expire"
  /\ UNCHANGED <<time, tree, key, due, want, atonce, cur>>

\* Mutant of Expired: the keys are compared as they are.
ExpiredUnsigned == tree # <<>> /\ key[Head(tree)] <= CurrentMsec

\* Mutant of Expired: a timer that is due in this millisecond is left.
ExpiredLate == tree # <<>> /\ Signed(key[Head(tree)], CurrentMsec) < 0

Expired == tree # <<>> /\ Signed(key[Head(tree)], CurrentMsec) <= 0

\* One turn of the loop of ngx_event_expire_timers().
Expire ==
  /\ pc = "expire" /\ Expired
  /\ cur' = Head(tree) /\ tree' = Tail(tree)
  /\ Forget(Head(tree))
  /\ UNCHANGED <<time, pc>>

ExpireDone ==
  /\ pc = "expire" /\ ~Expired
  /\ pc' = "posted" /\ cur' = None
  /\ UNCHANGED <<time, tree, key, due, want, atonce>>

TurnDone ==
  /\ pc = "posted" /\ pc' = "loop"
  /\ UNCHANGED <<time, tree, key, due, want, atonce, cur>>

Next ==
  \/ Wait \/ EventsDone \/ Expire \/ ExpireDone \/ TurnDone
  \/ \E e \in Timed : DelTimer(e) \/ \E delay \in 0..MaxDelay : AddTimer(e, delay)

Spec == Init /\ [][Next]_vars

-----------------------------------------------------------------------------
(* Properties.                                                             *)

\* ngx_event_find_timer() is the time to the earliest deadline, also when
\* some keys have wrapped around and others have not.
NearestFirst ==
  /\ TypeOK
  /\ tree # <<>> =>
       LET left == {due[e] - time : e \in Set}
           nearest == CHOOSE d \in left : \A other \in left : d <= other
       IN  FindTimer = IF nearest > 0 THEN nearest ELSE 0

\* After the expired timers were processed, and until the worker waits again,
\* no timer that is set has been missed, but for those of no delay that were set
\* since the clock last moved: the turns that find the clock where it was do not
\* look at them, the first one that finds it moved leaves none of them.
NoneMissed ==
  pc \in {"posted", "loop"} =>
    \A e \in Set : due[e] > time \/ (e \in atonce /\ due[e] = time)

\* The timer in the tree is within NGX_TIMER_LAZY_DELAY of the one asked for
\* last, however often it was asked for and left as it was.
LazyBounded ==
  \A e \in Set : due[e] - want[e] < LazyDelay /\ want[e] - due[e] < LazyDelay

\* A timer does not expire before its time, but for the lazy delay.
NotEarly ==
  [][Expire => due[Head(tree)] <= time /\ want[Head(tree)] - LazyDelay < time]_vars
=============================================================================
