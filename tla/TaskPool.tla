------------------------------ MODULE TaskPool ------------------------------
(***************************************************************************)
(* What a thread pool promises the event loop that uses it: a task that is *)
(* posted runs once, in the order of posting, and its completion handler   *)
(* is called once, in the order in which the tasks finished.               *)
(***************************************************************************)
EXTENDS Sequences

CONSTANT Tasks

VARIABLES
  queue,    \* the tasks posted and not yet taken by a thread, oldest first
  running,  \* the tasks a thread is working on
  done      \* the tasks that finished and were not yet completed, oldest first

vars == <<queue, running, done>>

Init == queue = <<>> /\ running = {} /\ done = <<>>

In(k, s) == \E i \in DOMAIN s : s[i] = k

Post(k) ==
  /\ ~In(k, queue) /\ k \notin running /\ ~In(k, done)
  /\ queue' = Append(queue, k)
  /\ UNCHANGED <<running, done>>

Start(k) ==
  /\ queue # <<>> /\ k = Head(queue)
  /\ queue' = Tail(queue)
  /\ running' = running \cup {k}
  /\ UNCHANGED done

Finish(k) ==
  /\ k \in running
  /\ running' = running \ {k}
  /\ done' = Append(done, k)
  /\ UNCHANGED queue

Complete(k) ==
  /\ done # <<>> /\ k = Head(done)
  /\ done' = Tail(done)
  /\ UNCHANGED <<queue, running>>

Next == \E k \in Tasks : Post(k) \/ Start(k) \/ Finish(k) \/ Complete(k)

Spec == Init /\ [][Next]_vars
=============================================================================
