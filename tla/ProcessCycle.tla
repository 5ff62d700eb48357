---------------------------- MODULE ProcessCycle ----------------------------
(***************************************************************************)
(* The master process: ngx_master_process_cycle() of                       *)
(* os/unix/ngx_process_cycle.c, the table of processes and the signal      *)
(* handler of os/unix/ngx_process.c, and the life of its children.         *)
(*                                                                         *)
(* Signals are blocked except inside sigsuspend(), so between two waits    *)
(* the master sees a fixed set of flags and tests them in a fixed order:   *)
(* one action per test.  Children run, crash and exit at any moment.       *)
(*                                                                         *)
(* A channel is the number of a socketpair; owner says which child it was  *)
(* made for while the master has it open.  The numbers are reused, lowest  *)
(* first, as descriptors are.                                              *)
(***************************************************************************)
EXTENDS Integers, Sequences, FiniteSets, FiniteSetsExt

CONSTANT
  Environments  \* the configurations and surroundings that are looked at

\* An environment: worker_processes, whether some path has a cache manager and
\* a cache loader, NGX_MAX_PROCESSES, the signals an administrator sends,
\* whether children do as they are told in the end, and three bounds: signals,
\* children that die unasked, and socketpair() or fork() calls that fail.
ASSUME ProcessEnvironments ==
  \A e \in Environments :
    /\ {e.workers, e.table} \subseteq Nat \ {0}
    /\ {e.maxSignals, e.maxCrashes, e.maxFailures} \subseteq Nat
    /\ {e.manager, e.loader, e.obedient} \subseteq BOOLEAN
    /\ e.signals \subseteq {"HUP", "QUIT", "TERM", "USR1", "USR2", "WINCH"}

\* No execution forks more often than this: each signal may start all the
\* children again, or start a new binary whose exit does.
Pids ==
  LET started(e) == e.workers + (IF e.manager THEN 2 ELSE 0)
  IN  1..Max({(1 + e.maxSignals) * started(e) + e.maxCrashes + e.maxSignals : e \in Environments})
NoPid == -1
NoChannel == 0

Flags == {"reap", "quit", "terminate", "reconfigure", "restart", "reopen",
          "change_binary", "noaccept", "noaccepting", "sigalrm"}
Kinds == {"worker", "manager", "loader", "binary"}
Modes == {"norespawn", "just_spawn", "respawn", "just_respawn", "detached"}

VARIABLES
  env,          \* the environment of this execution
  pc, slot,     \* the test the master is at, and i of ngx_reap_children()
  processes,    \* ngx_processes[]
  last,         \* ngx_last_process
  flags,        \* the ngx_* flags that are set
  newBinary,    \* ngx_new_binary: 0, a pid, or NGX_INVALID_PID
  live, alive,  \* live of the cycle, and of ngx_reap_children()
  delay, sigio, \* of the termination cycle
  alarm,        \* the interval timer is armed
  pending,      \* signals pending for the master
  todo, then,   \* children still to be started, and what follows
  cycle,        \* configurations in use so far
  pidfile,      \* the name of the file that holds the master's pid
  owner,        \* the child each open channel was made for
  os, told, gen, nextPid,  \* the children: state, commands, configuration
  sent, crashes, failures, \* counters for the bounds
  fatals        \* how many children exited with the fatal code

master == <<newBinary, live, delay, sigio, alarm, cycle, pidfile>>
children == <<os, told, gen, nextPid>>
bounds == <<env, sent, crashes, failures, fatals>>
vars == <<env, pc, slot, processes, last, flags, newBinary, live, alive, delay, sigio,
          alarm, pending, todo, then, cycle, pidfile, owner, os, told, gen,
          nextPid, sent, crashes, failures, fatals>>

WorkerProcesses == env.workers
Manager == env.manager
Loader == env.loader
MaxProcesses == env.table
MaxSignals == env.maxSignals
MaxCrashes == env.maxCrashes
MaxFailures == env.maxFailures
Slots == 0..(MaxProcesses - 1)
Pairs == 1..(MaxProcesses + 1)

Entry == [pid : Pids \cup {NoPid}, kind : Kinds, respawn : BOOLEAN, just_spawn : BOOLEAN,
          detached : BOOLEAN, exiting : BOOLEAN, exited : BOOLEAN,
          channel : Pairs \cup {NoChannel}]

TypeOK ==
  /\ pc \in {"start", "top", "suspend", "reap", "exit", "terminate", "quit", "reconfigure",
             "restart", "reopen", "change_binary", "noaccept", "exited"}
  /\ slot \in 0..MaxProcesses /\ last \in 0..MaxProcesses
  /\ processes \in [Slots -> Entry]
  /\ flags \subseteq Flags
  /\ newBinary \in Pids \cup {0, NoPid}
  /\ {live, alive, alarm} \subseteq BOOLEAN
  /\ delay \in {0, 50, 100, 200, 400, 800, 1600} /\ sigio \in 0..(WorkerProcesses + 2)
  /\ env \in Environments /\ pending \subseteq env.signals \cup {"CHLD", "ALRM", "IO"}
  /\ todo \in Seq(Kinds \X Modes)
  /\ then \in {"serve", "reload", "restarted"}
  /\ cycle \in Nat  /\ pidfile \in {"pid", "oldpid", "none"}
  /\ owner \in [Pairs -> Pids \cup {NoPid}]
  /\ os \in [Pids -> {"none", "alive", "draining", "zombie", "fatal", "gone"}]
  /\ told \in [Pids -> SUBSET {"quit", "terminate", "reopen"}]
  /\ gen \in [Pids -> Nat]
  /\ nextPid \in Nat \ {0}

\* Mutant of Starting: the first workers are marked just_spawn as well.
StartingJust(reload) == [i \in 1..WorkerProcesses |-> <<"worker", "just_respawn">>]

\* ngx_start_worker_processes() and ngx_start_cache_manager_processes(): what
\* they spawn, the processes of a reload being marked just_spawn.
Starting(reload) ==
  [i \in 1..WorkerProcesses |-> <<"worker", IF reload THEN "just_respawn" ELSE "respawn">>]
  \o (IF Manager THEN <<<<"manager", IF reload THEN "just_respawn" ELSE "respawn">>>>
                 ELSE <<>>)
  \o (IF Manager /\ Loader THEN <<<<"loader", IF reload THEN "just_spawn" ELSE "norespawn">>>>
                           ELSE <<>>)

Init ==
  /\ env \in Environments
  /\ pc = "start" /\ slot = 0
  /\ processes = [s \in Slots |->
       [pid |-> NoPid, kind |-> "worker", respawn |-> FALSE, just_spawn |-> FALSE,
        detached |-> FALSE, exiting |-> FALSE, exited |-> FALSE, channel |-> NoChannel]]
  /\ last = 0 /\ flags = {} /\ newBinary = 0
  /\ live = TRUE /\ alive = FALSE
  /\ delay = 0 /\ sigio = 0 /\ alarm = FALSE
  /\ pending = {}
  /\ todo = Starting(FALSE) /\ then = "serve"
  /\ cycle = 0 /\ pidfile = "pid"
  /\ owner = [c \in Pairs |-> NoPid]
  /\ os = [p \in Pids |-> "none"]
  /\ told = [p \in Pids |-> {}]
  /\ gen = [p \in Pids |-> 0]
  /\ nextPid = 1
  /\ sent = 0 /\ crashes = 0 /\ failures = 0 /\ fatals = 0

\* The process exists and has not ended.
Running(p) == os[p] \in {"alive", "draining"}

-----------------------------------------------------------------------------
(* ngx_spawn_process().                                                    *)

\* Mutant of FreeSlot: the slot of a child that is exiting counts as free.
FreeSlotExiting ==
  LET free == {s \in 0..(last - 1) : processes[s].pid = NoPid \/ processes[s].exiting}
  IN  IF free = {} THEN last ELSE Min(free)

\* The first free slot below ngx_last_process, or the one after them.
FreeSlot ==
  LET free == {s \in 0..(last - 1) : processes[s].pid = NoPid}
  IN  IF free = {} THEN last ELSE Min(free)

FreePair(own) == Min({c \in Pairs : own[c] = NoPid})

\* fork(): the child exists and runs the configuration of the master.
Fork ==
  /\ nextPid' = nextPid + 1
  /\ os' = [os EXCEPT ![nextPid] = "alive"]
  /\ gen' = [gen EXCEPT ![nextPid] = cycle]
  /\ UNCHANGED told

\* A new entry in slot s, reached through channel c.
NewEntry(s, kind, mode, c) ==
  /\ processes' = [processes EXCEPT ![s] =
       [pid |-> nextPid, kind |-> kind,
        respawn |-> mode \in {"respawn", "just_respawn"},
        just_spawn |-> mode \in {"just_spawn", "just_respawn"},
        detached |-> mode = "detached",
        exiting |-> FALSE, exited |-> FALSE, channel |-> c]]
  /\ last' = IF s = last THEN last + 1 ELSE last

\* What a failure leaves in the slot: socketpair() fails and the channel keeps
\* its value, or a later call fails and the slot keeps the numbers of a
\* channel that was closed again.
SpawnFails(s, own, table) ==
  /\ failures < MaxFailures
  /\ failures' = failures + 1
  /\ \E c \in {table[s].channel, FreePair(own)} :
       processes' = [table EXCEPT ![s].channel = c]
  /\ owner' = own
  /\ UNCHANGED <<last, children>>

\* One turn of the loops that start processes.  Their failures are ignored.
StartNext ==
  /\ pc = "start" /\ todo # <<>>
  /\ todo' = Tail(todo)
  /\ \/ /\ FreeSlot < MaxProcesses
        /\ NewEntry(FreeSlot, Head(todo)[1], Head(todo)[2], FreePair(owner))
        /\ owner' = [owner EXCEPT ![FreePair(owner)] = nextPid]
        /\ Fork
        /\ UNCHANGED failures
     \/ FreeSlot < MaxProcesses /\ SpawnFails(FreeSlot, owner, processes)
     \/ /\ FreeSlot = MaxProcesses /\ failures' = failures + 1
        /\ UNCHANGED <<processes, last, owner, children>>
  /\ UNCHANGED <<pc, slot, flags, alive, master, pending, then, env, sent, crashes,
                 fatals>>

-----------------------------------------------------------------------------
(* ngx_signal_worker_processes().                                          *)

Told(s) == s < last /\ ~processes[s].detached /\ processes[s].pid # NoPid

\* Mutant of Targets: just_spawn does not protect a process.
TargetsAll(sig) == {s \in Slots : Told(s) /\ ~(processes[s].exiting /\ sig = "quit")}

\* The entries a signal is sent to: not those a reload has just started, and
\* not twice a request to quit.
Targets(sig) == {s \in Slots : /\ Told(s) /\ ~processes[s].just_spawn
                               /\ ~(processes[s].exiting /\ sig = "quit")}

\* The channel is open, so the command is written to it; SIGKILL never is.
Written(s, sig) == /\ sig # "kill" /\ processes[s].channel # NoChannel
                   /\ owner[processes[s].channel] # NoPid

\* kill() fails with ESRCH: the process was waited for already.
NoSuchProcess(s, sig) == ~Written(s, sig) /\ os[processes[s].pid] = "gone"

\* Who gets it: the process at the other end of the channel, or the pid.
Receivers(sig) ==
  {IF Written(s, sig) THEN owner[processes[s].channel] ELSE processes[s].pid : s \in Targets(sig)}

\* flagged: the flags that are still set when it is called.
SignalWorkers(sig, flagged) ==
  LET killed == {p \in Receivers(sig) : sig = "kill" /\ Running(p)}
      lost == {s \in Targets(sig) : NoSuchProcess(s, sig)}
  IN  /\ processes' = [s \in Slots |->
           IF s \in lost THEN [processes[s] EXCEPT !.exited = TRUE, !.exiting = FALSE]
           ELSE IF s \in Targets(sig)
                THEN [processes[s] EXCEPT !.exiting = @ \/ sig # "reopen"]
           ELSE IF Told(s) THEN [processes[s] EXCEPT !.just_spawn = FALSE]
           ELSE processes[s]]
      /\ told' = [p \in Pids |-> IF p \in Receivers(sig) \ killed /\ Running(p)
                                 THEN told[p] \cup {sig} ELSE told[p]]
      /\ os' = [p \in Pids |-> IF p \in killed THEN "zombie" ELSE os[p]]
      /\ pending' = IF killed = {} THEN pending ELSE pending \cup {"CHLD"}
      /\ flags' = flagged \cup (IF lost = {} THEN {} ELSE {"reap"})
      /\ UNCHANGED <<gen, nextPid>>

-----------------------------------------------------------------------------
(* The loop of ngx_master_process_cycle().                                 *)

goto(where) == pc' = where
still == <<slot, last, alive, todo, then, owner>>

\* The processes were started at the beginning, or again beside a new binary.
Serve ==
  /\ pc = "start" /\ todo = <<>> /\ then = "serve"
  /\ goto("top")
  /\ UNCHANGED <<still, processes, flags, master, pending, children, bounds>>

\* The timer of the termination cycle is set before each wait.
Top ==
  /\ pc = "top" /\ goto("suspend")
  /\ LET rang == delay > 0 /\ "sigalrm" \in flags
     IN  /\ sigio' = IF rang THEN 0 ELSE sigio
         /\ delay' = IF rang THEN Min({2 * delay, 1600}) ELSE delay
         /\ flags' = IF rang THEN flags \ {"sigalrm"} ELSE flags
         /\ alarm' = (alarm \/ delay > 0)
  /\ UNCHANGED <<still, processes, newBinary, live, cycle, pidfile, pending, children, bounds>>

\* ngx_signal_handler() in the master.
FlagOf(sig) ==
  CASE sig = "HUP" -> {"reconfigure"} [] sig = "QUIT" -> {"quit"}
    [] sig = "TERM" -> {"terminate"} [] sig = "USR1" -> {"reopen"}
    [] sig = "USR2" -> IF newBinary > 0 THEN {} ELSE {"change_binary"}
    [] sig = "WINCH" -> {"noaccept"} [] sig = "CHLD" -> {"reap"}
    [] sig = "ALRM" -> {"sigalrm"} [] sig = "IO" -> {}

Dead(p) == os[p] \in {"zombie", "fatal"}

\* Mutant of GetStatus: one SIGCHLD, one waitpid().
GetStatusOnce ==
  LET d == Min({p \in Pids : Dead(p)})
  IN  /\ os' = [os EXCEPT ![d] = "gone"]
      /\ processes' = [s \in Slots |-> IF processes[s].pid = d
                                       THEN [processes[s] EXCEPT !.exited = TRUE] ELSE processes[s]]

\* ngx_process_get_status(): every dead child is waited for, and a child that
\* exited with the code 2 is not to be respawned.
GetStatus ==
  /\ os' = [p \in Pids |-> IF Dead(p) THEN "gone" ELSE os[p]]
  /\ processes' = [s \in Slots |->
       LET r == processes[s]
       IN  IF s < last /\ r.pid # NoPid /\ Dead(r.pid)
           THEN [r EXCEPT !.exited = TRUE, !.respawn = @ /\ os[r.pid] # "fatal"]
           ELSE r]

\* sigsuspend() returns after the handlers of the pending signals have run.
Suspend ==
  /\ pc = "suspend" /\ pending # {}
  /\ pending' = {}
  /\ flags' = (flags \cup UNION {FlagOf(sig) : sig \in pending}) \ {"reap"}
  /\ IF "CHLD" \in pending THEN GetStatus ELSE UNCHANGED <<os, processes>>
  /\ goto(IF "CHLD" \in pending \/ "reap" \in flags THEN "reap" ELSE "exit")
  /\ slot' = 0 /\ alive' = FALSE
  /\ UNCHANGED <<last, todo, then, owner, master, told, gen, nextPid, bounds>>

\* Mutant of ReapNothing: only a child that is exiting keeps the master alive.
ReapNothingIdle ==
  /\ pc = "reap" /\ slot < last
  /\ processes[slot].pid = NoPid \/ ~processes[slot].exited
  /\ alive' = (alive \/ (processes[slot].pid # NoPid /\ processes[slot].exiting))
  /\ slot' = slot + 1
  /\ UNCHANGED <<pc, processes, last, flags, master, pending, todo, then, owner, children, bounds>>

\* ngx_reap_children() at an entry that is free, or whose process runs.
ReapNothing ==
  /\ pc = "reap" /\ slot < last
  /\ LET r == processes[slot]
     IN  /\ r.pid = NoPid \/ ~r.exited
         /\ alive' = (alive \/ (r.pid # NoPid /\ (r.exiting \/ ~r.detached)))
  /\ slot' = slot + 1
  /\ UNCHANGED <<pc, processes, last, flags, master, pending, todo, then, owner, children, bounds>>

\* The table and the channels once the channel of a dead child is closed,
\* whoever has that channel now.
Closed(s) == IF processes[s].detached THEN processes
             ELSE [processes EXCEPT ![s].channel = NoChannel]
OwnerClosed(s) == IF processes[s].detached \/ processes[s].channel = NoChannel THEN owner
                  ELSE [owner EXCEPT ![processes[s].channel] = NoPid]

\* A child is respawned unless it was told to exit or the master stops.
Respawns(r) == r.respawn /\ ~r.exiting /\ flags \cap {"terminate", "quit"} = {}

\* A child that died is respawned in its slot; the other fields of the entry
\* stay as they are.  When that fails the entry stays exited.
ReapRespawn ==
  /\ pc = "reap" /\ slot < last
  /\ processes[slot].pid # NoPid /\ processes[slot].exited /\ Respawns(processes[slot])
  /\ slot' = slot + 1
  /\ LET c == FreePair(OwnerClosed(slot))
     IN  \/ /\ processes' = [processes EXCEPT ![slot].pid = nextPid, ![slot].exited = FALSE,
                                              ![slot].channel = c]
            /\ owner' = [OwnerClosed(slot) EXCEPT ![c] = nextPid]
            /\ alive' = TRUE
            /\ Fork
            /\ UNCHANGED <<last, failures>>
         \/ SpawnFails(slot, OwnerClosed(slot), Closed(slot)) /\ UNCHANGED alive
  /\ UNCHANGED <<pc, flags, master, pending, todo, then, env, sent, crashes, fatals>>

\* A child that died and is not respawned leaves the table.  If it was the new
\* binary, the pid file gets its name back and the workers are restarted if
\* they had been shut down.
ReapRemove ==
  /\ pc = "reap" /\ slot < last
  /\ LET r == processes[slot]
         binary == r.pid = newBinary
     IN  /\ r.pid # NoPid /\ r.exited /\ ~Respawns(r)
         /\ pidfile' = IF binary THEN "pid" ELSE pidfile
         /\ newBinary' = IF binary THEN 0 ELSE newBinary
         /\ flags' = IF binary /\ "noaccepting" \in flags
                     THEN (flags \ {"noaccepting"}) \cup {"restart"} ELSE flags
         /\ last' = IF slot = last - 1 THEN last - 1 ELSE last
         /\ processes' = IF slot = last - 1 THEN Closed(slot)
                         ELSE [Closed(slot) EXCEPT ![slot].pid = NoPid]
  /\ owner' = OwnerClosed(slot)
  /\ slot' = slot + 1
  /\ UNCHANGED <<pc, alive, live, delay, sigio, alarm, cycle, pending, todo, then,
                 children, bounds>>

ReapDone ==
  /\ pc = "reap" /\ slot >= last
  /\ live' = alive
  /\ goto("exit")
  /\ UNCHANGED <<still, processes, flags, newBinary, delay, sigio, alarm, cycle, pidfile,
                 pending, children, bounds>>

Stopping == flags \cap {"terminate", "quit"} # {}

\* ngx_master_process_exit(), which removes the pid file under the name it
\* expects it to have.
Exit ==
  /\ pc = "exit" /\ ~live /\ Stopping
  /\ goto("exited")
  /\ pidfile' = IF pidfile = (IF newBinary # 0 THEN "oldpid" ELSE "pid") THEN "none" ELSE pidfile
  /\ UNCHANGED <<still, processes, flags, newBinary, live, delay, sigio, alarm, cycle,
                 pending, children, bounds>>

DoNotExit ==
  /\ pc = "exit" /\ (live \/ ~Stopping)
  /\ goto(CASE "terminate" \in flags -> "terminate" [] "quit" \in flags /\ "terminate" \notin flags -> "quit"
            [] OTHER -> "reconfigure")
  /\ UNCHANGED <<still, processes, flags, master, pending, children, bounds>>

\* The termination cycle counts wake-ups down before it signals again.
TerminateCount ==
  /\ pc = "terminate" /\ sigio > 0
  /\ sigio' = sigio - 1
  /\ delay' = IF delay = 0 THEN 50 ELSE delay
  /\ goto("top")
  /\ UNCHANGED <<still, processes, flags, newBinary, live, alarm, cycle, pidfile, pending,
                 children, bounds>>

\* Mutant of Terminate: one wake-up too many is waited for.
TerminateLater ==
  /\ pc = "terminate" /\ sigio = 0
  /\ delay' = IF delay = 0 THEN 50 ELSE delay
  /\ sigio' = WorkerProcesses + 3
  /\ SignalWorkers(IF delay > 1000 THEN "kill" ELSE "terminate", flags)
  /\ goto("top")
  /\ UNCHANGED <<still, newBinary, live, alarm, cycle, pidfile, bounds>>

\* Mutant of Terminate: SIGKILL is never used.
TerminateGently ==
  /\ pc = "terminate" /\ sigio = 0
  /\ delay' = IF delay = 0 THEN 50 ELSE delay
  /\ sigio' = WorkerProcesses + 2
  /\ SignalWorkers("terminate", flags)
  /\ goto("top")
  /\ UNCHANGED <<still, newBinary, live, alarm, cycle, pidfile, bounds>>

Terminate ==
  /\ pc = "terminate" /\ sigio = 0
  /\ delay' = IF delay = 0 THEN 50 ELSE delay
  /\ sigio' = WorkerProcesses + 2
  /\ SignalWorkers(IF delay > 1000 THEN "kill" ELSE "terminate", flags)
  /\ goto("top")
  /\ UNCHANGED <<still, newBinary, live, alarm, cycle, pidfile, bounds>>

\* Graceful shutdown; the listening sockets are closed too.
Quit ==
  /\ pc = "quit"
  /\ SignalWorkers("quit", flags)
  /\ goto("top")
  /\ UNCHANGED <<still, master, bounds>>

\* SIGHUP while ngx_new_binary is set: more workers, no new configuration.
ReconfigureBesideNewBinary ==
  /\ pc = "reconfigure" /\ "reconfigure" \in flags /\ newBinary # 0
  /\ flags' = flags \ {"reconfigure", "noaccepting"}
  /\ todo' = Starting(FALSE) /\ then' = "serve"
  /\ goto("start")
  /\ UNCHANGED <<slot, processes, last, alive, owner, master, pending, children, bounds>>

\* SIGHUP: ngx_init_cycle() reads the configuration, which may fail.
Reconfigure ==
  /\ pc = "reconfigure" /\ "reconfigure" \in flags /\ newBinary = 0
  /\ flags' = flags \ {"reconfigure"}
  /\ \/ cycle' = cycle + 1 /\ todo' = Starting(TRUE) /\ then' = "reload" /\ goto("start")
     \/ goto("top") /\ UNCHANGED <<cycle, todo, then>>
  /\ UNCHANGED <<slot, processes, last, alive, owner, newBinary, live, delay, sigio, alarm,
                 pidfile, pending, children, bounds>>

\* After the start of the new processes the old ones are told to quit.
Reload ==
  /\ pc = "start" /\ todo = <<>> /\ then = "reload"
  /\ live' = TRUE
  /\ SignalWorkers("quit", flags)
  /\ goto("restart")
  /\ UNCHANGED <<still, newBinary, delay, sigio, alarm, cycle, pidfile, bounds>>

DoNotReconfigure ==
  /\ pc = "reconfigure" /\ "reconfigure" \notin flags
  /\ goto("restart")
  /\ UNCHANGED <<still, processes, flags, master, pending, children, bounds>>

\* The new binary exited after the workers were shut down.
Restart ==
  /\ pc = "restart"
  /\ IF "restart" \in flags
     THEN goto("start") /\ todo' = Starting(FALSE) /\ then' = "restarted"
     ELSE goto("reopen") /\ UNCHANGED <<todo, then>>
  /\ flags' = flags \ {"restart"}
  /\ UNCHANGED <<slot, processes, last, alive, owner, master, pending, children, bounds>>

Restarted ==
  /\ pc = "start" /\ todo = <<>> /\ then = "restarted"
  /\ live' = TRUE
  /\ goto("reopen")
  /\ UNCHANGED <<still, processes, flags, newBinary, delay, sigio, alarm, cycle, pidfile,
                 pending, children, bounds>>

Reopen ==
  /\ pc = "reopen"
  /\ IF "reopen" \in flags THEN SignalWorkers("reopen", flags \ {"reopen"})
     ELSE UNCHANGED <<processes, flags, pending, children>>
  /\ goto("change_binary")
  /\ UNCHANGED <<still, master, bounds>>

\* ngx_exec_new_binary(): the pid file is renamed, the new binary is spawned
\* detached; when a step fails the name is restored.
ChangeBinary ==
  /\ pc = "change_binary" /\ "change_binary" \in flags
  /\ flags' = flags \ {"change_binary"}
  /\ \/ /\ FreeSlot < MaxProcesses
        /\ NewEntry(FreeSlot, "binary", "detached", NoChannel)
        /\ Fork
        /\ newBinary' = nextPid /\ pidfile' = "oldpid"
        /\ UNCHANGED failures
     \/ /\ failures < MaxFailures \/ FreeSlot = MaxProcesses
        /\ failures' = failures + 1
        /\ newBinary' = NoPid
        /\ UNCHANGED <<processes, last, pidfile, children>>
  /\ goto("noaccept")
  /\ UNCHANGED <<slot, alive, todo, then, owner, live, delay, sigio, alarm, cycle, pending,
                 env, sent, crashes, fatals>>

DoNotChangeBinary ==
  /\ pc = "change_binary" /\ "change_binary" \notin flags
  /\ goto("noaccept")
  /\ UNCHANGED <<still, processes, flags, master, pending, children, bounds>>

\* SIGWINCH: the workers are shut down, the master stays.
NoAccept ==
  /\ pc = "noaccept"
  /\ IF "noaccept" \in flags
     THEN SignalWorkers("quit", (flags \ {"noaccept"}) \cup {"noaccepting"})
     ELSE UNCHANGED <<processes, flags, pending, children>>
  /\ goto("top")
  /\ UNCHANGED <<still, master, bounds>>

-----------------------------------------------------------------------------
(* The administrator, the timer and the children.                          *)

outside == <<env, pc, slot, processes, last, flags, alive, newBinary, live, delay, sigio, cycle,
             pidfile, todo, then, owner, gen, nextPid, failures>>

\* Blocked signals only become pending, which is not seen before sigsuspend():
\* it makes no difference to send them no earlier than that.
Send(sig) ==
  /\ pc = "suspend" /\ sent < MaxSignals
  /\ sent' = sent + 1
  /\ pending' = pending \cup {sig}
  /\ UNCHANGED <<outside, alarm, os, told, crashes, fatals>>

Alarm ==
  /\ pc = "suspend" /\ alarm
  /\ alarm' = FALSE
  /\ pending' = pending \cup {"ALRM"}
  /\ UNCHANGED <<outside, os, told, sent, crashes, fatals>>

\* What the slot of the child was given to run.
KindOf(p) == LET s == CHOOSE s \in Slots : processes[s].pid = p IN processes[s].kind

\* A child reads its channel, or its signal handler ran.  Reading makes room
\* in the channel, which raises SIGIO in the master.  A worker that was told
\* to quit serves its connections first; a cache process just exits.
JustExits(p) == KindOf(p) # "worker"

ChildTurn(p) ==
  /\ pc # "exited" /\ Running(p) /\ told[p] # {}
  /\ LET exits == "terminate" \in told[p] \/ ("quit" \in told[p] /\ JustExits(p))
     IN  /\ os' = [os EXCEPT ![p] = IF exits THEN "zombie"
                                    ELSE IF "quit" \in told[p] THEN "draining" ELSE @]
         /\ pending' = pending \cup (IF exits THEN {"IO", "CHLD"} ELSE {"IO"})
  /\ told' = [told EXCEPT ![p] = {}]
  /\ UNCHANGED <<outside, alarm, sent, crashes, fatals>>

\* A worker that is exiting ends once it has no timers left.
Drained(p) == os[p] = "draining"

\* A drained worker ends, a cache loader has loaded, or the new binary, which is
\* no child of this configuration, exits.
ChildEnds(p) ==
  /\ pc # "exited" /\ Running(p)
  /\ Drained(p) \/ KindOf(p) \in {"loader", "binary"}
  /\ os' = [os EXCEPT ![p] = "zombie"]
  /\ pending' = pending \cup {"CHLD"}
  /\ UNCHANGED <<outside, alarm, told, sent, crashes, fatals>>

\* A child is killed, or exits with the fatal code 2, as when a module cannot
\* be initialised in it.
Crash(p) ==
  /\ pc # "exited" /\ Running(p) /\ crashes < MaxCrashes
  /\ crashes' = crashes + 1
  /\ \E how \in {"zombie", "fatal"} :
       /\ os' = [os EXCEPT ![p] = how]
       /\ fatals' = IF how = "fatal" THEN fatals + 1 ELSE fatals
  /\ pending' = pending \cup {"CHLD"}
  /\ UNCHANGED <<outside, alarm, told, sent>>

MasterStep ==
  \/ StartNext \/ Serve \/ Top \/ Suspend
  \/ ReapNothing \/ ReapRespawn \/ ReapRemove \/ ReapDone
  \/ Exit \/ DoNotExit \/ TerminateCount \/ Terminate \/ Quit
  \/ ReconfigureBesideNewBinary \/ Reconfigure \/ Reload \/ DoNotReconfigure
  \/ Restart \/ Restarted \/ Reopen \/ ChangeBinary \/ DoNotChangeBinary \/ NoAccept

Next ==
  \/ MasterStep \/ Alarm
  \/ \E sig \in env.signals : Send(sig)
  \/ \E p \in Pids : ChildTurn(p) \/ ChildEnds(p) \/ Crash(p)

Spec == Init /\ [][Next]_vars

\* The master runs and its timer rings.  In an environment where children do
\* as they are told, a worker handles its commands and serves its connections
\* to the end.
FairSpec ==
  /\ Spec /\ WF_vars(MasterStep) /\ WF_vars(Alarm)
  /\ \A p \in Pids : /\ WF_vars(env.obedient /\ ChildTurn(p))
                     /\ WF_vars(env.obedient /\ os[p] = "draining" /\ ChildEnds(p))

-----------------------------------------------------------------------------
(* Properties.                                                             *)

\* Every child that is not waited for is in exactly one used slot of
\* ngx_processes[], whatever slots were freed, reused or cut off.
ChildrenTracked ==
  \A p \in Pids : Running(p) \/ Dead(p) =>
    Cardinality({s \in 0..(last - 1) : processes[s].pid = p}) = 1

\* The master exits only after all its children but a new binary: "live" is
\* a value of the last ngx_reap_children() and must not be stale.
NoOrphans == pc = "exited" => \A p \in Pids : Running(p) => KindOf(p) = "binary"

Kept == {s \in 0..(last - 1) : /\ processes[s].kind = "worker" /\ processes[s].pid # NoPid
                               /\ ~processes[s].exiting}

\* Between signals, unless it is stopping or was told to stop accepting, a
\* master keeps worker_processes workers, one that died and is about to be
\* respawned counted; except after a fatal exit or a failed fork(), or while
\* the restart after the exit of a new binary is left to the next wake-up
\* because a reload failed in between.
ServiceKept ==
  pc = "suspend" /\ flags \cap {"quit", "terminate", "noaccepting", "restart"} = {}
                 /\ fatals + failures = 0
    => Cardinality(Kept) >= WorkerProcesses

\* After a reload each child of an older configuration is told to exit, and
\* the word has reached that child, not another one.
OldGenerationTold ==
  pc = "suspend" => \A s \in 0..(last - 1) :
    LET p == processes[s].pid
    IN  p # NoPid /\ ~processes[s].detached /\ Running(p) /\ gen[p] < cycle
          => processes[s].exiting /\ (os[p] = "draining" \/ told[p] \cap {"quit", "terminate"} # {})

\* SIGTERM ends the master even if the children ignore it: SIGKILL follows.
\* Executions in which a fork failed are left out: with no child at all live
\* stays set and the master waits for a SIGCHLD.
StopExits == ("terminate" \in flags /\ failures = 0) ~> (pc = "exited")

\* SIGQUIT ends the master when the workers finish their connections, with
\* the same exception.
QuitExits == ("quit" \in flags /\ env.obedient /\ failures = 0) ~> (pc = "exited")
=============================================================================
