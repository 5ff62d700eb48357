--------------------------- MODULE MCProcessCycle ---------------------------
(* Instances of ProcessCycle for TLC.                                      *)
EXTENDS ProcessCycle, TLC

Small == [workers |-> 1, manager |-> FALSE, loader |-> FALSE, table |-> 5, signals |-> {},
          maxSignals |-> 2, maxCrashes |-> 0, maxFailures |-> 0, obedient |-> TRUE]

\* Workers are reloaded, and may die.
Reloads == [Small EXCEPT !.workers = 2, !.table = 6, !.signals = {"HUP"}, !.maxCrashes = 1]

\* Two workers are shut down, perhaps while a reload is under way.
Shutdown == [Small EXCEPT !.workers = 2, !.table = 4, !.signals = {"HUP", "QUIT"}]

\* The binary is replaced; the old master may then be stopped or kept.
Upgrade == [Small EXCEPT !.signals = {"USR2", "WINCH", "QUIT"}, !.maxSignals = 3,
                         !.maxFailures = 1]

\* The old master gets SIGHUP while the new binary runs, and is shut down.
Beside == [Small EXCEPT !.signals = {"USR2", "HUP", "QUIT"}, !.maxSignals = 3]

\* fork() or socketpair() fails, and the table may be full.
Failures == [Small EXCEPT !.workers = 2, !.table = 3, !.signals = {"HUP", "TERM"},
                          !.maxSignals = 1, !.maxCrashes = 1, !.maxFailures = 1, !.obedient = FALSE]

\* Children ignore the command to exit.
Stubborn == [Small EXCEPT !.manager = TRUE, !.loader = TRUE, !.table = 4, !.signals = {"TERM"},
                          !.maxSignals = 1, !.maxCrashes = 1, !.obedient = FALSE]

\* Workers die while the master reloads or shuts down.
Dying == [Small EXCEPT !.signals = {"HUP", "QUIT", "USR1"}, !.maxCrashes = 2]

AllEnvironments == {Reloads, Shutdown, Upgrade, Beside, Failures, Stubborn, Dying}

\* All signals that take part in an upgrade: the old workers are shut down and
\* started again.
UpgradeUndone ==
  {[Small EXCEPT !.signals = {"HUP", "WINCH", "USR2", "TERM"}, !.maxSignals = 4]}

\* A worker cannot be respawned, others die, and the configuration is reloaded.
RespawnFails ==
  {[Small EXCEPT !.workers = 2, !.signals = {"HUP"}, !.maxSignals = 1, !.maxCrashes = 3,
                 !.maxFailures = 1]}
=============================================================================
