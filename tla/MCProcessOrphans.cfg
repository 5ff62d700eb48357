SPECIFICATION Spec
CONSTANT Environments <- UpgradeUndone
CHECK_DEADLOCK FALSE
INVARIANT NoOrphans
