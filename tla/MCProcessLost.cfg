SPECIFICATION Spec
CONSTANT Environments <- RespawnFails
CHECK_DEADLOCK FALSE
INVARIANT OldGenerationTold
