SPECIFICATION FairSpec
CONSTANT Environments <- AllEnvironments
CHECK_DEADLOCK FALSE
INVARIANTS TypeOK ChildrenTracked NoOrphans ServiceKept OldGenerationTold
PROPERTIES StopExits QuitExits
