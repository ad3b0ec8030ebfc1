SPECIFICATION Spec
CONSTANTS
    Containers <- MCContainers
    Asks <- MCAsks
    Registered <- MCRegistered
    Resized <- MCResized
    MaxBoots = 2
INVARIANTS
    PoolFits
    RefusedForCause
    EngineFits
    WorkersGrow
CHECK_DEADLOCK FALSE
