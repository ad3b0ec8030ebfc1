\* Probes, restarts, checkpoints and a waiting dependent interleaved.
SPECIFICATION FairSpec
CONSTANTS
    FailureThreshold = 2
    SuccessThreshold = 1
    MaxRestarts = 1
    Setups <- MCSetups
PROPERTIES
    KillIsEarned
    NoStaleRelease
    ProbesAct
