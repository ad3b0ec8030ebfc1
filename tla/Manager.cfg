\* Boot, deaths, control calls and shutdown interleaved.
SPECIFICATION FairSpec
CONSTANTS
    Procs <- MCProcs
    Setups <- MCSetups
    QueueCap = 1
INVARIANTS
    StartsAfterDependencies
    DependentsStopFirst
    ExitIsRight
PROPERTIES
    SignalIsObeyed
    NoEmptyShell
