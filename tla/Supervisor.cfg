\* Restarts, scaling and stops interleaved, three instance objects.
SPECIFICATION FairSpec
CONSTANTS
    MaxObj = 3
    MaxScale = 2
    MaxAttempts = 1
    Setups <- MCSetups
    Calls <- MCCalls
INVARIANTS
    StopIsTruthful
    ClaimedNeverRestarts
    LiveLooksLive
    NoOrphansWithoutRestarts
PROPERTY OperationsEnd
