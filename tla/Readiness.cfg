\* All processes tracked: changes during a pass, file-system failures, shutdown.
SPECIFICATION FairReadinessSpec
CONSTANTS
    Procs <- MCProcs
    Checked <- MCChecked
    Oneshots <- MCOneshots
    Listed <- MCListed
    Modes <- MCModes
    MaxChanges = 3
    MaxFaults = 2
INVARIANT FileNeverLies
PROPERTY StateIsReported
CHECK_DEADLOCK FALSE
