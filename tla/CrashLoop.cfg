\* Every policy and budget over the default backoff settings, 66 restarts deep.
SPECIFICATION LoopSpec
CONSTANTS
    Attempts <- MCAttempts
    Initials <- MCInitials
    Ceilings <- MCCeilings
    Windows <- MCWindows
    CountBound <- MCBound
INVARIANT BackoffIsBounded
PROPERTY BudgetIsExact
\* An abandoned instance stays abandoned: the loop really ends.
CHECK_DEADLOCK FALSE
