\* Every small configuration is ordered, or refused for a reason.
SPECIFICATION SortSpec
CONSTANT Tables <- MCTables
INVARIANTS
    DependenciesFirst
    ResultIsDetermined
\* The search ends: a result is a final state.
CHECK_DEADLOCK FALSE
