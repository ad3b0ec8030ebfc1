\* Edits, removals, reloads and control calls, with starts and stops that fail.
SPECIFICATION Spec
CONSTANTS
    Names <- MCNames
    Sups <- MCSups
    Defs <- MCDefs
    Configs <- MCConfigs
    Edits <- MCEdits
    MaxOps = 3
    MaxFaults = 2
INVARIANTS
    OrphansExplained
    Agreement
PROPERTIES
    DependentsStopFirst
CHECK_DEADLOCK FALSE
