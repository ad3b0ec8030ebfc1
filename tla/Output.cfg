\* One instance's output, a descendant that outlives it, a late timer and a
\* slow subscriber.
SPECIFICATION FairOutputSpec
CONSTANTS
    StreamOrder <- MCOrder
    Kinds <- MCKinds
    Object <- MCObject
    Braced = {"json"}
    Reserved <- MCReserved
    Configs <- MCConfigs
    MaxPartial = 1
    MaxStored = 1
    RingSize = 2
    ChannelSize = 1
INVARIANTS
    Conservation
    CrashOutputLogged
    LogIsReadable
PROPERTY LineIsLogged
\* The instance has exited, its output is out and nobody listens.
CHECK_DEADLOCK FALSE
