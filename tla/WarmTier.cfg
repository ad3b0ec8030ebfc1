\* Two connections, a silent or failing agent, a workload that crashes.
SPECIFICATION FairSpec
CONSTANTS
    c1 = c1
    c2 = c2
    Conns <- MCConns
    Requested = {FALSE}
    MaxObj = 2
    MaxRestores = 1
    MaxFailures = 1
INVARIANTS
    NoTrafficIntoDump
    OneTree
    RestIsConsistent
PROPERTY NobodyWaits
