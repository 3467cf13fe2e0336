SPECIFICATION CliSpec
CONSTANTS
    i1 = i1
    i2 = i2
    p1 = p1
    p2 = p2
    t1 = t1
    t2 = t2
    Instances = {i1, i2}
    Pids = {p1, p2}
    PidOf <- MCPidOf
    NoFile = NoFile
    Terminals = {t1, t2}
    Scripts <- MCScripts
    Requests <- MCRequests
    Shell <- MCShell
INVARIANTS
    OwnerIsAdvertised
    ServingIsAdvertised
    LeftoverExplained
    ConfiguredIsServed
PROPERTIES
    StaleNeverBlocks
    DownMeansStopped
    CommandsReturn
