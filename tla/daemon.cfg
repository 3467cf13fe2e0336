SPECIFICATION FairSpec
CONSTANTS
    Callers = {t1, t2}
    Requests = {r1}
    Calls = {"start", "stop", "reload"}
    MaxStarts = 2
    MaxRuntimes = 3
    NoOne = NoOne
INVARIANTS
    ServedRuntimeIsOpen
    OnlyCurrentIsOpen
    OpenOnlyUnderPid
    NoOrphanHeartbeat
PROPERTIES
    MethodsReturn
CHECK_DEADLOCK FALSE
