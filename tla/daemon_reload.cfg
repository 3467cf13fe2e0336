SPECIFICATION Spec
CONSTANTS
    Callers = {t1}
    Requests = {r1}
    Calls = {"start", "reload"}
    MaxStarts = 1
    MaxRuntimes = 2
    NoOne = NoOne
INVARIANT InFlightKeepsWorking
CHECK_DEADLOCK FALSE
