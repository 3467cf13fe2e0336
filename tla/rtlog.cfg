SPECIFICATION FairSpec
CONSTANTS
    Appenders = {a1}
    Consumers = {h1, h2}
    Limits = {1, 9}
    MaxLines = 3
    MaxCrashes = 2
    NoOne = NoOne
INVARIANTS
    Accounted
    NoReplay
PROPERTIES
    EventuallyApplied
