SPECIFICATION SerialSpec
CONSTANTS
    ScoreOne = 2
    DecayOne = 1
    InitialScore = 1
    Concerns = {c1}
    Callers = {t1}
    Weavers = {}
    HostRecords <- MCHostRecords
    Deltas = {0, 1, 2}
    MaxActivations = 2
    Absent = Absent
    Idle = Idle
PROPERTIES ImplementsMachine
