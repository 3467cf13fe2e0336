SPECIFICATION Spec
CONSTANTS
    ScoreOne = 1
    DecayOne = 1
    InitialScore = 1
    Concerns = {c1}
    Callers = {t1, t2}
    Weavers = {w1}
    HostRecords <- MCFreshOnly
    Deltas = {1}
    MaxActivations = 1
    Absent = Absent
    Idle = Idle
SYMMETRY CallerSymmetry
INVARIANTS ActivationCoherent ArchiveReachesDcn
