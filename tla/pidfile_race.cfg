SPECIFICATION Spec
CONSTANTS
    i1 = i1
    i2 = i2
    i3 = i3
    p1 = p1
    p2 = p2
    Instances = {i1, i2}
    Pids = {p1, p2}
    PidOf <- MCPidOf
    NoFile = NoFile
INVARIANT AtMostOneOwner
