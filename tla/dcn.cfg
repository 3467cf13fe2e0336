SPECIFICATION SSpec
CONSTANTS
    Ids = {a, b, c}
    Rels = {activates}
    WeightOne = 1
    NodeStates = {"archived"}
    Absent = Absent
    MaxHits = 2
    MaxSeq = 3
    MaxLogSeq = 2
    MaxEdges = 3
SYMMETRY IdSymmetry
INVARIANTS
    NoDanglingReference
PROPERTIES
    ImplementsMemory
    ImplementsGraph
