SPECIFICATION Spec
CONSTANTS
    Nodes = {n1, n2}
    Operations = {"ramp", "remove"}
    Scope <- MCScope
    Clusters <- MCClusters
    Fenced = {"ramp"}
    Key <- MCKey
    Aged = {"remove"}
    Capacity = 2
    Retention = 1
    MaxSeq = 6
    MaxTerm = 1
    MaxCrashes = 1
    Faults = {"cancelcrash"}
INVARIANTS ScopesExclusive OneRunner  
SYMMETRY NodeSymmetry
CHECK_DEADLOCK FALSE
