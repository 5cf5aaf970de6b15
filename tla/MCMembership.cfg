\* Joins and removals, without the faults.
SPECIFICATION MemberSpec
CONSTANTS
    Controls = {n1, n2}
    Joiners = {j1}
    n1 = n1
    n2 = n2
    j1 = j1
    MaxMembers = 4
    MaxRecords = 2
    MaxTerms = 4
    MaxLost = 1
    MaxCrashes = 1
    MemberFaults = {}
INVARIANT JoinTrue
PROPERTIES VoterLeavesAsShown JoinSettles
CHECK_DEADLOCK FALSE
