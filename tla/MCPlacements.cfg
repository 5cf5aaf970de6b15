SPECIFICATION Spec
CONSTANTS
    LegIds <- MCLegIds
    LegOrder <- MCLegOrder
    BucketNames = {"x", "y"}
    MaxHash = 3
    MaxDepth = 1
    MaxLegs = 3
    MaxPrefixRules = 1
    Taken <- MCTaken
    DefaultName = "x"
    Requests <- MCRequests
    Accepts = {FALSE}
    MaxShare = 1
    PartOfRename = FALSE
INVARIANTS WellFormed KeysReachable HeldCompletes
PROPERTIES HomeMovesHeld
