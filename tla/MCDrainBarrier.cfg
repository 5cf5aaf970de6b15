SPECIFICATION Spec
CONSTANTS
    Proxies = {p1}
    Members = {p1}
    Kinds = {"step"}
    Faults = {"stop", "expire"}
    MaxVersion = 3
    MaxOps = 1
    MaxInc = 2
    MaxDelayed = 1
INVARIANTS OneRule NoneBehindHold ServerBlocks
CHECK_DEADLOCK FALSE
