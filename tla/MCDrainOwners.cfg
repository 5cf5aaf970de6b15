SPECIFICATION Spec
CONSTANTS
    Proxies = {p1}
    Members = {p1}
    Kinds = {"step", "cutover", "readonly"}
    Faults = {"owner"}
    MaxVersion = 4
    MaxOps = 2
    MaxInc = 1
    MaxDelayed = 1
INVARIANT NoRuleReturns
PROPERTY HoldStands
CHECK_DEADLOCK FALSE
