\* A conditional copy of an object that is copied by parts.
SPECIFICATION PathSpec
CONSTANTS
    Requests = {"copy"}
    Ops = {a, b}
    Kinds = {"put", "create", "update", "delete", "upload"}
    CondWrite = TRUE
    CondDelete = TRUE
    MaxPasses = 2
    Faults = {}
    Legs = {"a", "b"}
    From = "a"
    To = "b"
    Names = {1, 2, 3, 4}
    Prefixes = {2}
    Contents <- Some
    Owners <- Tables
    ListKinds = {"merge", "v2", "v1"}
    MaxKeys = 2
    PageSize = 1
    MoveEnds = {}
    MaxWrites = 1
    MaxFails = 1
    DeleteLegs <- ThreeLegs
    MoveTo = "b"
    Objects = {"x", "y", "z", "w"}
    OwnedBy <- LegOf
    Moved = {"x"}
    Situations = {"clear", "read_only", "held", "source_closed", "bad_body"}
    MaxBadLegs = 1
    Layouts <- SomeLayouts
    CopyOps = {"copy", "part"}
    Conds = {"none", "create"}
    CondParts = TRUE
    CopyFaults = {"unreached", "refused", "cut"}
    MaxFaults = 2
    MaxChanges = 2
INVARIANT CopyCreatesOnce
CHECK_DEADLOCK FALSE
