\* The migration of a key, the listings, deletes and copies, without the faults.
SPECIFICATION PathSpec
CONSTANTS
    Requests = {"migrate", "list", "delete", "copy"}
    Ops = {a, b}
    Kinds = {"put", "create", "update", "delete", "upload"}
    CondWrite = TRUE
    CondDelete = TRUE
    MaxPasses = 2
    Faults = {}
    Legs = {"a", "b"}
    From = "a"
    To = "b"
    Names = {1, 2, 3, 4}
    Prefixes = {2}
    Contents <- Some
    Owners <- Tables
    ListKinds = {"merge", "v2", "v1"}
    MaxKeys = 2
    PageSize = 1
    MoveEnds = {}
    MaxWrites = 2
    MaxFails = 1
    DeleteLegs <- ThreeLegs
    MoveTo = "b"
    Objects = {"x", "y", "z", "w"}
    OwnedBy <- LegOf
    Moved = {"x"}
    Situations = {"clear", "read_only", "held", "source_closed", "bad_body"}
    MaxBadLegs = 1
    Layouts <- SomeLayouts
    CopyOps = {"copy", "part"}
    Conds = {"none", "create"}
    CondParts = FALSE
    CopyFaults = {"unreached", "refused", "cut"}
    MaxFaults = 2
    MaxChanges = 2
SYMMETRY OpSymmetry
INVARIANTS  ReadCurrent ConditionalOnce 
INVARIANTS ListingExact DeleteAnswered CopyAnswered
CHECK_DEADLOCK FALSE
