SPECIFICATION Spec
CONSTANTS
    Nodes = {n1, n2}
    Held = {"held"}
    Elsewhere = {"file1", "file2"}
    SecretFiles = {"file1", "file2"}
    Secrets = {"s1"}
    Values = {"p"}
    Buckets = {"b1"}
    StoreChanges = {"put", "create", "grant"}
    FileChanges = {"create", "remove"}
    OldDefs = {"env"}
    MaxWrites = 2
    MaxTries = 2
    MaxRestarts = 1
    Unreadable = FALSE
    Proxies = {"m"}
    MaxFlight = 2
    MaxBoots = 1
    Foreign <- OtherLineage
    MaxFileWrites = 3
    MaxKills = 1
    Backends = {"etcd", "members", "file"}
    Other = "other"
INVARIANT InstalledExact
PROPERTIES Implements MembersForward
SYMMETRY NodeSymmetry
CHECK_DEADLOCK FALSE
