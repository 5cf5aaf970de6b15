\* What proxies and control nodes tell each other beside the routing, without the faults.
CONSTANTS
    Parts = {"lease", "incarnations", "quiet", "runtime", "telemetry", "events"}
    ControlNodes = {"n1", "n2"}
    GrantTTL = 1
    OwnTTL = 2
    DropMargin = 0
    MaxClock = 2
    MaxVersion = 2
    MaxSeq = 2
    MaxStarts = 2
    LeaseFaults = {}
    MaxIncarnations = 3
    MaxUnresolved = 1
    MaxPredecessors = 2
    MaxResolvedKept = 1
    MaxPosts = 2
    Watched = {"p1", "p2"}
    MaxReads = 1
    MaxReports = 4
    MaxRestarts = 1
    MaxWindows = 1
    QuietFaults = {}
    Requests = {"r1", "r2"}
    MaxHeld = 1
    MaxInstalls = 3
    MaxKeys = 2
    RuntimeFaults = {}
    Collectors = {"p1", "p2"}
    RingWindows = 2
    Remembered = 2
    MaxHalves = 9
    TelemetryFaults = {}
    Pages = {"u1", "u2"}
    RingSize = 2
    SubscriberBuffer = 1
    MaxEventStreams = 1
    MaxChanges = 4
    MaxEpochs = 2
    EventFaults = {}
SPECIFICATION FleetSpec
INVARIANTS  EvidenceKept    
CHECK_DEADLOCK FALSE
