SPECIFICATION Spec
CONSTANTS
    Machines = {"provisioning"}
    None = None
    a1 = a1 a2 = a2 a3 = a3 f1 = f1 f2 = f2 g1 = g1 g2 = g2 unbound = unbound
    Uris = {f1, f2}
    Contents <- OneAndTwo
    MaxDocuments = 2
    MaxOpenBytes = 2
    MaxVersion = 2
    MaxPushes = 1
    MaxPrepared = 3
    Waiters = {a1, a2, a3}
    MaxWork = 3
    Paths = {1, 2}
    Sizes = {1, 2, 3, 5}
    Binary = 3
    MaxFiles = 2
    MaxBytes = 3
    MaxFileBytes = 3
    MaxWrites = 3
    Stores = {a1, a2}
    Fingerprints = {g1, g2}
    RetainedGenerations = 1
    MaxDiskSize = 3
    AutoStores = {a2}
    Callers = {a1, a2}
    MaxId = 4
    MaxSpawns = 3
    MaxJobs = 1
    CacheEntries = 2
    CacheBytes = 2
    MaxAsked = 3
    Runtimes = {"postgresql", "typescript"}
    MaxFaults = 1
    Backends = {"pipe", "once", "web", "head"}
    Config <- BackendConfig
    Setups <- CallsAndProbes
    Fronts = {a1, a2}
    Rejections = {0, 2}
    MaxInspected = 2
    MaxChanges = 1
    Hosts = {"codex", "guide", "claude", "toml"}
    Initially <- UserFiles
    Plan <- CommandPlan
    Route <- FileRoute
    MaxApplies = 2
    MaxAborts = 1
    Pagers = {a1, a2}
    Query <- OwnQueries
    Tool <- OwnTools
    Required = {"q2"}
    Limit = 2
    Totals = {0, 4}
    RowBytes <- FourRows
    TargetBytes = 2
    MaxPageBytes = 4
    TtlTicks = 1
    MaxStates = 1
    MaxRevision = 3
    MaxClock = 1
    MaxEpoch = 2
    MaxStarts = 3
    Clients = {a1}
    Workspaces = {f1, f2}
    BatchLimit = 2
INVARIANT RevertRestoresEverything
CHECK_DEADLOCK FALSE
