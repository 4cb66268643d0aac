CONSTANT Scenes = {"schema", "lease", "capture", "watcher", "sessions", "companion", "control"}
CONSTANTS \* of the components
    SlProcs = {1, 2, 3, 4}
    SlSupported <- Releases
    SlAdopters = {3, 4}
    SlFound = 1
    SlMaxStarts = 5
    SeInstances = {"i1", "i2", "i3"}
    SeInteractive = {"i1", "i2"}
    SeSessions = {"s1"}
    SeMaxScans = 2
    CaProcs = {"p1", "p2"}
    CaMaxRequests = 4
    CaMaxFaults = 1
    WaFiles = {"f1", "f2"}
    WaDebounce = 2
    WaMaxTime = 4
    WaMaxWrites = 2
    HeTabs = {"A", "B"}
    HeSessions = {"s1"}
    HeNameOf <- SameName
    HeAgent <- TabAgents
    HeFresh = {"p1", "p2", "p3"}
    HeMaxToggles = 3
    HeMaxMoves = 4
    HeMaxFaults = 1
    CoClients = {c1, c2}
    CoRequests <- Mutations
    CoUndoable = 2
    CoMaxTries = 2
    CoMaxRuns = 3
    CoMaxStarts = 1
    CoMaxFaults = 1
    CoCapacity = 1
    CoLaneCapacity = 1
SYMMETRY Commands
SPECIFICATION Spec
INVARIANTS LeasesSafe ScreenshotsSafe SessionsSafe ControlSafe
PROPERTY CompanionKept
CHECK_DEADLOCK FALSE
