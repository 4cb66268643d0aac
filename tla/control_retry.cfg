CONSTANT Scenes = {"control"}
CONSTANTS \* of the components
    SlProcs = {1, 2, 3, 4}
    SlSupported <- Releases
    SlAdopters = {3, 4}
    SlFound = 1
    SlMaxStarts = 5
    SeInstances = {"i1", "i2", "i3"}
    SeInteractive = {"i1", "i2"}
    SeSessions = {"s1"}
    SeMaxScans = 2
    CaProcs = {"p1", "p2"}
    CaMaxRequests = 4
    CaMaxFaults = 1
    WaFiles = {"f1", "f2"}
    WaDebounce = 2
    WaMaxTime = 4
    WaMaxWrites = 2
    HeTabs = {"A", "B"}
    HeSessions = {"s1"}
    HeNameOf <- SameName
    HeAgent <- TabAgents
    HeFresh = {"p1", "p2", "p3"}
    HeMaxToggles = 3
    HeMaxMoves = 4
    HeMaxFaults = 1
    CoClients = {"c1", "c2"}
    CoRequests <- Undo
    CoUndoable = 2
    CoMaxTries = 2
    CoMaxRuns = 4
    CoMaxStarts = 2
    CoMaxFaults = 1
    CoCapacity = 2
    CoLaneCapacity = 64
SPECIFICATION Spec
INVARIANT AppliedOnce
CHECK_DEADLOCK FALSE
