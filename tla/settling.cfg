CONSTANT Scenes = {"submission", "lanes", "input", "converge"}
CONSTANTS \* of the components
    SuThoughts = {"t1"}
    SuAttempts = {"a1", "a2"}
    SuMaxVersion = 2
    SuMaxFaults = 1
    LaOrder <- TwoLanes
    LaSaver = "per"
    LaHerdr = "ext"
    LaCancellable = {"ext"}
    LaCapacity = 1
    LaMaxSends = 1
    LaMaxFaults = 1
    IlStallLimit = 2
    IlSourceCapacity = 1
    IlOutCapacity = 1
    IlMaxKeys = 2
    IlMaxResizes = 2
    IlMaxFaults = 1
    UcSlots = {"a", "b"}
    UcMaxVersion = 2
    UcMaxLaunches = 3
    UcMaxOps = 1
    UcMaxFaults = 1
SPECIFICATION Spec
INVARIANTS SubmissionSafe LanesSafe InputLaneSafe
PROPERTIES ConvergenceSafe ShutdownEnds WorkEnds
CHECK_DEADLOCK FALSE
