CONSTANT Scenes = {"transfer", "clipboard", "export", "attachments", "child"}
CONSTANTS \* of the components
    TrThoughts = {"t1"}
    TrBatches = {"b1", "b2"}
    TrMaxVersion = 2
    TrMaxPicks = 2
    TrMaxFaults = 2
    ClThoughts = {"t1"}
    ClProcs = {"own", "peer"}
    ClOwner = "own"
    ClMaxText = 2
    ClMaxRequests = 2
    ClMaxForeign = 1
    ClMaxChanges = 2
    ExThoughts = {"t1"}
    ExPaths = {1}
    ExMaxValue = 2
    ExMaxExports = 2
    ExMaxFiles = 3
    ExMaxForeign = 1
    ExMaxChanges = 1
    ExMaxFaults = 1
    ChMaxRuns = 2
SPECIFICATION Spec
INVARIANTS TransferSafe ClipboardSafe ExportSafe AttachmentsSafe
PROPERTY ChildContained
CHECK_DEADLOCK FALSE
