CONSTANT Scenes = {"recovery", "modes", "updates", "picker", "editor", "palette"}
CONSTANTS \* of the components
    ReProcs = {"p1", "p2"}
    ReWindow = 2
    ReMaxRecoveries = 1
    ReMaxTime = 3
    ReMaxStalls = 2
    ReMaxFaults = 1
    ReMaxInstalls = 1
    TmMouseCapture = TRUE
    TmMaxFaults = 2
    UpProcs = {"a", "b"}
    UpMaxVersion = 2
    UpMaxChecks = 2
    UpMaxTyped = 2
SPECIFICATION Spec
INVARIANTS TerminalRecovers UpdateCheckSafe InvocationSafe EditorSafe PaletteSafe
CHECK_DEADLOCK FALSE
