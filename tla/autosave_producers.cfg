SPECIFICATION Spec
CONSTANTS
    DirectOps = {d1}
    ControlOps = {c1}
    IntentOps = {i1}
    CaptureOps = {s1, s2}
    NoOp = NoOp
    Bytes <- MCUnitBytes
    RequestCapacity = 1
    ResultCapacity = 1
    RetainedBatchLimit = 1
    RetainedBytesLimit = 1
    MaxExports = 0
SYMMETRY MCSymmetry
INVARIANT AcknowledgedIsStored
INVARIANT AwaitedWorkCounted
INVARIANT TruthfulStatus
INVARIANT StoreIsPrefix
PROPERTY AcknowledgedSurvives
PROPERTY ImplementsDurableLog
