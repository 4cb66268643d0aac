SPECIFICATION Spec
CONSTANTS
    DirectOps = {d1, d2, d3}
    ControlOps = {}
    IntentOps = {}
    CaptureOps = {s1}
    NoOp = NoOp
    Bytes <- MCUnitBytes
    RequestCapacity = 1
    ResultCapacity = 1
    RetainedBatchLimit = 2
    RetainedBytesLimit = 2
    MaxExports = 1
SYMMETRY MCSymmetry
INVARIANT TypeOK
INVARIANT PendingHeld
INVARIANT RetryCanSucceed
INVARIANT ExitIsFlushed
