SPECIFICATION Spec
CONSTANTS
    DirectOps = {d1, d2}
    ControlOps = {}
    IntentOps = {}
    CaptureOps = {}
    NoOp = NoOp
    Bytes <- MCUnitBytes
    RequestCapacity = 4
    ResultCapacity = 2
    RetainedBatchLimit = 4
    RetainedBytesLimit = 4
    MaxExports = 1
SYMMETRY MCSymmetry
INVARIANT NoSilentDiscard
