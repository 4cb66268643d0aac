SPECIFICATION HungSpec
CONSTANTS
    DirectOps = {d1, d2}
    ControlOps = {}
    IntentOps = {}
    CaptureOps = {s1}
    NoOp = NoOp
    Bytes <- MCUnitBytes
    RequestCapacity = 4
    ResultCapacity = 2
    RetainedBatchLimit = 4
    RetainedBytesLimit = 4
    MaxExports = 0
PROPERTY TerminationEnds
PROPERTY SaveSettles
PROPERTY QuitResolves
