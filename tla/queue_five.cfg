SPECIFICATION Spec
CONSTANTS
    Followers = {f1, f2, f3, f4}
    Emitters = {f1}
    NoEmitter = NoEmitter
    Writers = {w1}
    NoWriter = NoWriter
    PushSizes = {1}
    AsyncSizes = {}
    BatchSize = 1
    MaxDataSize = 0
    MaxChunks = 1
    MaxSwitches = 0
CHECK_DEADLOCK FALSE
SYMMETRY Symmetry
INVARIANT AckedHasConsensus
