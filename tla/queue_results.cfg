SPECIFICATION Spec
CONSTANTS
    Followers = {f1, f2}
    Emitters = {f1}
    NoEmitter = NoEmitter
    Writers = {w1, w2}
    NoWriter = NoWriter
    PushSizes = {1, 2}
    AsyncSizes = {}
    BatchSize = 2
    MaxDataSize = 0
    MaxChunks = 2
    MaxSwitches = 2
CHECK_DEADLOCK FALSE
SYMMETRY Symmetry
INVARIANTS TypeOK CallbackIsAlive NothingIsLeft HandledHasResult
