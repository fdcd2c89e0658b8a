SPECIFICATION FairSpec
CONSTANTS
    Followers = {f1, f2}
    Emitters = {f1}
    NoEmitter = NoEmitter
    Writers = {w1}
    NoWriter = NoWriter
    PushSizes = {1}
    AsyncSizes = {1}
    BatchSize = 1
    MaxDataSize = 3
    MaxChunks = 3
    MaxSwitches = 1
CHECK_DEADLOCK FALSE
INVARIANTS AwaitsNothing DataSizeExact
PROPERTIES NoSilentSkip WriterReturns
