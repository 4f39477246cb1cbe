CONSTANTS
    Threads = {a, b}
    Slots = {0, 1}
    Sizes = {1, 2}
    Lens = {2}
    MaxBytes <- OneStream
    MaxNotice = 1
    None = None
SPECIFICATION FairSpec
INVARIANTS
    OwnSocket
    StreamInOrder
    NoSleepOnData
    ZeroMeansClosed
CONSTRAINT Tidy
PROPERTY RecvEnds
