CONSTANTS
    Subs = {1, 2}
    Native = {2}
    Workers = {w1, w2}
    PageSize = 1
    LeaseLength = 4
    Reserve = 2
    WebLimit = 1
    NativeLimit = 2
    CommitLimit = 1
    MaxChanges = 2
SPECIFICATION MCSpec
INVARIANTS FanoutComplete RevocationTakesEffect OneInFlight
SYMMETRY WorkerSymmetry
