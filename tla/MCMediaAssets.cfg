CONSTANTS
    Assets = {a1}
    Objects = {1, 2, 3}
    Limit = 3
    PageSize = 1
    MaxHandlers = 2
    None = None
SPECIFICATION MCSpec
INVARIANTS ClosedForGood BytesPaidFor
PROPERTIES AttachedStays CleanupEnds
CHECK_DEADLOCK FALSE
