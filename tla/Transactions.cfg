CONSTANTS
    Calls = {c1, c2, c3}
    Writes = {c1}
    Connections = {k1}
    MaxPending = 2
    Attempts = 2
    None = None
SPECIFICATION FairSpec
INVARIANTS Admitted
PROPERTIES Implements CheckoutKept PlacesReturned
CHECK_DEADLOCK FALSE
