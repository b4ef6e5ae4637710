\* A message and an account, one request at a time, one restore, two commands of its gate at a time.
CONSTANTS
    Targets = {1, 2}
    Foreign = {}
    Accounts = {2}
    Clients = {c1}
    Workers = {}
    Operators = {o1, o2}
    PageSize = 1
    Events = {"create", "login", "link", "source", "purge"}
    MaxTime = 2
    MaxRestores = 1
    None = None
SPECIFICATION Spec
SYMMETRY OperatorSymmetry
INVARIANTS LedgerFirst AckedStays
PROPERTY GateOpensClean
CHECK_DEADLOCK FALSE
