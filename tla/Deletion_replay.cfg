\* Two workers replay the deletion of one account; another object is in the bucket.
CONSTANTS
    Targets = {1}
    Foreign = {2}
    Accounts = {1}
    Clients = {c1}
    Workers = {w1, w2}
    Operators = {}
    PageSize = 1
    Events = {"login"}
    MaxTime = 1
    MaxRestores = 0
    None = None
SPECIFICATION LiveSpec
INVARIANTS ObservedIsDone PassComplete
PROPERTIES IntentsTakeEffect SessionsEnd
