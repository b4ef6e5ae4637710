CONSTANTS
    Logins = {l1, l2}
    Flows = {f1, f2}
    Users = {u1, u2}
    Subjects = {s1, s2}
    None = None
SPECIFICATION Spec
INVARIANTS OneSessionPerLogin DeletedStaysOut
CHECK_DEADLOCK FALSE
