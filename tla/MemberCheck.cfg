SPECIFICATION Spec
CONSTANTS
    Phones = {p1}
    Ids = {i1, i2}
    Reqs = {r1, r2}
    MaxTries = 2
    None = None
INVARIANT CheckedBeforeSubmit
CHECK_DEADLOCK FALSE
