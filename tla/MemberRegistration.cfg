SPECIFICATION Spec
CONSTANTS
    Phones = {p1, p2}
    Ids = {i1, i2}
    Reqs = {r1, r2, r3, r4}
    MaxTries = 1
    None = None
SYMMETRY Symmetry
INVARIANTS OneIdPerForm PatientIdWasFree ToldUnlessInsertFailed
CHECK_DEADLOCK FALSE
