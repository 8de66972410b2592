SPECIFICATION PlantSpec
CONSTANTS
    Reqs = {r1, r2, r3}
    Models = {m1, m2}
    MaxTries = 2
    NoModel = NoModel
SYMMETRY Symmetry
INVARIANTS OneRowPerModel RegisteredUnlessInsertFailed RefusedIsTaken
CHECK_DEADLOCK FALSE
