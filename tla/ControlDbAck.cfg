SPECIFICATION Spec
CONSTANTS
    Cmds = {c1}
    Models = {m1}
    NoCmd = NoCmd
INVARIANT ExecutedIsAcked
CHECK_DEADLOCK FALSE
