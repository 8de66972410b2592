SPECIFICATION Spec
CONSTANTS
    Cmds = {c1, c2, c3}
    Models = {m1}
    NoCmd = NoCmd
SYMMETRY Symmetry
INVARIANTS RowExplained PatientUserWins
CHECK_DEADLOCK FALSE
