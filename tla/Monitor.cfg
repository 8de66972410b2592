SPECIFICATION Spec
CONSTANTS
    Cmds = {c1, c2}
    NPlants = 3
    Slots = 2
    MaxVisits = 2
    MaxLoads = 2
    MaxTaps = 2
    NoCmd = NoCmd
SYMMETRY Symmetry
INVARIANTS TypeOK RunsAsConfirmed SelectionBacked OnlyOwnPlants FirstLoadTarget
CHECK_DEADLOCK FALSE
