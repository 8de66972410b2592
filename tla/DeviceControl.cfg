SPECIFICATION Spec
CONSTANTS
    Cmds = {c1, c2}
    Foreign = {}
    NPlants = 2
    Slots = 2
    MaxVisits = 2
    MaxLoads = 1
    MaxTaps = 1
    NoCmd = NoCmd
    NoConn = NoConn
    FaultSets <- EnvFaultSets
SYMMETRY Symmetry
VIEW View
INVARIANTS EffectsAsConfirmed SettledPins SettledRows SettledLabels
CHECK_DEADLOCK FALSE
