SPECIFICATION FairSpec
CONSTANTS
    Cmds = {c1}
    Foreign = {f1}
    NPlants = 1
    Slots = 1
    MaxVisits = 1
    MaxLoads = 2
    MaxTaps = 1
    NoCmd = NoCmd
    NoConn = NoConn
    FaultSets = {{"leaver", "hide", "blind"}}
PROPERTIES EffectUnlessBlocked
CHECK_DEADLOCK FALSE
