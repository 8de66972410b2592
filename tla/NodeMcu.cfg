SPECIFICATION Spec
CONSTANTS
    Conns = {c1, c2, c3}
    None = None
SYMMETRY Symmetry
INVARIANTS BoardSound
PROPERTIES ImplementsBoard WedgeIsForGood
CHECK_DEADLOCK FALSE
