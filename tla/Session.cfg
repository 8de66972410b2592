SPECIFICATION Spec
CONSTANTS
    Ids = {i1, i2}
    Passwords = {p1, p2}
    Reqs = {r1, r2}
    MaxTries = 2
    Rooms <- SmallRooms
    None = None
SYMMETRY Symmetry
VIEW View
INVARIANTS TypeOK IdsEarned FormsOfSession FreshIsCurrent BlindNeedsReclaim SavedPasswordStands
