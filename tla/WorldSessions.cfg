SPECIFICATION Spec
CONSTANTS
    Socket = {k1, k2}
    Char = {a, b}
    MaxSessions = 2
    MaxInbox = 1
    MaxLogins = 2
    MaxKicks = 1
INVARIANTS
    TypeOK
    PlayerOwned
    UnsavedOnlyAfterKick
    StoppedEmpty
SYMMETRY Interchangeable
