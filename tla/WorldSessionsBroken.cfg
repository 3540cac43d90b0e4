SPECIFICATION Spec
CONSTANTS
    Socket = {k1, k2}
    Char = {a}
    MaxSessions = 1
    MaxInbox = 1
    MaxLogins = 1
    MaxKicks = 0
INVARIANTS
    BrokenNotSaved
