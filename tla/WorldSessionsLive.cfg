SPECIFICATION FairSpec
CONSTANTS
    Socket = {k1, k2}
    Char = {a}
    MaxSessions = 2
    MaxInbox = 1
    MaxLogins = 1
    MaxKicks = 1
PROPERTIES
    ClosedSessionEnds
