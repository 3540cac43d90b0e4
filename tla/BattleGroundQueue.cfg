SPECIFICATION Spec
CONSTANTS
    Alliance = {a1, a2, a3}
    Horde = {h1}
    Party = {{a1, a2}, {a3}, {h1}}
    MinPerTeam = 1
    MaxPerTeam = 2
    MaxJoins = 3
    MaxOthers = 2
    a1 = a1
    a2 = a2
    a3 = a3
    h1 = h1
INVARIANTS
    TypeOK
    InvitedHasSlot
    NoOverInvite
    CountsAgree
    QueuedAgree
    InvitationWatched
CHECK_DEADLOCK FALSE
