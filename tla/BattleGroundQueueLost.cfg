SPECIFICATION Spec
CONSTANTS
    Alliance = {a1, a2}
    Horde = {h1, h2}
    Party = {{a1, a2}, {h1, h2}}
    MinPerTeam = 1
    MaxPerTeam = 2
    MaxJoins = 2
    MaxOthers = 2
    a1 = a1
    a2 = a2
    h1 = h1
    h2 = h2
INVARIANTS
    InvitationEnds
CHECK_DEADLOCK FALSE
