SPECIFICATION Spec
CONSTANTS
    p1 = p1
    p2 = p2
    p3 = p3
    g1 = g1
    g2 = g2
    g3 = g3
    Player = {p1, p2, p3}
    Group = {g1, g2, g3}
    FirstMembers <- PartyOfTwo
    MaxGroupSize = 2
    None = None
    MaxProposals = 3
    MaxWaiting = 2
    MaxRequests = 4
SYMMETRY Alike
PROPERTY
    QueuedForSomebody
