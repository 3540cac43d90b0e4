SPECIFICATION FairSpec
CONSTANTS
    Client = {world, map}
    World = world
    Delayer = delayer
    Joined = {world, map}
    MaxStmts = 2
    MaxTx = 1
    MaxLoading = 0
    StmtMayFail = FALSE
    BeginMayFail = FALSE
PROPERTIES
    RequestsServed
    ShutdownEnds
