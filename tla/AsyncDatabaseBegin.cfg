SPECIFICATION Spec
CONSTANTS
    Client = {world, map}
    World = world
    Delayer = delayer
    Joined = {world, map}
    MaxStmts = 2
    MaxTx = 1
    MaxLoading = 0
    StmtMayFail = TRUE
    BeginMayFail = TRUE
INVARIANT FailedNotApplied
