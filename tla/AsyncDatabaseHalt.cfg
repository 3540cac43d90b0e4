SPECIFICATION Spec
CONSTANTS
    Client = {world, bg}
    World = world
    Delayer = delayer
    Joined = {world}
    MaxStmts = 2
    MaxTx = 0
    MaxLoading = 0
    StmtMayFail = FALSE
    BeginMayFail = FALSE
INVARIANT NobodyTooLate
