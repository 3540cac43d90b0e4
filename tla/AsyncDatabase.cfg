SPECIFICATION Spec
CONSTANTS
    Client = {world, bg}
    World = world
    Delayer = delayer
    Joined = {world}
    MaxStmts = 3
    MaxTx = 1
    MaxLoading = 1
    StmtMayFail = TRUE
    BeginMayFail = FALSE
INVARIANTS
    TypeOK
    FifoHandover
    ConnectionExclusive
    FlushedBeforeEnd
PROPERTY ImplementsRequestStore
