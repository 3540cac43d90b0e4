SPECIFICATION Spec
CONSTANTS
    Players = {p1, p2, p3}
    Masters = {g1}
    Account <- MCAccount
    Level <- MCLevel
    FirstLimit = 1
    Limits <- MCLimits
    MaxConnects = 4
    MaxCommands = 1
    MaxLoading = 1
SYMMETRY Alike
INVARIANTS
    QueueSound
    WaitOnlyWhenFull
    PositionTold
PROPERTY
    AdmitsInTurn
