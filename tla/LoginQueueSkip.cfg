SPECIFICATION Spec
CONSTANTS
    Players = {p1, p2, p3}
    Masters = {g1}
    Account <- MCAccount
    Level <- MCLevel
    FirstLimit = 1
    Limits <- NoLimits
    MaxConnects = 4
    MaxCommands = 0
    MaxLoading = 1
SYMMETRY Alike
INVARIANT
    WaitingNeverPlays
