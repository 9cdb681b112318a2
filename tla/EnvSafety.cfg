CONSTANTS
    c1 = c1
    c2 = c2
    Ctx = {c1, c2}
    NoCtx = NoCtx
    Idle = Idle
    Pri = {0, 1}
    Waiters = {c1, c2}
SPECIFICATION SafeSpec
SYMMETRY Symmetry
CHECK_DEADLOCK FALSE
INVARIANTS
    EnvInv
    NoMissedWakeup
    ListedOnce
    JoinGetsResult
PROPERTIES
    HighestFirst
