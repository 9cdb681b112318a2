CONSTANTS
    c1 = c1
    c2 = c2
    Ctx = {c1, c2}
    NoCtx = NoCtx
    Idle = Idle
    Waiters = {}
    Pri = {0}
SPECIFICATION Spec
CHECK_DEADLOCK FALSE
PROPERTIES
    EverybodyRuns
    JoinsReturn
    Stops
