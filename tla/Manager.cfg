CONSTANTS
    e1 = e1
    e2 = e2
    c1 = c1
    c2 = c2
    Env = {e1, e2}
    Ctx = {c1, c2}
    Nowhere = Nowhere
    BaseEnv = 1
    MaxEnv = 1
    Flags = {{"kept", "exclusive"}}
SPECIFICATION MCSpec
CHECK_DEADLOCK FALSE
INVARIANTS
    ManagerInv
PROPERTIES
    StopsSparingly
    EndedDeleted
    CleanUpEnds
