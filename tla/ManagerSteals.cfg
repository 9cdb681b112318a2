CONSTANTS
    e1 = e1
    e2 = e2
    c1 = c1
    c2 = c2
    Env = {e1, e2}
    Ctx = {c1, c2}
    Nowhere = Nowhere
    BaseEnv = 1
    MaxEnv = 2
    Flags = {{}}
SPECIFICATION RunningSpec
CHECK_DEADLOCK FALSE
PROPERTIES
    IdleSteals
