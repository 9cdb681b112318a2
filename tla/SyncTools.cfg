CONSTANTS
    c1 = c1
    c2 = c2
    c3 = c3
    Ctx = {c1, c2, c3}
    Sizes = {1, 2, 3}
    Amounts = {1, 2}
    MaxCalls = 3
SPECIFICATION Spec
CHECK_DEADLOCK FALSE
INVARIANTS
    SyncInv
PROPERTIES
    EverybodyLeaves
