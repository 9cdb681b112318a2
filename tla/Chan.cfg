CONSTANTS
    p1 = p1
    p2 = p2
    g1 = g1
    g2 = g2
    Pushers = {p1, p2}
    Poppers = {g1, g2}
    Sizes <- ChanSizes
    MaxPush = 2
SPECIFICATION Spec
INVARIANTS
    ChanInv
    PushTells
    InOrder
    EnoughAwake
PROPERTIES
    ValuesComeOut
    CallsReturn
