CONSTANTS
    c1 = c1
    c2 = c2
    c3 = c3
    Ctx = {c1, c2, c3}
    NoCtx = NoCtx
    MaxDepth = 2
SPECIFICATION RSpec
INVARIANTS
    MutualExclusion
    IndInv
    Counted
PROPERTIES
    FifoHandOff
    LockReturns
    Implements
