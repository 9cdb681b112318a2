CONSTANTS
    w1 = w1
    r1 = r1
    r2 = r2
    Ctx = {w1, r1, r2}
    Writers = {w1}
    Readers = {w1, r1, r2}
    NoCtx = NoCtx
SPECIFICATION Spec
INVARIANTS
    SharedInv
    WriterExcludes
    NoLostWakeup
PROPERTIES
    HeadFollows
    ReadersGetIn
    Implements
