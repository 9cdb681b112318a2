CONSTANTS
    w1 = w1
    w2 = w2
    r1 = r1
    r2 = r2
    Ctx = {w1, w2, r1, r2}
    Writers = {w1, w2}
    Readers = {r1, r2}
    NoCtx = NoCtx
SPECIFICATION SafeSpec
INVARIANTS
    WriterExcludes
