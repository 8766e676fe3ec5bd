SPECIFICATION Spec
CONSTANTS
    u1 = u1
    u2 = u2
    f = f
    Closers = {u1, u2}
    Fetch = f
    Ids = {TRUE}
    CtxMayEnd = FALSE
    MayLeave = {}
    MaxChunks = 1
    ExitCodes = {7}
INVARIANTS
    ClosedOnce
