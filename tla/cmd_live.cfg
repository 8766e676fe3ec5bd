SPECIFICATION LinkSpec
CONSTANTS
    u1 = u1
    f = f
    Closers = {u1}
    Fetch = f
    Ids = {TRUE}
    CtxMayEnd = TRUE
    MayLeave = {"stdout"}
    MaxChunks = 1
    ExitCodes = {7}
PROPERTIES
    CancelEnds
    ExitEnds
CHECK_DEADLOCK FALSE
