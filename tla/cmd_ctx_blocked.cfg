SPECIFICATION FairSpec
CONSTANTS
    f = f
    Closers = {}
    Fetch = f
    Ids = {TRUE}
    CtxMayEnd = TRUE
    MayLeave = {"stdout"}
    MaxChunks = 1
    ExitCodes = {7}
PROPERTIES
    ContextCancelsRemote
CHECK_DEADLOCK FALSE
