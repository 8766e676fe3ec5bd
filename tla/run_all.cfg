SPECIFICATION RunFairSpec
CONSTANTS
    m = m
    f = f
    Main = m
    Closers = {m}
    Fetch = f
    Ids = {TRUE, FALSE}
    CtxMayEnd = TRUE
    MayLeave = {"stdout", "stderr"}
    MaxChunks = 1
    ExitCodes = {7}
INVARIANTS
    RunTypeOK
    QuietBeforeDelete
    NoShellLeft
    HonestReturn
    ClosedOnce
PROPERTIES
    CancelReturns
CHECK_DEADLOCK FALSE
