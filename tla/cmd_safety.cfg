SPECIFICATION Spec
CONSTANTS
    u1 = u1
    f = f
    Closers = {u1}
    Fetch = f
    Ids = {TRUE, FALSE}
    CtxMayEnd = TRUE
    MayLeave = {}
    MaxChunks = 2
    ExitCodes = {7}
INVARIANTS
    TypeOK
    InOrder
    CompleteAtEOF
    NothingDiscarded
    PipesClosedWhenDone
    HonestSuccess
    ContextErrorKept
    FewLateReceives
PROPERTIES
    ExitCodeSettles
    ResultSettles
    Promised
