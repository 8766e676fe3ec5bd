SPECIFICATION FairSpec
CONSTANTS
    Kinds = {"basic", "ntlm", "encrypted"}
    Lines <- MCLines
    Chunks = 2
    MaxFaults = 1
INVARIANTS
    TypeOK
    RequestsAccepted
    InputFaithful
    DoneIsComplete
    OrphansOnlyFromLoss
    SilenceToleratedInClear
PROPERTIES
    PostsReturn
    GoneEnds
