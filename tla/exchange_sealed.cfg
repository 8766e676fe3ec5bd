SPECIFICATION Spec
CONSTANTS
    Kinds = {"encrypted"}
    Lines <- PlainOnly
    Chunks = 0
    MaxFaults = 0
INVARIANTS
    SilenceTolerated
