SPECIFICATION Spec
CONSTANTS
    Kinds = {"basic", "certificate"}
    Lines <- PlainOnly
    Chunks = 0
    MaxFaults = 0
INVARIANTS
    StatusReplacesText
